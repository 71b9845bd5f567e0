------------------------------ MODULE DeployProofs ------------------------------
(***************************************************************************)
(* The promotion script implements the atomic installation, keeps its      *)
(* journal readable and never undoes an acknowledged promotion, for every  *)
(* set of paths and every number of promotions.                            *)
(*                                                                         *)
(* The deployer that runs it puts only what was verified on the Pi and on  *)
(* a card, goes on after a reboot with the system that came up, shows the  *)
(* password that was made, keeps a Wi-Fi profile that connects and tells   *)
(* the operator the truth, for every number of jobs, members, passwords    *)
(* and hosts.                                                              *)
(***************************************************************************)
EXTENDS DeployTransaction, Deployer, Integers, SequenceTheorems, TLAPS

\* Nothing of an earlier transaction is left in a directory without a journal.
NoLeftovers(d) == d.kind = "none" => ~d.ready /\ d.backup = NoBackup

\* What rolling back a file leaves of it and of its backup.
Restored(f) ==
    IF f \in disk.present THEN disk.backup[f] = Absent ELSE disk.final[f] = Absent

\* The journal the script is writing: named, then recorded, then ready.
JournalInv ==
    /\ NoLeftovers(disk) /\ NoLeftovers(saved)
    /\ Where = "prepare" => disk.kind = "none"
    /\ Where \in {"record", "syncData", "ready"} =>
          /\ disk.kind = "prepared" /\ ~disk.ready
          /\ disk.names = names /\ disk.backup = NoBackup
    /\ Where \in {"syncData", "ready"} =>
          disk.present = {f \in names : disk.final[f] # Absent}

\* The loop over the manifest: a name not reached is as it was recorded, the
\* one being moved has its backup, the others hold the new version.
PromoteInv ==
    /\ moving # {} => Where = "install"
    /\ \A f, g \in moving : f = g
    /\ Where \in {"promote", "install"} =>
          /\ disk.kind = "prepared" /\ disk.ready
          /\ disk.names = names
          /\ todo \subseteq names /\ moving \subseteq names
          /\ \A f \in todo : /\ f \notin moving /\ disk.backup[f] = Absent
                             /\ f \in disk.present <=> disk.final[f] # Absent
          /\ \A f \in moving : f \in disk.present => disk.backup[f] # Absent
          /\ \A f \in (names \ todo) \ moving : disk.final[f] = version
    /\ Where = "committed" =>
          disk.kind = "committed" /\ \A f \in names : disk.final[f] = version

\* The loop of a rollback, and who runs it.
RollbackInv ==
    /\ Where \in {"recover", "mark"} => command # "trap"
    /\ Where \in {"rollback", "mark"} => disk.kind = "prepared" /\ disk.ready
    /\ Where = "rollback" => todo \subseteq disk.names
    /\ Where = "rollback" /\ command # "trap" =>
          \A f \in disk.names \ todo : Restored(f)
    /\ Where = "mark" => \A f \in disk.names : Restored(f)

SyncedFirst(d) == d.kind = "none" \/ (d.kind = "prepared" /\ d.ready) => ~d.torn

\* The state record's bytes were synced before the ready marker was made.
TornInv ==
    /\ SyncedFirst(disk) /\ SyncedFirst(saved)
    /\ disk.kind = "none" \/ (disk.kind = "prepared" /\ disk.ready) => ~dirty
    /\ Where \in {"ready", "committed"} => ~dirty
    /\ Where \in {"prepare", "record", "syncData", "ready"} => ~disk.torn

\* What was acknowledged is on the medium, and is not newer than the script.
AckInv ==
    /\ \A f \in Files : acked[f] <= version
    /\ AckedSurvives
    /\ pc = "committed" => \A f \in names : Recovered(saved)[f] = version

\* What one invocation after another keeps, acknowledgements apart.
ScriptInv ==
    /\ TypeOK /\ next # "sync"
    /\ JournalInv /\ PromoteInv /\ RollbackInv /\ TornInv

IInv ==
    /\ TypeOK /\ next # "sync"
    /\ JournalInv /\ PromoteInv /\ RollbackInv /\ TornInv /\ AckInv
--------------------------------------------------------------------------------
\* The promotion's bound leaves a version for every one it counts.
LEMMA VersionRange == /\ Versions \subseteq Nat /\ 1 \in Versions
                      /\ Absent \notin Versions
                      /\ \A v \in Versions : v <= MaxDeploys => v + 1 \in Versions
  BY DeployTransactionAssumption DEF Versions, Absent

\* sync_dir: the flushed copy is the directory itself, so it is as sound.
LEMMA SyncKeeps ==
    ASSUME IInv, Sync
    PROVE  ScriptInv'
  <1>1. TypeOK'
    BY DEF IInv, TypeOK, Sync, Flushed, Disks
  <1>2. next' # "sync"
    BY DEF IInv, Sync
  <1>3. JournalInv'
    BY DEF IInv, Sync, Flushed, NoLeftovers, JournalInv, Where
  <1>4. PromoteInv'
    BY DEF IInv, Sync, PromoteInv, Where
  <1>5. RollbackInv'
    BY DEF IInv, Sync, Restored, RollbackInv, Where
  <1>6. TornInv'
    BY DEF IInv, Sync, Flushed, SyncedFirst, TornInv, Where
  <1> QED  BY <1>1, <1>2, <1>3, <1>4, <1>5, <1>6 DEF ScriptInv

\* A recovery begins at the head of recover_pending().
LEMMA StartRecoverKeeps ==
    ASSUME IInv, StartRecover
    PROVE  ScriptInv'
  <1>1. TypeOK'
    BY DEF IInv, TypeOK, StartRecover, Then, Labels
  <1>2. next' # "sync"
    BY DEF IInv, StartRecover, Then
  <1>3. JournalInv'
    BY DEF IInv, StartRecover, Then, JournalInv, Where
  <1>4. PromoteInv'
    BY DEF IInv, StartRecover, Then, PromoteInv, Where
  <1>5. RollbackInv'
    BY DEF StartRecover, Then, RollbackInv, Where
  <1>6. TornInv'
    BY DEF IInv, StartRecover, Then, TornInv, Where
  <1> QED  BY <1>1, <1>2, <1>3, <1>4, <1>5, <1>6 DEF ScriptInv

\* Removing a journal leaves nothing of it behind.
LEMMA RemoveJournalKeeps ==
    ASSUME IInv, RemoveJournal
    PROVE  ScriptInv'
  <1>1. TypeOK'
    BY DEF IInv, TypeOK, RemoveJournal, NoJournal, NoBackup, SyncThen, Disks,
           Labels, Contents
  <1>2. next' # "sync"
    BY DEF RemoveJournal, SyncThen
  <1>3. JournalInv'
    BY DEF IInv, RemoveJournal, NoJournal, SyncThen, NoLeftovers, JournalInv,
           Where
  <1>4. PromoteInv'
    BY DEF IInv, RemoveJournal, SyncThen, PromoteInv, Where
  <1>5. RollbackInv'
    BY DEF IInv, RemoveJournal, SyncThen, RollbackInv, Where
  <1>6. TornInv'
    BY DEF IInv, RemoveJournal, NoJournal, SyncThen, SyncedFirst, TornInv
  <1> QED  BY <1>1, <1>2, <1>3, <1>4, <1>5, <1>6 DEF ScriptInv

\* A rollback starts with every name of the journal still to do.
LEMMA StartRollbackKeeps ==
    ASSUME IInv, StartRollback
    PROVE  ScriptInv'
  <1>1. TypeOK'
    BY DEF IInv, TypeOK, StartRollback, Then, Disks, Labels
  <1>2. next' # "sync"
    BY DEF IInv, StartRollback, Then
  <1>3. JournalInv'
    BY DEF IInv, StartRollback, Then, JournalInv, Where
  <1>4. PromoteInv'
    BY DEF IInv, StartRollback, Then, PromoteInv, Where
  <1>5. RollbackInv'
    BY DEF StartRollback, Then, RollbackInv, Where
  <1>6. TornInv'
    BY DEF IInv, StartRollback, Then, TornInv, Where
  <1> QED  BY <1>1, <1>2, <1>3, <1>4, <1>5, <1>6 DEF ScriptInv

\* One name rolled back: the other names keep what the invariant says of them.
LEMMA RollbackFileKeeps ==
    ASSUME IInv, NEW f \in Files, RollbackFile(f)
    PROVE  ScriptInv'
  <1>1. pc = "rollback" /\ pc' = "rollback" /\ f \in todo
    BY DEF RollbackFile, Then
  <1>2. /\ disk' \in Disks
        /\ disk'.kind = disk.kind /\ disk'.ready = disk.ready
        /\ disk'.names = disk.names /\ disk'.present = disk.present
        /\ disk'.torn = disk.torn
        /\ \A g \in Files \ {f} : /\ disk'.final[g] = disk.final[g]
                                  /\ disk'.backup[g] = disk.backup[g]
    <2>1. CASE disk' = [disk EXCEPT !.final[f] = Absent]
      BY <2>1 DEF IInv, TypeOK, Disks, Contents
    <2>2. CASE disk' = [disk EXCEPT !.final[f] = disk.backup[f], !.backup[f] = Absent]
      BY <2>2 DEF IInv, TypeOK, Disks, Contents
    <2>3. CASE disk' = disk
      BY <2>3 DEF IInv, TypeOK
    <2> QED  BY <2>1, <2>2, <2>3 DEF RollbackFile
  <1>3. \/ todo' = todo
        \/ todo' = todo \ {f} /\ Restored(f)'
    <2>2. CASE /\ f \in disk.present /\ todo' = todo \ {f}
               /\ disk' = [disk EXCEPT !.final[f] = disk.backup[f], !.backup[f] = Absent]
      BY <2>2 DEF Restored, IInv, TypeOK, Disks
    <2>3. CASE /\ f \in disk.present /\ disk.backup[f] = Absent
               /\ todo' = todo \ {f} /\ UNCHANGED disk
      BY <2>3 DEF Restored
    <2>4. CASE /\ f \notin disk.present /\ todo' = todo \ {f}
               /\ disk' = [disk EXCEPT !.final[f] = Absent]
      BY <2>4 DEF Restored, IInv, TypeOK, Disks
    <2> QED  BY <2>2, <2>3, <2>4 DEF RollbackFile
  <1>4. TypeOK'
    BY <1>2 DEF RollbackFile, Then, IInv, TypeOK
  <1>5. (next # "sync" /\ JournalInv)'
    BY <1>2
       DEF RollbackFile, Then, IInv, RollbackInv, JournalInv, NoLeftovers, Where
  <1>6. PromoteInv'
    BY DEF RollbackFile, Then, IInv, PromoteInv, Where
  <1>7. RollbackInv'
    <2>1. command' = command /\ Where = "rollback" /\ Where' = "rollback"
      BY <1>1 DEF RollbackFile, Where
    <2>2. todo' \subseteq disk'.names /\ disk'.kind = "prepared" /\ disk'.ready
      BY <1>2, <1>3, <2>1 DEF IInv, RollbackInv
    <2>3. ASSUME command # "trap", NEW g \in disk'.names \ todo'
          PROVE  Restored(g)'
      <3>1. CASE g = f
        BY <1>1, <1>3, <3>1
      <3>2. CASE g # f
        <4>1. Restored(g) /\ g \in Files
          BY <1>2, <1>3, <2>1, <2>3, <3>2 DEF IInv, Disks, RollbackInv
        <4> QED  BY <1>2, <3>2, <4>1 DEF Restored
      <3> QED  BY <3>1, <3>2
    <2> QED  BY <2>1, <2>2, <2>3 DEF RollbackInv
  <1>8. TornInv'
    BY <1>2 DEF RollbackFile, Then, IInv, TornInv, SyncedFirst, Where
  <1> QED  BY <1>4, <1>5, <1>6, <1>7, <1>8 DEF ScriptInv

\* A failed command inside the trap; nobody relies on that rollback's end.
LEMMA RollbackSkipsKeeps ==
    ASSUME IInv, NEW f \in Files, RollbackSkips(f)
    PROVE  ScriptInv'
  <1>1. TypeOK'
    BY DEF IInv, TypeOK, RollbackSkips, Then
  <1>2. next' # "sync"
    BY DEF IInv, RollbackSkips, Then
  <1>3. JournalInv'
    BY DEF IInv, RollbackSkips, Then, JournalInv, Where
  <1>4. PromoteInv'
    BY DEF IInv, RollbackSkips, Then, PromoteInv, Where
  <1>5. RollbackInv'
    BY DEF IInv, RollbackSkips, Then, RollbackInv, Where
  <1>6. TornInv'
    BY DEF IInv, RollbackSkips, Then, TornInv, Where
  <1> QED  BY <1>1, <1>2, <1>3, <1>4, <1>5, <1>6 DEF ScriptInv

\* The loop's end: outside the trap every name has been restored.
LEMMA RollbackDoneKeeps ==
    ASSUME IInv, RollbackDone
    PROVE  ScriptInv'
  <1>1. TypeOK'
    BY DEF IInv, TypeOK, RollbackDone, SyncThen, Labels
  <1>2. next' # "sync"
    BY DEF RollbackDone, SyncThen
  <1>3. JournalInv'
    BY DEF IInv, RollbackDone, SyncThen, JournalInv, Where
  <1>4. PromoteInv'
    BY DEF IInv, RollbackDone, SyncThen, PromoteInv, Where
  <1>5. RollbackInv'
    BY DEF IInv, RollbackDone, SyncThen, Restored, RollbackInv, Where
  <1>6. TornInv'
    BY DEF IInv, RollbackDone, SyncThen, TornInv, Where
  <1> QED  BY <1>1, <1>2, <1>3, <1>4, <1>5, <1>6 DEF ScriptInv

\* The journal is renamed .rolled-back once nothing depends on it.
LEMMA MarkRolledBackKeeps ==
    ASSUME IInv, MarkRolledBack
    PROVE  ScriptInv'
  <1>1. TypeOK'
    BY DEF IInv, TypeOK, MarkRolledBack, SyncThen, Disks, Labels
  <1>2. next' # "sync"
    BY DEF MarkRolledBack, SyncThen
  <1>3. JournalInv'
    BY DEF IInv, MarkRolledBack, SyncThen, NoLeftovers, JournalInv, Where
  <1>4. PromoteInv'
    BY DEF IInv, MarkRolledBack, SyncThen, PromoteInv, Where
  <1>5. RollbackInv'
    BY DEF IInv, MarkRolledBack, SyncThen, RollbackInv, Where
  <1>6. TornInv'
    BY DEF IInv, MarkRolledBack, SyncThen, SyncedFirst, TornInv, Where
  <1> QED  BY <1>1, <1>2, <1>3, <1>4, <1>5, <1>6 DEF ScriptInv

\* recover_pending() returns only with no journal left.
LEMMA RecoverDoneKeeps ==
    ASSUME IInv, RecoverDone
    PROVE  ScriptInv'
  <1>1. TypeOK'
    BY DEF IInv, TypeOK, RecoverDone, SyncThen, Labels, Promoting
  <1>2. next' # "sync"
    BY DEF RecoverDone, SyncThen
  <1>3. JournalInv'
    BY DEF IInv, RecoverDone, SyncThen, JournalInv, Where
  <1>4. PromoteInv'
    BY DEF IInv, RecoverDone, SyncThen, PromoteInv, Where
  <1>5. RollbackInv'
    BY DEF RecoverDone, SyncThen, RollbackInv, Where
  <1>6. TornInv'
    BY DEF IInv, RecoverDone, SyncThen, SyncedFirst, TornInv
  <1> QED  BY <1>1, <1>2, <1>3, <1>4, <1>5, <1>6 DEF ScriptInv

\* A promotion begins with the recovery of the one before it.
LEMMA StartPromoteKeeps ==
    ASSUME IInv, NEW manifest \in SUBSET Files, StartPromote(manifest)
    PROVE  ScriptInv'
  <1>1. TypeOK'
    BY VersionRange DEF IInv, TypeOK, StartPromote, SyncThen, Labels
  <1>2. next' # "sync"
    BY DEF StartPromote, SyncThen
  <1>3. JournalInv'
    BY DEF IInv, StartPromote, SyncThen, JournalInv, Where
  <1>4. PromoteInv'
    BY DEF IInv, StartPromote, SyncThen, PromoteInv, Where
  <1>5. RollbackInv'
    BY DEF StartPromote, SyncThen, RollbackInv, Where
  <1>6. TornInv'
    BY DEF IInv, StartPromote, SyncThen, TornInv, Where
  <1> QED  BY <1>1, <1>2, <1>3, <1>4, <1>5, <1>6 DEF ScriptInv

\* The prepared journal starts empty and not ready.
LEMMA PrepareKeeps ==
    ASSUME IInv, Prepare
    PROVE  ScriptInv'
  <1>1. TypeOK'
    BY DEF IInv, TypeOK, Prepare, SyncThen, Disks, Labels, Promoting
  <1>2. next' # "sync"
    BY DEF Prepare, SyncThen
  <1>3. JournalInv'
    BY DEF IInv, Prepare, SyncThen, NoLeftovers, JournalInv, Where
  <1>4. PromoteInv'
    BY DEF IInv, Prepare, SyncThen, PromoteInv, Where
  <1>5. RollbackInv'
    BY DEF Prepare, SyncThen, RollbackInv, Where
  <1>6. TornInv'
    BY DEF IInv, Prepare, SyncThen, SyncedFirst, JournalInv, TornInv, Where
  <1> QED  BY <1>1, <1>2, <1>3, <1>4, <1>5, <1>6 DEF ScriptInv

\* state.tsv records exactly the names that exist.
LEMMA RecordKeeps ==
    ASSUME IInv, Record
    PROVE  ScriptInv'
  <1>1. TypeOK'
    BY DEF IInv, TypeOK, Record, Then, Disks, Labels, Promoting
  <1>2. next' # "sync"
    BY DEF IInv, Record, Then
  <1>3. JournalInv'
    BY DEF IInv, Record, Then, NoLeftovers, JournalInv, Where
  <1>4. PromoteInv'
    BY DEF IInv, Record, Then, PromoteInv, Where
  <1>5. RollbackInv'
    BY DEF Record, Then, RollbackInv, Where
  <1>6. TornInv'
    BY DEF IInv, Record, Then, SyncedFirst, JournalInv, TornInv, Where
  <1> QED  BY <1>1, <1>2, <1>3, <1>4, <1>5, <1>6 DEF ScriptInv

\* sync -f puts the record's bytes on the medium.
LEMMA SyncDataKeeps ==
    ASSUME IInv, SyncData
    PROVE  ScriptInv'
  <1>1. TypeOK'
    BY VersionRange
       DEF IInv, TypeOK, SyncData, SyncThen, Then, Flushed, Disks, Labels,
           Promoting, Contents, NoBackup, NoJournal
  <1>2. next' # "sync"
    BY DEF IInv, SyncData
  <1>3. JournalInv'
    BY DEF IInv, SyncData, JournalInv, Where
  <1>4. PromoteInv'
    BY DEF IInv, SyncData, PromoteInv, Where
  <1>5. RollbackInv'
    BY DEF SyncData, RollbackInv, Where
  <1>6. TornInv'
    BY DEF IInv, SyncData, TornInv, Where
  <1> QED  BY <1>1, <1>2, <1>3, <1>4, <1>5, <1>6 DEF ScriptInv

\* The ready marker opens the loop over the manifest.
LEMMA MarkReadyKeeps ==
    ASSUME IInv, MarkReady
    PROVE  ScriptInv'
  <1>1. TypeOK'
    BY DEF IInv, TypeOK, MarkReady, SyncThen, Disks, Labels, Promoting
  <1>2. next' # "sync"
    BY DEF MarkReady, SyncThen
  <1>3. JournalInv'
    BY DEF IInv, MarkReady, SyncThen, NoLeftovers, JournalInv, Where
  <1>4. PromoteInv'
    BY DEF IInv, TypeOK, MarkReady, SyncThen, NoBackup, JournalInv, PromoteInv,
           Where
  <1>5. RollbackInv'
    BY DEF MarkReady, SyncThen, RollbackInv, Where
  <1>6. TornInv'
    BY DEF IInv, MarkReady, SyncThen, SyncedFirst, TornInv, Where
  <1> QED  BY <1>1, <1>2, <1>3, <1>4, <1>5, <1>6 DEF ScriptInv

\* mv final backup: the name is now the one being moved.
LEMMA BackupKeeps ==
    ASSUME IInv, NEW f \in Files, Backup(f)
    PROVE  ScriptInv'
  <1>1. TypeOK'
    BY DEF IInv, TypeOK, Backup, SyncThen, Disks, Labels, Promoting, Contents
  <1>2. next' # "sync"
    BY DEF Backup, SyncThen
  <1>3. JournalInv'
    BY DEF IInv, Backup, SyncThen, NoLeftovers, JournalInv, PromoteInv, Where
  <1>4. PromoteInv'
    <2>1. /\ Where = "promote" /\ Where' = "install" /\ moving = {}
          /\ moving' = {f} /\ todo' = todo \ {f} /\ f \in todo
          /\ names' = names /\ version' = version
      BY DEF IInv, PromoteInv, Backup, SyncThen, Where
    <2>2. /\ disk.kind = "prepared" /\ disk.ready /\ disk.names = names
          /\ todo \subseteq names
      BY <2>1 DEF IInv, PromoteInv
    <2>3. /\ disk'.kind = disk.kind /\ disk'.ready = disk.ready
          /\ disk'.names = disk.names /\ disk'.present = disk.present
          /\ f \in disk.present => disk'.backup[f] # Absent
          /\ \A g \in Files \ {f} : /\ disk'.final[g] = disk.final[g]
                                    /\ disk'.backup[g] = disk.backup[g]
      BY <2>1 DEF Backup, IInv, TypeOK, Disks, PromoteInv
    <2>4. \A g \in todo' : /\ g \notin moving' /\ disk'.backup[g] = Absent
                           /\ g \in disk'.present <=> disk'.final[g] # Absent
      BY <2>1, <2>3 DEF IInv, TypeOK, PromoteInv
    <2>5. \A g \in (names \ todo') \ moving' : disk'.final[g] = version
      BY <2>1, <2>3 DEF IInv, TypeOK, PromoteInv
    <2> QED  BY <2>1, <2>2, <2>3, <2>4, <2>5 DEF PromoteInv
  <1>5. RollbackInv'
    BY DEF Backup, SyncThen, RollbackInv, Where
  <1>6. TornInv'
    BY DEF IInv, Backup, SyncThen, SyncedFirst, TornInv, Where
  <1> QED  BY <1>1, <1>2, <1>3, <1>4, <1>5, <1>6 DEF ScriptInv

\* mv staged final: the name holds the new version.
LEMMA PromoteKeeps ==
    ASSUME IInv, NEW f \in Files, Promote(f)
    PROVE  ScriptInv'
  <1>1. TypeOK'
    BY DEF IInv, TypeOK, Promote, SyncThen, Disks, Labels, Promoting, Contents
  <1>2. next' # "sync"
    BY DEF Promote, SyncThen
  <1>3. JournalInv'
    BY DEF IInv, Promote, SyncThen, NoLeftovers, JournalInv, Where
  <1>4. PromoteInv'
    <2>1. /\ Where = "install" /\ Where' = "promote" /\ moving = {f}
          /\ moving' = {} /\ todo' = todo /\ names' = names /\ version' = version
      BY DEF IInv, PromoteInv, Promote, SyncThen, Where
    <2>2. /\ disk.kind = "prepared" /\ disk.ready /\ disk.names = names
          /\ todo \subseteq names
      BY <2>1 DEF IInv, PromoteInv
    <2>3. /\ disk'.kind = disk.kind /\ disk'.ready = disk.ready
          /\ disk'.names = disk.names /\ disk'.present = disk.present
          /\ disk'.backup = disk.backup /\ disk'.final[f] = version
          /\ \A g \in Files \ {f} : disk'.final[g] = disk.final[g]
      BY DEF Promote, IInv, TypeOK, Disks
    <2>4. \A g \in todo' : /\ g \notin moving' /\ disk'.backup[g] = Absent
                           /\ g \in disk'.present <=> disk'.final[g] # Absent
      BY <2>1, <2>3 DEF IInv, TypeOK, PromoteInv
    <2>5. \A g \in (names \ todo') \ moving' : disk'.final[g] = version
      BY <2>1, <2>3 DEF IInv, TypeOK, PromoteInv
    <2> QED  BY <2>1, <2>2, <2>3, <2>4, <2>5 DEF PromoteInv
  <1>5. RollbackInv'
    BY DEF Promote, SyncThen, RollbackInv, Where
  <1>6. TornInv'
    BY DEF IInv, Promote, SyncThen, SyncedFirst, TornInv, Where
  <1> QED  BY <1>1, <1>2, <1>3, <1>4, <1>5, <1>6 DEF ScriptInv

\* The rename to .committed, after the last name.
LEMMA CommitKeeps ==
    ASSUME IInv, Commit
    PROVE  ScriptInv'
  <1>1. TypeOK'
    BY DEF IInv, TypeOK, Commit, SyncThen, Disks, Labels
  <1>2. next' # "sync"
    BY DEF Commit, SyncThen
  <1>3. JournalInv'
    BY DEF IInv, Commit, SyncThen, NoLeftovers, JournalInv, Where
  <1>4. PromoteInv'
    BY DEF IInv, Commit, SyncThen, PromoteInv, Where
  <1>5. RollbackInv'
    BY DEF Commit, SyncThen, RollbackInv, Where
  <1>6. TornInv'
    BY DEF IInv, Commit, SyncThen, SyncedFirst, PromoteInv, TornInv, Where
  <1> QED  BY <1>1, <1>2, <1>3, <1>4, <1>5, <1>6 DEF ScriptInv

\* The committed journal is removed and the script exits 0.
LEMMA CleanupKeeps ==
    ASSUME IInv, Cleanup
    PROVE  ScriptInv'
  <1>1. TypeOK'
    BY DEF IInv, TypeOK, Cleanup, NoJournal, NoBackup, Acknowledged, SyncThen,
           Disks, Labels, Contents
  <1>2. next' # "sync"
    BY DEF Cleanup, SyncThen
  <1>3. JournalInv'
    BY DEF IInv, Cleanup, NoJournal, SyncThen, NoLeftovers, JournalInv, Where
  <1>4. PromoteInv'
    BY DEF IInv, Cleanup, SyncThen, PromoteInv, Where
  <1>5. RollbackInv'
    BY DEF Cleanup, SyncThen, RollbackInv, Where
  <1>6. TornInv'
    BY DEF IInv, Cleanup, NoJournal, SyncThen, SyncedFirst, TornInv, Where
  <1> QED  BY <1>1, <1>2, <1>3, <1>4, <1>5, <1>6 DEF ScriptInv

\* A signal or a failing command: the trap rolls back from the start.
LEMMA InterruptKeeps ==
    ASSUME IInv, Interrupt
    PROVE  ScriptInv'
  <1>1. TypeOK'
    BY DEF IInv, TypeOK, Interrupt, Then, Disks, Labels
  <1>2. next' # "sync"
    BY DEF IInv, Interrupt, Then
  <1>3. JournalInv'
    BY DEF IInv, Interrupt, Then, JournalInv, Where
  <1>4. PromoteInv'
    BY DEF Interrupt, Then, PromoteInv, Where
  <1>5. RollbackInv'
    BY DEF Interrupt, Then, RollbackInv, Where
  <1>6. TornInv'
    BY DEF IInv, Interrupt, Then, TornInv, Where
  <1> QED  BY <1>1, <1>2, <1>3, <1>4, <1>5, <1>6 DEF ScriptInv

\* SIGKILL leaves the directory as it is.
LEMMA KillKeeps ==
    ASSUME IInv, Kill
    PROVE  ScriptInv'
  <1>1. TypeOK'
    BY DEF IInv, TypeOK, Kill, Then, Labels
  <1>2. next' # "sync"
    BY DEF IInv, Kill, Then
  <1>3. JournalInv'
    BY DEF IInv, Kill, Then, JournalInv, Where
  <1>4. PromoteInv'
    BY DEF Kill, Then, PromoteInv, Where
  <1>5. RollbackInv'
    BY DEF Kill, Then, RollbackInv, Where
  <1>6. TornInv'
    BY DEF IInv, Kill, Then, TornInv, Where
  <1> QED  BY <1>1, <1>2, <1>3, <1>4, <1>5, <1>6 DEF ScriptInv

\* The kernel's own write-back may do what a sync does.
LEMMA WriteBackKeeps ==
    ASSUME IInv, WriteBack
    PROVE  ScriptInv'
  <1>1. TypeOK'
    BY DEF IInv, TypeOK, WriteBack, Flushed, Disks
  <1>2. next' # "sync"
    BY DEF IInv, WriteBack
  <1>3. JournalInv'
    BY DEF IInv, WriteBack, Flushed, NoLeftovers, JournalInv, Where
  <1>4. PromoteInv'
    BY DEF IInv, WriteBack, PromoteInv, Where
  <1>5. RollbackInv'
    BY DEF IInv, WriteBack, Restored, RollbackInv, Where
  <1>6. TornInv'
    BY DEF IInv, WriteBack, Flushed, SyncedFirst, TornInv, Where
  <1> QED  BY <1>1, <1>2, <1>3, <1>4, <1>5, <1>6 DEF ScriptInv

\* After a power loss the directory is the flushed copy.
LEMMA PowerLossKeeps ==
    ASSUME IInv, PowerLoss
    PROVE  ScriptInv'
  <1>1. TypeOK'
    BY VersionRange
       DEF IInv, TypeOK, PowerLoss, SyncThen, Then, Flushed, Disks, Labels,
           Promoting, Contents, NoBackup, NoJournal
  <1>2. next' # "sync"
    BY DEF IInv, PowerLoss, Then
  <1>3. JournalInv'
    BY DEF IInv, PowerLoss, Then, JournalInv, Where
  <1>4. PromoteInv'
    BY DEF PowerLoss, Then, PromoteInv, Where
  <1>5. RollbackInv'
    BY DEF PowerLoss, Then, RollbackInv, Where
  <1>6. TornInv'
    BY DEF IInv, PowerLoss, Then, TornInv, Where
  <1> QED  BY <1>1, <1>2, <1>3, <1>4, <1>5, <1>6 DEF ScriptInv

--------------------------------------------------------------------------------
\* What the recovery of a directory arrives at, path by path.
LEMMA RecoveredAt ==
    ASSUME NEW d \in Disks, NEW f \in Files
    PROVE  Recovered(d)[f] = IF d.kind = "prepared" /\ d.ready /\ f \in d.names
                             THEN RolledBack(d, f) ELSE d.final[f]
  BY DEF Recovered

\* Contents are numbers.
LEMMA ContentsNat == Contents \subseteq Nat
  BY VersionRange DEF Contents, Absent

\* Versions are counted, and an absent file is version 0.
LEMMA RecoveredNat ==
    ASSUME NEW d \in Disks, NEW f \in Files
    PROVE  Recovered(d)[f] \in Nat
  <1>1. d.final[f] \in Contents /\ d.backup[f] \in Contents /\ Absent \in Contents
    BY DEF Disks, Contents
  <1>2. Recovered(d)[f] \in Contents
    BY <1>1, RecoveredAt DEF RolledBack
  <1> QED  BY <1>2, ContentsNat

\* It does not depend on whether the state record's bytes are there.
LEMMA TornRecovered ==
    ASSUME NEW d \in Disks, NEW t \in BOOLEAN
    PROVE  Recovered([d EXCEPT !.torn = t]) = Recovered(d)
  BY DEF Recovered, RolledBack

\* A directory with no prepared, ready journal is what recovery leaves it as.
LEMMA SettledRecovered ==
    ASSUME NEW d \in Disks, ~(d.kind = "prepared" /\ d.ready)
    PROVE  Recovered(d) = d.final
  BY DEF Recovered, Disks

\* Two directories with the same prepared journal, and with each path either
\* the same or rolled back to the same, are recovered alike.
LEMMA SameRecovered ==
    ASSUME NEW d \in Disks, NEW e \in Disks,
           d.kind = e.kind, d.ready = e.ready, d.names = e.names,
           \A f \in Files : \/ d.final[f] = e.final[f] /\ RolledBack(d, f) = RolledBack(e, f)
                            \/ /\ d.kind = "prepared" /\ d.ready /\ f \in d.names
                               /\ RolledBack(d, f) = RolledBack(e, f)
    PROVE  Recovered(d) = Recovered(e)
  BY DEF Recovered

\* Writing, removing and completing a journal, and moving files either way
\* under one, change nothing of what recovery arrives at.
LEMMA JournalStepsRecoverAlike ==
    ASSUME IInv,
           RemoveJournal \/ MarkRolledBack \/ Prepare \/ Record \/ MarkReady \/ Cleanup
    PROVE  Recovered(disk)' = Recovered(disk)
  <1> USE DEF IInv, TypeOK
  <1>1. disk' \in Disks
    BY RemoveJournalKeeps, MarkRolledBackKeeps, PrepareKeeps, RecordKeeps,
       MarkReadyKeeps, CleanupKeeps DEF ScriptInv
  <1>2. CASE RemoveJournal
    BY <1>1, <1>2, SettledRecovered DEF RemoveJournal, NoJournal
  <1>3. CASE Cleanup
    BY <1>1, <1>3, SettledRecovered DEF Cleanup, NoJournal, PromoteInv, Where
  <1>4. CASE Prepare
    BY <1>1, <1>4, SettledRecovered
       DEF Prepare, JournalInv, NoLeftovers, Where, Disks
  <1>5. CASE Record
    BY <1>5, SettledRecovered DEF Record, JournalInv, Where, Disks
  <1>6. CASE MarkReady
    <2>1. /\ disk' = [disk EXCEPT !.ready = TRUE] /\ ~disk.ready
          /\ disk.kind = "prepared" /\ disk.names = names /\ disk.backup = NoBackup
          /\ disk.present = {f \in names : disk.final[f] # Absent}
      BY <1>6 DEF MarkReady, JournalInv, Where
    <2>2. \A f \in Files : f \in disk'.names => RolledBack(disk', f) = disk'.final[f]
      BY <2>1 DEF RolledBack, NoBackup
    <2>3. Recovered(disk') = disk'.final
      BY <1>1, <2>2 DEF Recovered, Disks
    <2> QED  BY <2>1, <2>3, SettledRecovered
  <1>7. CASE MarkRolledBack
    <2>1. /\ disk' = [disk EXCEPT !.kind = "rolled-back"]
          /\ disk.kind = "prepared" /\ disk.ready
          /\ \A f \in disk.names : Restored(f)
      BY <1>7 DEF MarkRolledBack, RollbackInv, Where
    <2>2. \A f \in disk.names : RolledBack(disk, f) = disk.final[f]
      BY <2>1 DEF Restored, RolledBack
    <2>3. Recovered(disk) = disk.final
      BY <2>2 DEF Recovered, Disks
    <2>4. ~(disk'.kind = "prepared") /\ disk'.final = disk.final
      BY <2>1
    <2> QED  BY <1>1, <2>3, <2>4, SettledRecovered
  <1> QED  BY <1>2, <1>3, <1>4, <1>5, <1>6, <1>7

\* Each move of one file, forwards or backwards, leaves its backup to be found.
LEMMA MovesRecoverAlike ==
    ASSUME IInv, NEW f \in Files, RollbackFile(f) \/ Backup(f) \/ Promote(f)
    PROVE  Recovered(disk)' = Recovered(disk)
  <1> USE DEF IInv, TypeOK
  <1>1. disk' \in Disks
    BY RollbackFileKeeps, BackupKeeps, PromoteKeeps DEF ScriptInv
  <1>2. disk.kind = "prepared" /\ disk.ready /\ f \in disk.names
    BY DEF RollbackFile, Backup, Promote, RollbackInv, PromoteInv, Where
  <1>3. /\ disk'.kind = disk.kind /\ disk'.ready = disk.ready
        /\ disk'.names = disk.names /\ disk'.present = disk.present
        /\ \A g \in Files \ {f} : /\ disk'.final[g] = disk.final[g]
                                  /\ disk'.backup[g] = disk.backup[g]
    <2>1. CASE disk' = disk
      BY <2>1
    <2>2. CASE \E c, b \in Contents : disk' = [disk EXCEPT !.final[f] = c, !.backup[f] = b]
      BY <2>2
    <2>3. CASE \E c \in Contents : disk' = [disk EXCEPT !.final[f] = c]
      BY <2>3
    <2>4. /\ Absent \in Contents /\ version \in Contents
          /\ disk.final[f] \in Contents /\ disk.backup[f] \in Contents
      BY DEF Disks, Contents
    <2>5. CASE RollbackFile(f)
      BY <2>1, <2>2, <2>3, <2>4, <2>5 DEF RollbackFile
    <2>6. CASE Backup(f)
      <3>1. CASE disk.final[f] # Absent
        BY <2>6 DEF Backup
      <3> QED  BY <2>6 DEF Backup
    <2>7. CASE Promote(f)
      BY <2>7 DEF Promote
    <2> QED  BY <2>5, <2>6, <2>7
  <1>4. RolledBack(disk', f) = RolledBack(disk, f)
    <2>1. CASE RollbackFile(f)
      <3>1. CASE /\ f \in disk.present /\ disk.backup[f] # Absent
                 /\ disk' = [disk EXCEPT !.final[f] = Absent]
        BY <3>1 DEF RolledBack
      <3>2. CASE /\ f \in disk.present /\ disk.backup[f] # Absent
                 /\ disk' = [disk EXCEPT !.final[f] = disk.backup[f], !.backup[f] = Absent]
        BY <3>2 DEF RolledBack, Disks
      <3>3. CASE disk' = disk
        BY <3>3
      <3>4. CASE f \notin disk.present
        BY <1>3, <3>4 DEF RolledBack
      <3> QED  BY <2>1, <3>1, <3>2, <3>4 DEF RollbackFile
    <2>2. CASE Backup(f)
      BY <2>2 DEF Backup, RolledBack, PromoteInv, Where, Disks
    <2>3. CASE Promote(f)
      BY <2>3 DEF Promote, RolledBack, PromoteInv
    <2> QED  BY <2>1, <2>2, <2>3
  <1>5. \A g \in Files \ {f} : RolledBack(disk', g) = RolledBack(disk, g)
    BY <1>3 DEF RolledBack
  <1> QED  BY <1>1, <1>2, <1>3, <1>4, <1>5, SameRecovered

\* The rename to .committed installs the manifest, whole.
LEMMA CommitInstalls ==
    ASSUME IInv, Commit
    PROVE  Recovered(disk)' = [f \in Files |-> IF f \in names THEN version
                                               ELSE Recovered(disk)[f]]
  <1> USE DEF IInv, TypeOK
  <1>1. disk' \in Disks
    BY CommitKeeps DEF ScriptInv
  <1>2. /\ disk.kind = "prepared" /\ disk.ready /\ disk.names = names
        /\ \A f \in names : disk.final[f] = version
    BY DEF Commit, PromoteInv, Where
  <1>3. disk'.kind = "committed" /\ disk'.final = disk.final
    BY DEF Commit
  <1>4. Recovered(disk') = disk.final
    BY <1>1, <1>3, SettledRecovered
  <1>5. \A f \in Files : disk.final[f] = IF f \in names THEN version
                                         ELSE Recovered(disk)[f]
    BY <1>2, RecoveredAt
  <1> QED  BY <1>4, <1>5 DEF Disks

\* A flush makes what recovery would arrive at durable.
LEMMA FlushPersists ==
    ASSUME IInv, Sync \/ SyncData \/ WriteBack
    PROVE  Recovered(saved)' = Recovered(disk) /\ disk' = disk
  <1>1. \E t \in BOOLEAN : saved' = [disk EXCEPT !.torn = t]
    BY DEF IInv, TypeOK, Disks, Sync, SyncData, WriteBack, Flushed
  <1> QED  BY <1>1, TornRecovered DEF IInv, TypeOK, Sync, SyncData, WriteBack

\* Every step is the abstract one's, or leaves what recovery arrives at alone.
LEMMA StepMaps ==
    ASSUME IInv, [Next]_vars
    PROVE  \/ /\ Recovered(disk)' = Recovered(disk)
              /\ Recovered(saved)' = Recovered(saved) \/ Recovered(saved)' = Recovered(disk)
              /\ \/ names' = names /\ version' = version
                 \/ /\ names' \subseteq Files /\ version' \in Versions
                    /\ version' = version + 1 /\ saved' = saved /\ pc' # "committed"
           \/ /\ Commit
              /\ Recovered(disk)' = [f \in Files |-> IF f \in names THEN version
                                                     ELSE Recovered(disk)[f]]
              /\ UNCHANGED <<saved, names, version>>
           \/ /\ PowerLoss /\ Recovered(disk)' = Recovered(saved)
              /\ UNCHANGED <<saved, names, version>>
  <1>1. CASE Sync \/ SyncData \/ WriteBack
    BY <1>1, FlushPersists DEF Sync, SyncData, WriteBack
  <1>2. CASE RemoveJournal \/ MarkRolledBack \/ Prepare \/ Record \/ MarkReady \/ Cleanup
    BY <1>2, JournalStepsRecoverAlike
       DEF RemoveJournal, MarkRolledBack, Prepare, Record, MarkReady, Cleanup,
           Then, SyncThen
  <1>3. ASSUME NEW f \in Files, RollbackFile(f) \/ Backup(f) \/ Promote(f)
        PROVE  /\ Recovered(disk)' = Recovered(disk)
               /\ UNCHANGED <<saved, names, version>>
    BY <1>3, MovesRecoverAlike DEF RollbackFile, Backup, Promote, Then, SyncThen
  <1>4. CASE \/ StartRecover \/ StartRollback \/ RollbackDone \/ RecoverDone
             \/ Interrupt \/ Kill \/ UNCHANGED vars
             \/ \E f \in Files : RollbackSkips(f)
    BY <1>4
       DEF StartRecover, StartRollback, RollbackDone, RecoverDone, Interrupt,
           Kill, RollbackSkips, Then, SyncThen, vars
  <1>5. ASSUME NEW manifest \in SUBSET Files, StartPromote(manifest)
        PROVE  /\ UNCHANGED <<disk, saved>> /\ pc' # "committed"
               /\ names' \subseteq Files /\ version' \in Versions /\ version' = version + 1
    BY <1>5, VersionRange DEF StartPromote, SyncThen, IInv, TypeOK
  <1>6. CASE Commit
    BY <1>6, CommitInstalls DEF Commit, SyncThen
  <1>7. CASE PowerLoss
    BY <1>7 DEF PowerLoss, Then
  <1> QED  BY <1>1, <1>2, <1>3, <1>4, <1>5, <1>6, <1>7 DEF Next, Script

\* Acknowledged paths: only the last command of a promotion adds any, and the
\* commit it reports is on the medium by then.
LEMMA AckKeeps ==
    ASSUME IInv, [Next]_vars, TypeOK'
    PROVE  AckInv'
  <1>1. version' >= version /\ version \in Nat /\ version' \in Nat
    BY StepMaps, VersionRange DEF IInv, TypeOK
  <1>2. \A f \in Files : /\ acked[f] \in Nat
                         /\ Recovered(disk)[f] \in Nat /\ Recovered(saved)[f] \in Nat
    BY RecoveredNat, ContentsNat DEF IInv, TypeOK
  <1>3. \A f \in Files : /\ acked[f] <= version
                         /\ Recovered(disk)[f] >= acked[f]
                         /\ Recovered(saved)[f] >= acked[f]
    BY DEF IInv, AckInv, AckedSurvives
  <1>4. \A f \in Files : /\ Recovered(disk)'[f] >= acked[f]
                         /\ Recovered(saved)'[f] >= acked[f]
    BY <1>3, StepMaps
  <1>5. CASE Cleanup
    <2>1. /\ pc = "committed" /\ pc' = "sync" /\ acked' = Acknowledged
          /\ names' = names /\ version' = version
      BY <1>5 DEF Cleanup, SyncThen
    <2>2. \A f \in names : Recovered(disk)[f] = version /\ Recovered(saved)[f] = version
      <3>1. \A f \in names : Recovered(disk)[f] = disk.final[f] /\ disk.final[f] = version
        BY <2>1, RecoveredAt DEF IInv, TypeOK, PromoteInv, Where
      <3>2. \A f \in names : Recovered(saved)[f] = version
        BY <2>1 DEF IInv, AckInv
      <3> QED  BY <3>1, <3>2
    <2>3. \A f \in names : Recovered(disk)'[f] = version /\ Recovered(saved)'[f] = version
      <3>1. Recovered(disk)' = Recovered(disk) /\ saved' = saved
        BY <1>5, JournalStepsRecoverAlike DEF Cleanup, SyncThen
      <3> QED  BY <2>2, <3>1
    <2>4. \A f \in Files : acked'[f] = IF f \in names THEN version ELSE acked[f]
      BY <2>1 DEF Acknowledged
    <2>5. \A f \in Files : /\ acked'[f] <= version'
                           /\ Recovered(disk)'[f] >= acked'[f]
                           /\ Recovered(saved)'[f] >= acked'[f]
      BY <1>1, <1>3, <1>4, <2>1, <2>3, <2>4
    <2> QED  BY <2>1, <2>5 DEF AckInv, AckedSurvives
  <1>6. CASE ~Cleanup
    <2>1. acked' = acked
      BY <1>6
         DEF Next, Script, Sync, StartRecover, RemoveJournal, StartRollback,
             RollbackFile, RollbackSkips, RollbackDone, MarkRolledBack,
             RecoverDone, StartPromote, Prepare, Record, SyncData, MarkReady,
             Backup, Promote, Commit, Interrupt, Kill, WriteBack, PowerLoss,
             vars
    <2>2. \A f \in Files : acked[f] <= version'
      BY <1>1, <1>2, <1>3
    <2>3. ASSUME pc' = "committed"
          PROVE  \A f \in names' : Recovered(saved)'[f] = version'
      <3>1. CASE Sync
        <4>1. Where = "committed" /\ names' = names /\ version' = version
          BY <2>3, <3>1 DEF Sync, Where
        <4>2. \A f \in names : Recovered(disk)[f] = version
          BY <4>1, RecoveredAt DEF IInv, TypeOK, PromoteInv
        <4> QED  BY <3>1, <4>1, <4>2, FlushPersists
      <3>2. CASE ~Sync
        <4>1. /\ pc = "committed" /\ names' = names /\ version' = version
              /\ saved' = saved \/ WriteBack
          BY <1>6, <2>3, <3>2
             DEF Next, Script, StartRecover, RemoveJournal, StartRollback,
                 RollbackFile, RollbackSkips, RollbackDone, MarkRolledBack,
                 RecoverDone, StartPromote, Prepare, Record, SyncData,
                 MarkReady, Backup, Promote, Commit, Interrupt, Kill, WriteBack,
                 PowerLoss, Then, SyncThen, vars
        <4>2. \A f \in names : Recovered(disk)[f] = version
          BY <4>1, RecoveredAt DEF IInv, TypeOK, PromoteInv, Where
        <4>3. \A f \in names : Recovered(saved)[f] = version
          BY <4>1 DEF IInv, AckInv
        <4> QED  BY <4>1, <4>2, <4>3, FlushPersists
      <3> QED  BY <3>1, <3>2
    <2> QED  BY SMTT(30), <1>4, <2>1, <2>2, <2>3 DEF AckInv, AckedSurvives
  <1> QED  BY <1>5, <1>6

\* Every step, of the script or of the world around it, keeps the invariant.
LEMMA NextKeeps ==
    ASSUME IInv, [Next]_vars
    PROVE  IInv'
  <1>1. ScriptInv'
    <2>1. CASE Script
      BY <2>1, SyncKeeps, StartRecoverKeeps, RemoveJournalKeeps,
         StartRollbackKeeps, RollbackFileKeeps, RollbackSkipsKeeps,
         RollbackDoneKeeps, MarkRolledBackKeeps, RecoverDoneKeeps,
         StartPromoteKeeps, PrepareKeeps, RecordKeeps, SyncDataKeeps,
         MarkReadyKeeps, BackupKeeps, PromoteKeeps, CommitKeeps, CleanupKeeps
         DEF Script
    <2>2. CASE Interrupt \/ Kill \/ WriteBack \/ PowerLoss
      BY <2>2, InterruptKeeps, KillKeeps, WriteBackKeeps, PowerLossKeeps
    <2>3. CASE UNCHANGED vars
      BY <2>3
         DEF vars, IInv, ScriptInv, TypeOK, JournalInv, PromoteInv, RollbackInv,
             TornInv, Restored, Where
    <2> QED  BY <2>1, <2>2, <2>3 DEF Next
  <1>2. AckInv'
    BY <1>1, AckKeeps DEF ScriptInv
  <1> QED  BY <1>1, <1>2 DEF IInv, ScriptInv

\* A directory at rest, with no journal and nothing acknowledged.
LEMMA InitIInv == Init => IInv
  <1> SUFFICES ASSUME Init PROVE IInv
    OBVIOUS
  <1>1. PICK final \in [Files -> {Absent, 1}] : disk = NoJournal(final) /\ saved = disk
    BY DEF Init
  <1>2. disk \in Disks /\ disk.kind = "none" /\ ~disk.ready /\ ~disk.torn
        /\ disk.backup = NoBackup
    BY <1>1, VersionRange DEF NoJournal, NoBackup, Disks, Contents
  <1>3. TypeOK /\ next # "sync"
    BY <1>2, VersionRange DEF Init, TypeOK, Labels, Contents
  <1>4. JournalInv /\ PromoteInv /\ RollbackInv /\ TornInv
    BY <1>2
       DEF Init, JournalInv, NoLeftovers, PromoteInv, RollbackInv, TornInv,
           SyncedFirst, Where
  <1>5. \A f \in Files : Recovered(disk)[f] \in Nat
    BY <1>2, RecoveredNat
  <1>6. AckInv
    BY <1>5 DEF Init, AckInv, AckedSurvives, Absent
  <1> QED  BY <1>3, <1>4, <1>6 DEF IInv

\* The inductive invariant holds whatever is interrupted, killed or cut off,
\* however often, and whatever is promoted next.
THEOREM InvariantHolds == Spec => []IInv
  BY InitIInv, NextKeeps, PTL DEF Spec

\* The script's variables and the journal's fields keep their types.
THEOREM TypeCorrect == Spec => []TypeOK
  <1>1. IInv => TypeOK
    BY DEF IInv
  <1> QED  BY <1>1, InvariantHolds, PTL

\* The ready marker is never on the medium ahead of the state record, so the
\* validation in rollback_prepared() never strands a directory half moved.
THEOREM ReadyJournalReadable == Spec => []JournalReadable
  <1>1. IInv => JournalReadable
    BY DEF IInv, TornInv, SyncedFirst, JournalReadable
  <1> QED  BY <1>1, InvariantHolds, PTL

\* A promotion that exited 0 is never undone.
THEOREM AcknowledgedSurvives == Spec => []AckedSurvives
  <1>1. IInv => AckedSurvives
    BY DEF IInv, AckInv
  <1> QED  BY <1>1, InvariantHolds, PTL

\* A journal is readable when it claims so, and its recovery takes nothing
\* acknowledged back.
THEOREM JournalStaysSound == Spec => []JournalSound
  <1>1. JournalReadable /\ AckedSurvives => JournalSound
    BY DEF JournalSound
  <1> QED  BY <1>1, ReadyJournalReadable, AcknowledgedSurvives, PTL

\* deploy/transaction.sh implements the atomic installation of a manifest.
THEOREM PromotionIsAtomic == Spec => ImplementsAtomicDeploy
  <1>1. Init => Atomic!Init
    BY VersionRange DEF Init, Atomic!Init, Atomic!Offers
  <1>2. IInv /\ [Next]_vars => [Atomic!Next]_(Atomic!vars)
    <2> SUFFICES ASSUME IInv, [Next]_vars
                 PROVE  [Atomic!Next]_(Atomic!vars)
      OBVIOUS
    <2>1. CASE /\ Recovered(disk)' = Recovered(disk)
               /\ names' = names /\ version' = version
               /\ Recovered(saved)' = Recovered(saved) \/ Recovered(saved)' = Recovered(disk)
      BY <2>1 DEF Atomic!Next, Atomic!Persist, Atomic!vars
    <2>2. CASE /\ Recovered(disk)' = Recovered(disk) /\ saved' = saved
               /\ names' \subseteq Files /\ version' \in Versions /\ version' = version + 1
      <3>1. version \in Nat /\ version' > version
        BY <2>2, VersionRange DEF IInv, TypeOK
      <3> QED  BY <2>2, <3>1 DEF Atomic!Next, Atomic!Offer, Atomic!Offers
    <2>3. CASE /\ Recovered(disk)' = [f \in Files |-> IF f \in names THEN version
                                                      ELSE Recovered(disk)[f]]
               /\ UNCHANGED <<saved, names, version>>
      BY <2>3 DEF Atomic!Next, Atomic!Install
    <2>4. CASE Recovered(disk)' = Recovered(saved) /\ UNCHANGED <<saved, names, version>>
      BY <2>4 DEF Atomic!Next, Atomic!PowerLoss
    <2> QED  BY <2>1, <2>2, <2>3, <2>4, StepMaps
  <1> QED  BY <1>1, <1>2, InvariantHolds, PTL DEF Spec, ImplementsAtomicDeploy, Atomic!Spec
--------------------------------------------------------------------------------
(* The deployer: its states, and what each job has behind it.             *)

\* The values of each variable.
Workers == [run : {"none", "running", "ok", "failed"}, lines : Nat, cancel : BOOLEAN]
Logins == Passwords \cup {"factory"}
Forms == [pi : Passwords, apply : BOOLEAN, login : Logins]
AllFlags == {"none", "rotate", "project", "rebuild", "keep", "replace", "blind", "phrase", "key"}
Requests == [kind : Kinds \cup {"test"} \cup Asks, pi : Passwords, flag : AllFlags, apply : BOOLEAN]
Numbers == [Index -> Nat]
StepNames ==
    {"over", "unstage", "checks", "download", "checksum", "overlay", "wifi_file", "connect",
     "probe", "setup", "boot_id", "reboot", "wait", "emulate", "build", "artifacts", "bootstrap",
     "run", "stage", "upload", "verify", "promote", "install", "banner", "appliance",
     "set_password", "restart", "wifi", "exit"}
AccountNames == {"pi", "root", "login"}
JobStates ==
    [todo : Seq(StepNames), req : Requests, conn : Nat, boot : Nat, saw : SUBSET AccountNames,
     lost : SUBSET AccountNames, account : Nat, left : Int, member : Index, digest : Numbers,
     read : BOOLEAN, shown : BOOLEAN, live : BOOLEAN, hops : Nat, body : {"none", "pinned", "other"}]
Cards == [overlay : {"none", "part", "pinned", "other"}, wifi : {"none", "part", "psk"}]
Engines == [windows : BOOLEAN, arm64 : BOOLEAN]
Scripts == [n : Nat, flag : AllFlags, at : {"add", "associate", "ok"}]
Pis ==
    [boot : Nat, sshd : BOOLEAN, going : BOOLEAN, accounts : SUBSET AccountNames,
     password : Logins, has : SUBSET {"root", "bash", "sudo", "doas", "su"}, staging : BOOLEAN,
     stage : Numbers, release : Numbers, container : {"none", "deferred", "starting", "running"},
     hash : BOOLEAN, log : {"none", "banner", "listening"}, scripts : SUBSET Scripts,
     wifi : SUBSET Nat, saved : SUBSET Nat, works : SUBSET Nat, supported : BOOLEAN]
Histories ==
    [agreed : Kinds \cup Asks \cup {"none"}, said : Nat, auto : BOOLEAN, made : BOOLEAN,
     late : BOOLEAN, cut : BOOLEAN, fell : BOOLEAN, stray : BOOLEAN, blind : BOOLEAN,
     over : BOOLEAN]

\* Only an installation has a second account to try after its reboot.
Typed ==
    /\ worker \in Workers /\ form \in Forms /\ job \in JobStates /\ card \in Cards
    /\ engine \in Engines /\ pi \in Pis /\ hist \in Histories
    /\ log \in Nat /\ started \in Nat /\ quit \in BOOLEAN /\ tree \in Numbers
    /\ job.account = 1 \/ (job.account = 2 /\ job.req.kind = "alpine")

\* Without a job there is nothing of one; and every line a job reported is in the
\* log or with the worker still.
FrontInv ==
    /\ quit => worker.run = "none"
    /\ worker.run = "none" => worker = Free /\ job = Idle
    /\ started = 0 => worker.run = "none"
    /\ worker.run \in {"ok", "failed"} => job.todo = <<>>
    /\ confirm \in Asks \cup {"quit", "none"}
    /\ log + worker.lines = hist.said

\* The steps of a job, numbered from its last; the new password that follows a
\* deployment comes after them.
DeployPlan ==
    {<<"banner", 1>>, <<"appliance", 2>>, <<"wait", 3>>, <<"reboot", 4>>, <<"boot_id", 5>>,
     <<"banner", 6>>, <<"install", 7>>, <<"promote", 8>>, <<"upload", 9>>, <<"verify", 9>>,
     <<"stage", 10>>, <<"run", 11>>, <<"bootstrap", 12>>, <<"probe", 13>>, <<"connect", 14>>,
     <<"artifacts", 15>>}
RebuildPlan == {<<"build", 16>>, <<"emulate", 17>>}
RotatePlan == {<<"set_password", 0 - 1>>, <<"connect", 0>>}
CardPlan ==
    {<<"wifi_file", 1>>, <<"overlay", 2>>, <<"checksum", 3>>, <<"download", 4>>, <<"checks", 5>>}
AlpinePlan ==
    {<<"wait", 1>>, <<"reboot", 2>>, <<"boot_id", 3>>, <<"setup", 4>>, <<"probe", 5>>,
     <<"connect", 6>>}
WifiPlan == {<<"exit", 1>>, <<"wifi", 2>>, <<"connect", 3>>}

\* The kinds of job that have steps of their own.
Known == {"prepare_sd", "alpine", "deploy", "restart", "reboot", "web_password", "wifi", "test"}

\* The step that is the n-th from the last in a job given req.
Fits(req, step, n) ==
    \/ req.kind = "prepare_sd" /\ <<step, n>> \in CardPlan
    \/ req.kind = "alpine" /\ <<step, n>> \in AlpinePlan
    \/ req.kind = "deploy" /\ <<step, n>> \in DeployPlan
    \/ req.kind = "deploy" /\ req.flag = "rebuild" /\ <<step, n>> \in RebuildPlan
    \/ req.kind = "deploy" /\ req.flag = "rotate" /\ <<step, n>> \in RotatePlan
    \/ req.kind = "restart" /\ <<step, n>> \in {<<"restart", 1>>, <<"connect", 2>>}
    \/ req.kind = "reboot" /\ <<step, n>> \in {<<"reboot", 1>>, <<"connect", 2>>}
    \/ req.kind = "web_password" /\ <<step, n>> \in {<<"set_password", 1>>, <<"connect", 2>>}
    \/ req.kind = "wifi" /\ <<step, n>> \in WifiPlan
    \/ req.kind = "test" /\ <<step, n>> \in {<<"probe", 1>>, <<"connect", 2>>}
    \/ req.kind \notin Known /\ <<step, n>> \in {<<"run", 1>>, <<"connect", 2>>}

\* The steps that come after a deployment.
Extra(req) == IF req.kind = "deploy" /\ req.flag = "rotate" THEN 2 ELSE 0

\* The lists of a job that has done its steps, or has failed.
Last == {<<>>, <<"over">>, <<"unstage">>}

\* The number of the step that a list starts with; zero at the end of a job.
Place(req, list) == (IF list \in Last THEN 0 ELSE Len(list)) - Extra(req)
Left == Place(job.req, job.todo)

\* A list of steps is the end of its job's list.
Planned(req, list) ==
    \/ list \in Last
    \/ /\ list # <<>>
       /\ \A i \in 1..Len(list) : Fits(req, list[i], Len(list) - i + 1 - Extra(req))

\* The job goes on, or has succeeded; it is of a kind, and has its step n behind it.
Working == worker.run \in {"running", "ok"} /\ job.todo # <<"unstage">>
On(kind) == Working /\ job.req.kind = kind
Past(kind, n) == On(kind) /\ Left < n

\* Every job does its own steps, in order.
PlanInv ==
    /\ Planned(job.req, job.todo)
    /\ job.req.kind = "deploy" => job.req.flag \in {"none", "rotate", "project", "rebuild"}
    /\ job.req.kind = "wifi" => job.req.flag \in {"keep", "replace", "blind"}
    /\ job.todo = <<"unstage">> => job.req.kind = "deploy" /\ worker.run = "running"

\* The form stays as the job was given it until its result is taken, and the Pi
\* has the new password once the installation has set it.
PageInv ==
    /\ busy /\ front = "page" => job.req.pi = form.pi
    /\ front = "cli" => ~hist.auto
    /\ busy /\ job.req.kind = "alpine" => ~hist.auto /\ job.req.pi \notin Weak
    /\ Past("alpine", 4) => pi.password = job.req.pi
    /\ hist.auto => form.login = pi.password
    /\ pi.password \notin Weak
    /\ busy /\ job.req.kind \in Asks => hist.agreed = job.req.kind

\* The list that is saved next keeps a profile that connects as the file does: a
\* script takes the others from it only once its own has connected.
WifiInv == hist.blind \/ hist.over \/ (pi.saved \cap pi.works # {} /\ pi.wifi \cap pi.works # {})

\* What is on the card once each step is done.
CardInv ==
    /\ card.overlay # "other"
    /\ Past("prepare_sd", 3) => job.body = "pinned"
    /\ Past("prepare_sd", 2) => card.overlay = "pinned"
    /\ Past("prepare_sd", 1) => card.wifi = "psk"

\* What the digests, the stage and the release hold once each step is done.
ContentInv ==
    /\ \A i \in Index : tree[i] >= 1
    /\ Past("deploy", 16) /\ job.req.flag = "rebuild" => tree[Members] > 1
    /\ Past("deploy", 15) => \A i \in Index : job.digest[i] >= 1
    /\ Past("deploy", 15) /\ job.req.flag = "rebuild" => job.digest[Members] > 1
    /\ Past("deploy", 13) => pi.supported
    /\ On("deploy") /\ Left >= 10 => job.member = 1
    /\ On("deploy") /\ Left = 9 => \A i \in Index : i < job.member => pi.stage[i] = job.digest[i]
    /\ On("deploy") /\ Left = 8 => pi.stage = job.digest
    /\ On("deploy") /\ Left = 7 => pi.release = job.digest
    /\ pi.release # Nothing => pi.supported /\ \A i \in Index : pi.release[i] # 0

\* The running job has a stage on the Pi, and its session.
Staged ==
    /\ worker.run = "running" /\ job.req.kind = "deploy" /\ Connected
    /\ job.todo = <<"unstage">> \/ Left \in {8, 9}

\* A stage is there without its job only if the job could not remove it.
StagingInv == pi.staging => hist.cut \/ hist.fell \/ hist.stray \/ quit \/ Staged

\* The job waits for the Pi to come back.
Waiting ==
    (On("deploy") /\ Left = 3) \/ (On("alpine") /\ Left = 1)

\* No session and no boot id is newer than the system; and while a job waits, an
\* account the Pi refused once, and no connection to which was lost on the
\* network, is refused until the new system is up.
BootInv ==
    /\ pi.boot >= 1 /\ job.conn <= pi.boot /\ job.boot <= pi.boot
    /\ ~pi.sshd => pi.going
    /\ Waiting => job.conn = 0
    /\ Waiting => \A a \in job.saw \ job.lost : pi.boot > job.boot \/ ~pi.sshd \/ a \notin pi.accounts

\* Nothing more will be learnt of the password: it was read, or none was made
\* and none will be, or the reading or the wait for the appliance ended badly.
Settled == hist.late \/ job.read \/ (~hist.made /\ pi.hash)

\* The log of the container now there says whether a password was made.
Printed ==
    \/ pi.container = "starting" /\ pi.log = "none" /\ ~hist.made
    \/ pi.container = "running" /\ pi.hash /\ pi.log = IF hist.made THEN "banner" ELSE "listening"

\* The container waits for the reboot, and has made no password.
Deferred == pi.container = "deferred" /\ ~hist.made

\* A container that runs before the reboot is read before it, one that waits for
\* the reboot after it; so a password made is read before its log is gone, and
\* reported at the end.  A container that waits for the reboot is found running
\* only by a session to the new system, although the wait for the reboot may have
\* ended at the old one.
BannerInv ==
    /\ On("deploy") /\ Left >= 5 => job.boot = 0
    /\ On("deploy") /\ Left = 4 => job.boot >= 1 /\ job.conn \in {0, job.boot}
    /\ On("deploy") /\ Left \in {1, 2, 3} => job.boot >= 1
    /\ On("deploy") /\ Left >= 6 => ~job.read
    /\ On("deploy") /\ Left = 6 /\ job.live => (job.conn = pi.boot => Printed)
    /\ On("deploy") /\ Left \in 1..5 /\ job.live => Settled
    /\ On("deploy") /\ Left \in 1..6 /\ ~job.live => ~job.read
    /\ On("deploy") /\ Left \in 4..6 /\ ~job.live => (job.conn = pi.boot => Deferred)
    /\ On("deploy") /\ Left \in 1..3 /\ ~job.live =>
         \/ pi.boot = job.boot /\ pi.going /\ Deferred
         \/ pi.boot > job.boot /\ ~pi.going /\ Printed
    /\ On("deploy") /\ Left = 1 /\ ~job.live => pi.boot > job.boot
    /\ On("deploy") /\ Left <= 0 => Settled /\ (hist.late \/ job.shown = job.read)

DeployerInv ==
    /\ Typed /\ FrontInv /\ PlanInv /\ PageInv /\ WifiInv /\ CardInv
    /\ ContentInv /\ StagingInv /\ BootInv /\ BannerInv

--------------------------------------------------------------------------------
(* Every job keeps to its plan.                                            *)

\* The plans name no end of a job.
LEMMA FitsOrdinary ==
  ASSUME NEW req, NEW s, NEW n, Fits(req, s, n)
  PROVE  s \notin {"over", "unstage"}
BY DEF Fits, CardPlan, AlpinePlan, DeployPlan, RebuildPlan, RotatePlan, WifiPlan

\* The steps after a deployment are two or none.
LEMMA ExtraIsNat == ASSUME NEW req PROVE Extra(req) \in {0, 2}
BY DEF Extra

\* The lists a job ends with are different lists of steps.
LEMMA LastLists ==
  /\ <<>> \in Last /\ <<"over">> \in Last /\ <<"unstage">> \in Last
  /\ <<"over">> # <<>> /\ <<"unstage">> # <<>> /\ <<"over">> # <<"unstage">>
  /\ <<"over">> \in Seq(StepNames) /\ <<"unstage">> \in Seq(StepNames) /\ <<>> \in Seq(StepNames)
<1>1. <<>> \in Last /\ <<"over">> \in Last /\ <<"unstage">> \in Last
  BY DEF Last
<1>2. <<"over">> # <<>> /\ <<"unstage">> # <<>>
  OBVIOUS
<1>3. <<"over">>[1] = "over" /\ <<"unstage">>[1] = "unstage"
  OBVIOUS
<1>4. <<"over">> # <<"unstage">>
  BY <1>3
<1>5. \A s \in StepNames : <<s>> \in Seq(StepNames)
  OBVIOUS
<1>8. "over" \in StepNames /\ "unstage" \in StepNames
  BY DEF StepNames
<1>6. <<"over">> \in Seq(StepNames) /\ <<"unstage">> \in Seq(StepNames)
  BY <1>5, <1>8
<1>7. <<>> \in Seq(StepNames)
  OBVIOUS
<1> QED BY <1>1, <1>2, <1>4, <1>6, <1>7

\* A list of ordinary steps.
LEMMA PlannedOrdinary ==
  ASSUME NEW req, NEW q \in Seq(StepNames), Planned(req, q), q # <<>>, q[1] \notin {"over", "unstage"}
  PROVE  /\ q \notin Last
         /\ \A i \in 1..Len(q) : Fits(req, q[i], Len(q) - i + 1 - Extra(req))
         /\ Len(q) \in Nat /\ Len(q) >= 1 /\ Head(q) = q[1]
         /\ Place(req, q) = Len(q) - Extra(req)
         /\ Fits(req, Head(q), Place(req, q))
<1>1. q \notin Last
  BY DEF Last
<1>2. \A i \in 1..Len(q) : Fits(req, q[i], Len(q) - i + 1 - Extra(req))
  BY <1>1 DEF Planned
<1>3. Len(q) \in Nat /\ Len(q) >= 1 /\ Head(q) = q[1]
  OBVIOUS
<1>4. Place(req, q) = Len(q) - Extra(req)
  BY <1>1 DEF Place
<1>5. Fits(req, q[1], Len(q) - 1 + 1 - Extra(req))
  BY <1>2, <1>3
<1>6. Len(q) - 1 + 1 - Extra(req) = Len(q) - Extra(req)
  BY <1>3, ExtraIsNat
<1> QED BY <1>1, <1>2, <1>3, <1>4, <1>5, <1>6

\* Doing the first step leaves a planned list, one step shorter.
LEMMA PlanTail ==
  ASSUME NEW req, NEW q \in Seq(StepNames), Planned(req, q), q # <<>>, q[1] \notin {"over", "unstage"}
  PROVE  /\ Tail(q) \in Seq(StepNames) /\ Planned(req, Tail(q))
         /\ Place(req, Tail(q)) = Place(req, q) - 1
         /\ Tail(q) # <<"unstage">> /\ q # <<"unstage">>
         /\ Fits(req, Head(q), Place(req, q))
<1> DEFINE t == Tail(q)
<1>1. /\ \A i \in 1..Len(q) : Fits(req, q[i], Len(q) - i + 1 - Extra(req))
      /\ Len(q) \in Nat /\ Len(q) >= 1
      /\ Place(req, q) = Len(q) - Extra(req) /\ Fits(req, Head(q), Place(req, q))
  BY PlannedOrdinary
<1>2. t \in Seq(StepNames) /\ Len(t) = Len(q) - 1 /\ \A i \in 1..Len(t) : t[i] = q[i + 1]
  BY <1>1
<1> HIDE DEF t
<1>3. \A i \in 1..Len(t) : Fits(req, t[i], Len(t) - i + 1 - Extra(req))
  <2> SUFFICES ASSUME NEW i \in 1..Len(t) PROVE Fits(req, t[i], Len(t) - i + 1 - Extra(req))
    OBVIOUS
  <2>1. i + 1 \in 1..Len(q) /\ t[i] = q[i + 1]
    BY <1>1, <1>2
  <2>2. Len(q) - (i + 1) + 1 - Extra(req) = Len(t) - i + 1 - Extra(req)
    BY <1>1, <1>2, ExtraIsNat
  <2>3. Fits(req, q[i + 1], Len(q) - (i + 1) + 1 - Extra(req))
    BY <1>1, <2>1
  <2> QED BY <2>1, <2>2, <2>3
<1>4. CASE t = <<>>
  <2>1. Len(t) = 0
    BY <1>4
  <2>2. Place(req, t) = 0 - Extra(req)
    BY <1>4 DEF Place, Last
  <2>3. Len(q) = 1
    BY <2>1, <1>2, <1>1
  <2>4. Place(req, t) = Place(req, q) - 1
    BY <2>2, <2>3, <1>1, ExtraIsNat
  <2>5. Planned(req, t) /\ t # <<"unstage">>
    BY <1>4, LastLists DEF Planned
  <2>6. q # <<"unstage">>
    OBVIOUS
  <2> QED BY <2>4, <2>5, <2>6, <1>1, <1>2 DEF t
<1>5. CASE t # <<>>
  <2>1. Len(t) \in Nat /\ Len(t) >= 1
    BY <1>5, <1>2
  <2>2. t[1] \notin {"over", "unstage"}
    BY <2>1, <1>3, FitsOrdinary
  <2>3. t \notin Last
    BY <2>2, <1>5 DEF Last
  <2>4. Place(req, t) = Place(req, q) - 1
    BY <2>3, <1>1, <1>2, ExtraIsNat DEF Place
  <2>5. Planned(req, t)
    BY <1>3, <1>5 DEF Planned
  <2>6. t # <<"unstage">>
    BY <2>3 DEF Last
  <2>7. q # <<"unstage">>
    OBVIOUS
  <2> QED BY <2>4, <2>5, <2>6, <2>7, <1>1, <1>2 DEF t
<1> QED BY <1>4, <1>5

\* One of upload and verify in the place of the other.
LEMMA PlanSwap ==
  ASSUME NEW req, NEW q \in Seq(StepNames), Planned(req, q), q # <<>>, q[1] \in {"upload", "verify"},
         NEW s \in {"upload", "verify"}
  PROVE  /\ <<s>> \o Tail(q) \in Seq(StepNames) /\ Planned(req, <<s>> \o Tail(q))
         /\ Place(req, <<s>> \o Tail(q)) = Place(req, q)
         /\ <<s>> \o Tail(q) # <<"unstage">> /\ q # <<"unstage">>
         /\ Fits(req, Head(q), Place(req, q))
<1> DEFINE t == <<s>> \o Tail(q)
<1>1. /\ \A i \in 1..Len(q) : Fits(req, q[i], Len(q) - i + 1 - Extra(req))
      /\ Len(q) \in Nat /\ Len(q) >= 1 /\ Head(q) = q[1]
      /\ Place(req, q) = Len(q) - Extra(req) /\ Fits(req, Head(q), Place(req, q))
  BY PlannedOrdinary
<1>2. t \in Seq(StepNames) /\ Len(t) = Len(q) /\ t[1] = s /\ \A i \in 2..Len(t) : t[i] = q[i]
  <2>1. Tail(q) \in Seq(StepNames) /\ Len(Tail(q)) = Len(q) - 1 /\ \A i \in 1..Len(Tail(q)) : Tail(q)[i] = q[i + 1]
    BY <1>1
  <2>s. s \in StepNames
    BY DEF StepNames
  <2>2. <<s>> \in Seq(StepNames) /\ Len(<<s>>) = 1 /\ <<s>>[1] = s
    BY <2>s
  <2>3. t \in Seq(StepNames) /\ Len(t) = Len(q)
    BY <2>1, <2>2, <1>1
  <2>4. t[1] = s
    BY <2>1, <2>2, <1>1
  <2>5. ASSUME NEW i \in 2..Len(t) PROVE t[i] = q[i]
    <3>1. t[i] = Tail(q)[i - 1]
      BY <2>1, <2>2, <2>3, <1>1
    <3>2. i - 1 \in 1..Len(Tail(q)) /\ (i - 1) + 1 = i
      BY <2>1, <2>3, <1>1
    <3> QED BY <3>1, <3>2, <2>1
  <2> QED BY <2>3, <2>4, <2>5
<1> HIDE DEF t
<1>3. Fits(req, s, Place(req, q))
  BY <1>1
     DEF Fits, CardPlan, AlpinePlan, DeployPlan, RebuildPlan, RotatePlan, WifiPlan
<1>4. \A i \in 1..Len(t) : Fits(req, t[i], Len(t) - i + 1 - Extra(req))
  <2> SUFFICES ASSUME NEW i \in 1..Len(t) PROVE Fits(req, t[i], Len(t) - i + 1 - Extra(req))
    OBVIOUS
  <2>1. CASE i = 1
    <3>1. Len(t) - i + 1 - Extra(req) = Place(req, q)
      BY <2>1, <1>1, <1>2, ExtraIsNat
    <3> QED BY <3>1, <2>1, <1>2, <1>3
  <2>2. CASE i # 1
    <3>1. i \in 2..Len(t) /\ i \in 1..Len(q)
      BY <2>2, <1>2, <1>1
    <3> QED BY <3>1, <1>1, <1>2
  <2> QED BY <2>1, <2>2
<1>5. t \notin Last /\ t # <<>>
  BY <1>1, <1>2 DEF Last
<1>6. Place(req, t) = Place(req, q) /\ Planned(req, t)
  BY <1>1, <1>2, <1>4, <1>5 DEF Place, Planned
<1>7. t # <<"unstage">> /\ q # <<"unstage">>
  BY <1>5 DEF Last
<1> QED BY <1>1, <1>2, <1>6, <1>7 DEF t

\* A part of a job's list that m further steps follow.
FitsAll(req, q, m) == \A i \in 1..Len(q) : Fits(req, q[i], m + Len(q) - i + 1)

\* Two parts of a plan, one behind the other.
LEMMA FitsConcat ==
  ASSUME NEW req, NEW x \in Seq(StepNames), NEW y \in Seq(StepNames), NEW m \in Int,
         NEW k \in Int, k = m + Len(y), FitsAll(req, x, k), FitsAll(req, y, m)
  PROVE  x \o y \in Seq(StepNames) /\ Len(x \o y) = Len(x) + Len(y) /\ FitsAll(req, x \o y, m)
<1> DEFINE t == x \o y
<1>1. Len(x) \in Nat /\ Len(y) \in Nat
  OBVIOUS
<1>2. /\ t \in Seq(StepNames) /\ Len(t) = Len(x) + Len(y)
      /\ \A i \in 1..Len(t) : t[i] = IF i <= Len(x) THEN x[i] ELSE y[i - Len(x)]
  OBVIOUS
<1> HIDE DEF t
<1>3. ASSUME NEW i \in 1..Len(t) PROVE Fits(req, t[i], m + Len(t) - i + 1)
  <2>1. CASE i <= Len(x)
    <3>1. i \in 1..Len(x) /\ t[i] = x[i]
      BY <1>1, <1>2, <2>1
    <3>2. Fits(req, x[i], k + Len(x) - i + 1)
      BY <3>1 DEF FitsAll
    <3>3. k + Len(x) - i + 1 = m + Len(t) - i + 1
      BY <1>1, <1>2
    <3> QED BY <3>1, <3>2, <3>3
  <2>2. CASE ~(i <= Len(x))
    <3>1. i - Len(x) \in 1..Len(y) /\ t[i] = y[i - Len(x)]
      BY <1>1, <1>2, <2>2
    <3>2. Fits(req, y[i - Len(x)], m + Len(y) - (i - Len(x)) + 1)
      BY <3>1 DEF FitsAll
    <3>3. m + Len(y) - (i - Len(x)) + 1 = m + Len(t) - i + 1
      BY <1>1, <1>2
    <3> QED BY <3>1, <3>2, <3>3
  <2> QED BY <2>1, <2>2
<1> QED BY <1>2, <1>3 DEF FitsAll, t

\* The list a job starts with, and how long it is at least.
Begun(req, q) ==
    /\ q \in Seq(StepNames) /\ Planned(req, q) /\ q \notin Last
    /\ req.kind = "deploy" => Place(req, q) >= 15
    /\ req.kind = "deploy" /\ req.flag = "rebuild" => Place(req, q) >= 16
    /\ req.kind = "alpine" => Place(req, q) >= 6
    /\ req.kind = "prepare_sd" => Place(req, q) >= 5

\* A list that fits its plan from the first step on is where a job begins.
LEMMA FitsBegun ==
  ASSUME NEW req, NEW q \in Seq(StepNames), FitsAll(req, q, 0 - Extra(req)), Len(q) >= 1,
         req.kind = "deploy" => Len(q) - Extra(req) >= 15,
         req.kind = "deploy" /\ req.flag = "rebuild" => Len(q) - Extra(req) >= 16,
         req.kind = "alpine" => Len(q) >= 6,
         req.kind = "prepare_sd" => Len(q) >= 5
  PROVE  Begun(req, q)
<1>1. Len(q) \in Nat
  OBVIOUS
<1>2. ASSUME NEW i \in 1..Len(q) PROVE Fits(req, q[i], Len(q) - i + 1 - Extra(req))
  <2>1. Fits(req, q[i], (0 - Extra(req)) + Len(q) - i + 1)
    BY DEF FitsAll
  <2>2. (0 - Extra(req)) + Len(q) - i + 1 = Len(q) - i + 1 - Extra(req)
    BY <1>1, ExtraIsNat
  <2> QED BY <2>1, <2>2
<1>3. q # <<>>
  OBVIOUS
<1>4. Planned(req, q)
  BY <1>2, <1>3 DEF Planned
<1>5. q[1] \notin {"over", "unstage"}
  BY <1>1, <1>2, FitsOrdinary
<1>6. q \notin Last
  BY <1>3, <1>5 DEF Last
<1>7. Place(req, q) = Len(q) - Extra(req)
  BY <1>6 DEF Place
<1>8. req.kind # "deploy" => Place(req, q) = Len(q)
  BY <1>7, <1>1 DEF Extra
<1> QED BY <1>4, <1>6, <1>7, <1>8 DEF Begun

\* Lists of one and of two steps.
LEMMA Lists ==
  /\ \A a \in StepNames : <<a>> \in Seq(StepNames) /\ Len(<<a>>) = 1 /\ <<a>>[1] = a
  /\ \A a, b \in StepNames : <<a, b>> \in Seq(StepNames) /\ Len(<<a, b>>) = 2 /\ <<a, b>>[1] = a /\ <<a, b>>[2] = b
OBVIOUS

\* The list of each kind of job fits its plan: deployments, with their optional ends,
LEMMA DeployBegun ==
  ASSUME NEW req, req.kind = "deploy", req.flag \in {"none", "rotate", "project", "rebuild"}
  PROVE  Begun(req, Steps(req))
<1> DEFINE B == BuildSteps(req)
           T == <<"artifacts", "connect", "probe", "bootstrap", "run", "stage", "upload", "promote",
                  "install", "banner", "boot_id", "reboot", "wait", "appliance", "banner">>
           R == IF req.flag = "rotate" THEN <<"connect", "set_password">> ELSE <<>>
<1>1. Steps(req) = (B \o T) \o R
  BY DEF Steps, DeploySteps
<1>2. /\ B \in Seq(StepNames) /\ FitsAll(req, B, 15) /\ Len(B) \in Nat
      /\ req.flag = "rebuild" => Len(B) >= 1
  <2>1. CASE req.flag # "rebuild"
    BY <2>1 DEF BuildSteps, FitsAll
  <2>2. CASE req.flag = "rebuild" /\ engine.windows
    <3>1. B = <<"emulate", "build">>
      BY <2>2 DEF BuildSteps
    <3>2. B \in Seq(StepNames) /\ Len(B) = 2 /\ B[1] = "emulate" /\ B[2] = "build"
      BY <3>1, Lists DEF StepNames
    <3> HIDE DEF B
    <3>3. Fits(req, "emulate", 17) /\ Fits(req, "build", 16)
      BY <2>2 DEF Fits, RebuildPlan
    <3> QED BY <3>2, <3>3 DEF FitsAll
  <2>3. CASE req.flag = "rebuild" /\ ~engine.windows
    <3>1. B = <<"build">>
      BY <2>3 DEF BuildSteps
    <3>2. B \in Seq(StepNames) /\ Len(B) = 1 /\ B[1] = "build"
      BY <3>1, Lists DEF StepNames
    <3> HIDE DEF B
    <3>3. Fits(req, "build", 16)
      BY <2>3 DEF Fits, RebuildPlan
    <3> QED BY <3>2, <3>3 DEF FitsAll
  <2> QED BY <2>1, <2>2, <2>3
<1>3. T \in Seq(StepNames) /\ FitsAll(req, T, 0) /\ Len(T) = 15
  <2>1. Len(T) = 15
    OBVIOUS
  <2>2. T \in Seq(StepNames)
    BY DEF StepNames
  <2>3. ASSUME NEW i \in 1..15 PROVE <<T[i], 0 + 15 - i + 1>> \in DeployPlan
    BY DEF DeployPlan
  <2>4. \A i \in 1..15 : Fits(req, T[i], 0 + 15 - i + 1)
    BY <2>3 DEF Fits
  <2> QED BY <2>1, <2>2, <2>4 DEF FitsAll
<1>4. R \in Seq(StepNames) /\ FitsAll(req, R, 0 - Extra(req)) /\ Len(R) = Extra(req)
  <2>1. CASE req.flag # "rotate"
    BY <2>1 DEF Extra, FitsAll
  <2>2. CASE req.flag = "rotate"
    <3>1. R = <<"connect", "set_password">>
      BY <2>2
    <3>5. "connect" \in StepNames /\ "set_password" \in StepNames
      BY DEF StepNames
    <3>2. R \in Seq(StepNames) /\ Len(R) = 2 /\ R[1] = "connect" /\ R[2] = "set_password"
      BY <3>1, <3>5, Lists
    <3>4. Extra(req) = 2
      BY <2>2 DEF Extra
    <3> HIDE DEF R
    <3>3. Fits(req, "connect", 0) /\ Fits(req, "set_password", 0 - 1)
      BY <2>2 DEF Fits, RotatePlan
    <3> QED BY <3>2, <3>3, <3>4 DEF FitsAll
  <2> QED BY <2>1, <2>2
<1> HIDE DEF B, T, R
<1>5. B \o T \in Seq(StepNames) /\ Len(B \o T) = Len(B) + 15 /\ FitsAll(req, B \o T, 0)
  <2>2. 15 = 0 + Len(T)
    BY <1>3
  <2>3. B \o T \in Seq(StepNames) /\ Len(B \o T) = Len(B) + Len(T) /\ FitsAll(req, B \o T, 0)
    <3>1. 0 \in Int /\ 15 \in Int
      OBVIOUS
    <3> QED BY <3>1, <2>2, <1>2, <1>3, FitsConcat, Zenon
  <2> QED BY <2>3, <1>3
<1>6. /\ (B \o T) \o R \in Seq(StepNames) /\ Len((B \o T) \o R) = Len(B) + 15 + Extra(req)
      /\ FitsAll(req, (B \o T) \o R, 0 - Extra(req))
  <2>1. 0 = (0 - Extra(req)) + Len(R) /\ 0 - Extra(req) \in Int /\ 0 \in Int
    BY <1>4, ExtraIsNat
  <2>2. /\ (B \o T) \o R \in Seq(StepNames) /\ Len((B \o T) \o R) = Len(B \o T) + Len(R)
        /\ FitsAll(req, (B \o T) \o R, 0 - Extra(req))
    BY <2>1, <1>4, <1>5, FitsConcat, Zenon
  <2> QED BY <2>2, <1>4, <1>5
<1>7. Len((B \o T) \o R) - Extra(req) = Len(B) + 15 /\ Len((B \o T) \o R) >= 1
  BY <1>6, <1>2, ExtraIsNat
<1> DEFINE Q == (B \o T) \o R
<1>8. Q \in Seq(StepNames) /\ FitsAll(req, Q, 0 - Extra(req)) /\ Len(Q) >= 1 /\ Len(Q) - Extra(req) = Len(B) + 15
  BY <1>6, <1>7
<1> HIDE DEF Q
<1>9. Begun(req, Q)
  BY <1>8, <1>2, FitsBegun
<1> QED BY <1>1, <1>9 DEF Q

\* the Wi-Fi script, with and without the test,
\* and the others.
LEMMA StepsBegun ==
  ASSUME NEW req, req.kind = "deploy" => req.flag \in {"none", "rotate", "project", "rebuild"}
  PROVE  Begun(req, Steps(req))
<1>1. CASE req.kind = "deploy"
  BY <1>1, DeployBegun
<1>2. CASE req.kind = "wifi"
  <2> DEFINE q == <<"connect", "wifi", "exit">>
  <2>1. Steps(req) = q /\ Extra(req) = 0
    BY <1>2 DEF Steps, WifiSteps, Extra
  <2>2. q \in Seq(StepNames) /\ Len(q) = 3
    BY DEF StepNames
  <2>3. ASSUME NEW i \in 1..3 PROVE Fits(req, q[i], 0 + 3 - i + 1)
    BY <1>2 DEF Fits, WifiPlan
  <2>4. FitsAll(req, q, 0)
    BY <2>2, <2>3 DEF FitsAll
  <2> HIDE DEF q
  <2>5. FitsAll(req, q, 0 - Extra(req)) /\ Len(q) >= 1
    BY <2>1, <2>2, <2>4
  <2>6. Begun(req, q)
    <3>1. req.kind # "deploy" /\ req.kind # "alpine" /\ req.kind # "prepare_sd"
      BY <1>2
    <3> QED BY <3>1, <2>2, <2>5, FitsBegun, Zenon
  <2> QED BY <2>1, <2>6
<1>3. CASE req.kind = "prepare_sd"
  <2> DEFINE q == <<"checks", "download", "checksum", "overlay", "wifi_file">>
  <2>1. Steps(req) = q /\ Extra(req) = 0
    BY <1>3 DEF Steps, CardSteps, Extra
  <2>2. q \in Seq(StepNames) /\ Len(q) = 5
    BY DEF StepNames
  <2>3. ASSUME NEW i \in 1..5 PROVE Fits(req, q[i], 0 + 5 - i + 1)
    BY <1>3 DEF Fits, CardPlan
  <2>4. FitsAll(req, q, 0)
    BY <2>2, <2>3 DEF FitsAll
  <2> HIDE DEF q
  <2>5. FitsAll(req, q, 0 - Extra(req)) /\ Len(q) >= 1
    BY <2>1, <2>2, <2>4
  <2>6. Begun(req, q)
    <3>1. /\ req.kind # "deploy"
          /\ req.kind = "alpine" => Len(q) >= 6
          /\ req.kind = "prepare_sd" => Len(q) >= 5
      BY <1>3, <2>2
    <3> QED BY <3>1, <2>2, <2>5, FitsBegun, Zenon
  <2> QED BY <2>1, <2>6
<1>4. CASE req.kind = "alpine"
  <2> DEFINE q == <<"connect", "probe", "setup", "boot_id", "reboot", "wait">>
  <2>1. Steps(req) = q /\ Extra(req) = 0
    BY <1>4 DEF Steps, AlpineSteps, Extra
  <2>2. q \in Seq(StepNames) /\ Len(q) = 6
    BY DEF StepNames
  <2>3. ASSUME NEW i \in 1..6 PROVE Fits(req, q[i], 0 + 6 - i + 1)
    BY <1>4 DEF Fits, AlpinePlan
  <2>4. FitsAll(req, q, 0)
    BY <2>2, <2>3 DEF FitsAll
  <2> HIDE DEF q
  <2>5. FitsAll(req, q, 0 - Extra(req)) /\ Len(q) >= 1
    BY <2>1, <2>2, <2>4
  <2>6. Begun(req, q)
    <3>1. /\ req.kind # "deploy"
          /\ req.kind = "alpine" => Len(q) >= 6
          /\ req.kind = "prepare_sd" => Len(q) >= 5
      BY <1>4, <2>2
    <3> QED BY <3>1, <2>2, <2>5, FitsBegun, Zenon
  <2> QED BY <2>1, <2>6
<1>5. ASSUME NEW last \in StepNames, Steps(req) = <<"connect", last>>,
             Fits(req, "connect", 2), Fits(req, last, 1),
             req.kind \notin {"deploy", "wifi", "prepare_sd", "alpine"}
      PROVE  Begun(req, Steps(req))
  <2> DEFINE q == <<"connect", last>>
  <2>1. q \in Seq(StepNames) /\ Len(q) = 2 /\ q[1] = "connect" /\ q[2] = last
    BY Lists DEF StepNames
  <2> HIDE DEF q
  <2>2. FitsAll(req, q, 0)
    BY <2>1, <1>5 DEF FitsAll
  <2>3. Extra(req) = 0
    BY <1>5 DEF Extra
  <2>5. FitsAll(req, q, 0 - Extra(req)) /\ Len(q) >= 1
    BY <2>1, <2>2, <2>3
  <2>4. Begun(req, q)
    BY <1>5, <2>1, <2>5, FitsBegun
  <2> QED BY <2>4, <1>5 DEF q
<1>6. CASE req.kind \notin {"deploy", "wifi", "prepare_sd", "alpine"}
  <2>1. CASE req.kind = "restart"
    BY <2>1, <1>5 DEF Steps, Fits, StepNames
  <2>2. CASE req.kind = "reboot"
    BY <2>2, <1>5 DEF Steps, Fits, StepNames
  <2>3. CASE req.kind = "web_password"
    BY <2>3, <1>5 DEF Steps, Fits, StepNames
  <2>4. CASE req.kind = "test"
    BY SMTT(30), <2>4, <1>5 DEF Steps, Fits, StepNames, TestSteps
  <2>5. CASE req.kind \notin Known
    BY <2>5, <1>5 DEF Steps, Fits, StepNames, Known
  <2> QED BY <1>6, <2>1, <2>2, <2>3, <2>4, <2>5 DEF Known
<1> QED BY <1>1, <1>2, <1>3, <1>4, <1>6
\* How a step moves the job: not at all, past one of its steps, to a failure or
\* an end, or to the start of a new one.
Same == job'.req = job.req /\ Left' = Left /\ (Working' <=> Working)
Forward(step) ==
    /\ job'.req = job.req /\ Working /\ Working' /\ worker.run = "running"
    /\ Fits(job.req, step, Left) /\ Left' = Left - 1 /\ Left \in Int
Off == ~Working'
Begins == worker.run = "none" /\ worker'.run = "running" /\ Begun(job'.req, job'.todo)

\* Doing the first step, doing none, going back to an upload, and giving up keep to
\* the plan.
LEMMA ForwardStep ==
  ASSUME Typed, PlanInv, NEW s \in StepNames \ {"over", "unstage"}, At(s),
         job'.todo = Tail(job.todo), job'.req = job.req, worker' = worker
  PROVE  PlanInv' /\ Forward(s)
<1> DEFINE q == job.todo
           r == job.req
<1>1. q \in Seq(StepNames) /\ q # <<>> /\ Head(q) = s /\ worker.run = "running" /\ Planned(r, q)
  BY DEF Typed, JobStates, At, PlanInv
<1>2. q[1] = s
  BY <1>1
<1>3. /\ Tail(q) \in Seq(StepNames) /\ Planned(r, Tail(q))
      /\ Place(r, Tail(q)) = Place(r, q) - 1
      /\ Tail(q) # <<"unstage">> /\ q # <<"unstage">>
      /\ Fits(r, Head(q), Place(r, q))
  BY <1>1, <1>2, PlanTail
<1>4. Place(r, q) \in Int
  BY <1>1, ExtraIsNat DEF Place
<1>5. Left = Place(r, q) /\ Left' = Place(r, Tail(q))
  BY DEF Left
<1>6. PlanInv'
  BY <1>3 DEF PlanInv
<1>7. Working /\ Working'
  BY <1>1, <1>3 DEF Working
<1> QED BY <1>1, <1>3, <1>4, <1>5, <1>6, <1>7 DEF Forward

LEMMA SameStep ==
  ASSUME PlanInv, job'.todo = job.todo, job'.req = job.req, worker'.run = worker.run
  PROVE  PlanInv' /\ Same
BY DEF PlanInv, Same, Left, Working

LEMMA SwapStep ==
  ASSUME Typed, PlanInv, NEW a \in {"upload", "verify"}, NEW b \in {"upload", "verify"}, At(a),
         job'.todo = <<b>> \o Tail(job.todo), job'.req = job.req, worker' = worker
  PROVE  PlanInv' /\ Same /\ On("deploy") /\ Left = 9
<1> DEFINE q == job.todo
           r == job.req
           t == <<b>> \o Tail(q)
<1>1. q \in Seq(StepNames) /\ q # <<>> /\ Head(q) = a /\ worker.run = "running" /\ Planned(r, q)
  BY DEF Typed, JobStates, At, PlanInv
<1>2. q[1] = a
  BY <1>1
<1>3. /\ t \in Seq(StepNames) /\ Planned(r, t)
      /\ Place(r, t) = Place(r, q)
      /\ t # <<"unstage">> /\ q # <<"unstage">>
      /\ Fits(r, Head(q), Place(r, q))
  BY <1>1, <1>2, PlanSwap
<1>4. r.kind = "deploy" /\ Place(r, q) = 9
  BY <1>1, <1>3
     DEF Fits, CardPlan, AlpinePlan, DeployPlan, RebuildPlan, RotatePlan, WifiPlan
<1>5. Left = Place(r, q) /\ Left' = Place(r, t)
  BY DEF Left
<1>6. PlanInv'
  BY <1>3 DEF PlanInv
<1>7. Working /\ Working'
  BY <1>1, <1>3 DEF Working
<1> QED BY <1>3, <1>4, <1>5, <1>6, <1>7 DEF Same, On

LEMMA EndStep ==
  ASSUME PlanInv, job'.todo = <<>>, job'.req = job.req
  PROVE  PlanInv'
BY LastLists DEF PlanInv, Planned

\* What each action of the model does to the job's place in its plan.
LEMMA CheckCardMoves ==
  ASSUME Typed, PlanInv, CheckCard PROVE PlanInv' /\ Forward("checks")
<1>1. At("checks") /\ job'.todo = Tail(job.todo) /\ job'.req = job.req /\ worker' = worker
  BY DEF CheckCard, Does, Rest, Others, Typed, JobStates
<1>2. "checks" \in StepNames \ {"over", "unstage"}
  BY DEF StepNames
<1> QED BY <1>1, <1>2, ForwardStep, Zenon

LEMMA ChecksumMoves ==
  ASSUME Typed, PlanInv, Checksum PROVE PlanInv' /\ Forward("checksum")
<1>1. At("checksum") /\ job'.todo = Tail(job.todo) /\ job'.req = job.req /\ worker' = worker
  BY DEF Checksum, Does, Rest, Others, Typed, JobStates
<1>2. "checksum" \in StepNames \ {"over", "unstage"}
  BY DEF StepNames
<1> QED BY <1>1, <1>2, ForwardStep, Zenon

LEMMA ConnectMoves ==
  ASSUME Typed, PlanInv, Connect PROVE PlanInv' /\ Forward("connect")
<1>1. At("connect") /\ job'.todo = Tail(job.todo) /\ job'.req = job.req /\ worker' = worker
  BY DEF Connect, Does, Rest, Others, Typed, JobStates
<1>2. "connect" \in StepNames \ {"over", "unstage"}
  BY DEF StepNames
<1> QED BY <1>1, <1>2, ForwardStep, Zenon

LEMMA ProbeMoves ==
  ASSUME Typed, PlanInv, Probe PROVE PlanInv' /\ Forward("probe")
<1>1. At("probe") /\ job'.todo = Tail(job.todo) /\ job'.req = job.req /\ worker' = worker
  BY DEF Probe, Does, Rest, Others, Typed, JobStates
<1>2. "probe" \in StepNames \ {"over", "unstage"}
  BY DEF StepNames
<1> QED BY <1>1, <1>2, ForwardStep, Zenon

LEMMA RunMoves ==
  ASSUME Typed, PlanInv, Run PROVE PlanInv' /\ Forward("run")
<1>1. At("run") /\ job'.todo = Tail(job.todo) /\ job'.req = job.req /\ worker' = worker
  BY DEF Run, Does, Rest, Others, Typed, JobStates
<1>2. "run" \in StepNames \ {"over", "unstage"}
  BY DEF StepNames
<1> QED BY <1>1, <1>2, ForwardStep, Zenon

LEMMA BootstrapMoves ==
  ASSUME Typed, PlanInv, Bootstrap PROVE PlanInv' /\ Forward("bootstrap")
<1>1. At("bootstrap") /\ job'.todo = Tail(job.todo) /\ job'.req = job.req /\ worker' = worker
  BY DEF Bootstrap, Does, Rest, Others, Typed, JobStates
<1>2. "bootstrap" \in StepNames \ {"over", "unstage"}
  BY DEF StepNames
<1> QED BY <1>1, <1>2, ForwardStep, Zenon

LEMMA SetupMoves ==
  ASSUME Typed, PlanInv, Setup PROVE PlanInv' /\ Forward("setup")
<1>1. At("setup") /\ job'.todo = Tail(job.todo) /\ job'.req = job.req /\ worker' = worker
  BY DEF Setup, Does, Rest, Others, Typed, JobStates
<1>2. "setup" \in StepNames \ {"over", "unstage"}
  BY DEF StepNames
<1> QED BY <1>1, <1>2, ForwardStep, Zenon

LEMMA EmulateMoves ==
  ASSUME Typed, PlanInv, Emulate PROVE PlanInv' /\ Forward("emulate")
<1>1. At("emulate") /\ job'.todo = Tail(job.todo) /\ job'.req = job.req /\ worker' = worker
  BY DEF Emulate, Does, Rest, Others, Typed, JobStates
<1>2. "emulate" \in StepNames \ {"over", "unstage"}
  BY DEF StepNames
<1> QED BY <1>1, <1>2, ForwardStep, Zenon

LEMMA BuildMoves ==
  ASSUME Typed, PlanInv, Build PROVE PlanInv' /\ Forward("build")
<1>1. At("build") /\ job'.todo = Tail(job.todo) /\ job'.req = job.req /\ worker' = worker
  BY DEF Build, Does, Rest, Others, Typed, JobStates
<1>2. "build" \in StepNames \ {"over", "unstage"}
  BY DEF StepNames
<1> QED BY <1>1, <1>2, ForwardStep, Zenon

LEMMA ArtifactsMoves ==
  ASSUME Typed, PlanInv, Artifacts PROVE PlanInv' /\ Forward("artifacts")
<1>1. At("artifacts") /\ job'.todo = Tail(job.todo) /\ job'.req = job.req /\ worker' = worker
  BY DEF Artifacts, Does, Rest, Others, Typed, JobStates
<1>2. "artifacts" \in StepNames \ {"over", "unstage"}
  BY DEF StepNames
<1> QED BY <1>1, <1>2, ForwardStep, Zenon

LEMMA StageMoves ==
  ASSUME Typed, PlanInv, Stage PROVE PlanInv' /\ Forward("stage")
<1>1. At("stage") /\ job'.todo = Tail(job.todo) /\ job'.req = job.req /\ worker' = worker
  BY DEF Stage, Does, Rest, Others, Typed, JobStates
<1>2. "stage" \in StepNames \ {"over", "unstage"}
  BY DEF StepNames
<1> QED BY <1>1, <1>2, ForwardStep, Zenon

LEMMA PromoteStageMoves ==
  ASSUME Typed, PlanInv, PromoteStage PROVE PlanInv' /\ Forward("promote")
<1>1. At("promote") /\ job'.todo = Tail(job.todo) /\ job'.req = job.req /\ worker' = worker
  BY DEF PromoteStage, Does, Rest, Others, Typed, JobStates
<1>2. "promote" \in StepNames \ {"over", "unstage"}
  BY DEF StepNames
<1> QED BY <1>1, <1>2, ForwardStep, Zenon

LEMMA InstallMoves ==
  ASSUME Typed, PlanInv, Install PROVE PlanInv' /\ Forward("install")
<1>1. At("install") /\ job'.todo = Tail(job.todo) /\ job'.req = job.req /\ worker' = worker
  BY DEF Install, Does, Rest, Others, Typed, JobStates
<1>2. "install" \in StepNames \ {"over", "unstage"}
  BY DEF StepNames
<1> QED BY <1>1, <1>2, ForwardStep, Zenon

LEMMA SkipBannerMoves ==
  ASSUME Typed, PlanInv, SkipBanner PROVE PlanInv' /\ Forward("banner")
<1>1. At("banner") /\ job'.todo = Tail(job.todo) /\ job'.req = job.req /\ worker' = worker
  BY DEF SkipBanner, Told, Does, Rest, Others, Typed, JobStates
<1>2. "banner" \in StepNames \ {"over", "unstage"}
  BY DEF StepNames
<1> QED BY <1>1, <1>2, ForwardStep, Zenon

LEMMA NoBannerMoves ==
  ASSUME Typed, PlanInv, NoBanner PROVE PlanInv' /\ Forward("banner")
<1>1. At("banner") /\ job'.todo = Tail(job.todo) /\ job'.req = job.req /\ worker' = worker
  BY DEF NoBanner, Told, Does, Rest, Others, Typed, JobStates
<1>2. "banner" \in StepNames \ {"over", "unstage"}
  BY DEF StepNames
<1> QED BY <1>1, <1>2, ForwardStep, Zenon

LEMMA ReadBootIdMoves ==
  ASSUME Typed, PlanInv, ReadBootId PROVE PlanInv' /\ Forward("boot_id")
<1>1. At("boot_id") /\ job'.todo = Tail(job.todo) /\ job'.req = job.req /\ worker' = worker
  BY DEF ReadBootId, Does, Rest, Others, Typed, JobStates
<1>2. "boot_id" \in StepNames \ {"over", "unstage"}
  BY DEF StepNames
<1> QED BY <1>1, <1>2, ForwardStep, Zenon

LEMMA RebootMoves ==
  ASSUME Typed, PlanInv, Reboot PROVE PlanInv' /\ Forward("reboot")
<1>1. At("reboot") /\ job'.todo = Tail(job.todo) /\ job'.req = job.req /\ worker' = worker
  BY DEF Reboot, Does, Rest, Others, Typed, JobStates
<1>2. "reboot" \in StepNames \ {"over", "unstage"}
  BY DEF StepNames
<1> QED BY <1>1, <1>2, ForwardStep, Zenon

LEMMA RestartMoves ==
  ASSUME Typed, PlanInv, Restart PROVE PlanInv' /\ Forward("restart")
<1>1. At("restart") /\ job'.todo = Tail(job.todo) /\ job'.req = job.req /\ worker' = worker
  BY DEF Restart, Does, Rest, Others, Typed, JobStates
<1>2. "restart" \in StepNames \ {"over", "unstage"}
  BY DEF StepNames
<1> QED BY <1>1, <1>2, ForwardStep, Zenon

LEMMA SetPasswordMoves ==
  ASSUME Typed, PlanInv, SetPassword PROVE PlanInv' /\ Forward("set_password")
<1>1. At("set_password") /\ job'.todo = Tail(job.todo) /\ job'.req = job.req /\ worker' = worker
  BY DEF SetPassword, Does, Rest, Others, Typed, JobStates
<1>2. "set_password" \in StepNames \ {"over", "unstage"}
  BY DEF StepNames
<1> QED BY <1>1, <1>2, ForwardStep, Zenon

LEMMA StartScriptMoves ==
  ASSUME Typed, PlanInv, StartScript PROVE PlanInv' /\ Forward("wifi")
<1>1. At("wifi") /\ job'.todo = Tail(job.todo) /\ job'.req = job.req /\ worker' = worker
  BY DEF StartScript, Does, Rest, Others, Typed, JobStates
<1>2. "wifi" \in StepNames \ {"over", "unstage"}
  BY DEF StepNames
<1> QED BY <1>1, <1>2, ForwardStep, Zenon

LEMMA ReadExitMoves ==
  ASSUME Typed, PlanInv, ReadExit PROVE PlanInv' /\ Forward("exit")
<1>1. At("exit") /\ job'.todo = Tail(job.todo) /\ job'.req = job.req /\ worker' = worker
  BY DEF ReadExit, Does, Rest, Others, Typed, JobStates
<1>2. "exit" \in StepNames \ {"over", "unstage"}
  BY DEF StepNames
<1> QED BY <1>1, <1>2, ForwardStep, Zenon

\* Where the steps with a meaning of their own stand.
LEMMA Places ==
  ASSUME NEW req, NEW n
  PROVE  /\ Fits(req, "checksum", n) => req.kind = "prepare_sd" /\ n = 3
         /\ Fits(req, "overlay", n) => req.kind = "prepare_sd" /\ n = 2
         /\ Fits(req, "wifi_file", n) => req.kind = "prepare_sd" /\ n = 1
         /\ Fits(req, "download", n) => req.kind = "prepare_sd" /\ n = 4
         /\ Fits(req, "checks", n) => req.kind = "prepare_sd" /\ n = 5
         /\ Fits(req, "setup", n) => req.kind = "alpine" /\ n = 4
         /\ Fits(req, "wifi", n) => req.kind = "wifi" /\ n = 2
         /\ Fits(req, "exit", n) => req.kind = "wifi" /\ n = 1
BY DEF Fits, CardPlan, AlpinePlan, DeployPlan, RebuildPlan, RotatePlan, WifiPlan

LEMMA DeployPlaces ==
  ASSUME NEW req, NEW n
  PROVE  /\ Fits(req, "emulate", n) => req.kind = "deploy" /\ req.flag = "rebuild" /\ n = 17
         /\ Fits(req, "build", n) => req.kind = "deploy" /\ req.flag = "rebuild" /\ n = 16
         /\ Fits(req, "artifacts", n) => req.kind = "deploy" /\ n = 15
         /\ Fits(req, "bootstrap", n) => req.kind = "deploy" /\ n = 12
         /\ Fits(req, "stage", n) => req.kind = "deploy" /\ n = 10
         /\ Fits(req, "upload", n) => req.kind = "deploy" /\ n = 9
         /\ Fits(req, "verify", n) => req.kind = "deploy" /\ n = 9
         /\ Fits(req, "promote", n) => req.kind = "deploy" /\ n = 8
         /\ Fits(req, "install", n) => req.kind = "deploy" /\ n = 7
         /\ Fits(req, "banner", n) => req.kind = "deploy" /\ n \in {1, 6}
         /\ Fits(req, "appliance", n) => req.kind = "deploy" /\ n = 2
BY DEF Fits, CardPlan, AlpinePlan, DeployPlan, RebuildPlan, RotatePlan, WifiPlan

LEMMA SharedPlaces ==
  ASSUME NEW req, NEW n
  PROVE  /\ Fits(req, "connect", n) =>
              /\ req.kind = "deploy" => n = 14 \/ (n = 0 /\ req.flag = "rotate")
              /\ req.kind = "alpine" => n = 6
              /\ req.kind = "wifi" => n = 3
              /\ req.kind # "prepare_sd"
         /\ Fits(req, "probe", n) =>
              /\ req.kind = "deploy" => n = 13
              /\ req.kind = "alpine" => n = 5
              /\ req.kind \notin {"prepare_sd", "wifi"}
         /\ Fits(req, "run", n) =>
              /\ req.kind = "deploy" => n = 11
              /\ req.kind \notin {"prepare_sd", "wifi", "alpine"}
         /\ Fits(req, "boot_id", n) =>
              (req.kind = "deploy" /\ n = 5) \/ (req.kind = "alpine" /\ n = 3)
         /\ Fits(req, "reboot", n) =>
              \/ (req.kind = "deploy" /\ n = 4) \/ (req.kind = "alpine" /\ n = 2)
              \/ (req.kind = "reboot" /\ n = 1)
         /\ Fits(req, "wait", n) =>
              (req.kind = "deploy" /\ n = 3) \/ (req.kind = "alpine" /\ n = 1)
         /\ Fits(req, "restart", n) => req.kind = "restart"
         /\ Fits(req, "set_password", n) =>
              \/ req.kind = "web_password"
              \/ (req.kind = "deploy" /\ req.flag = "rotate" /\ n = 0 - 1)
BY DEF Fits, CardPlan, AlpinePlan, DeployPlan, RebuildPlan, RotatePlan, WifiPlan, Known

\* The list of a job at one of its ordinary steps.
LEMMA AtPlace ==
  ASSUME Typed, PlanInv, NEW s \in StepNames \ {"over", "unstage"}, At(s)
  PROVE  Fits(job.req, s, Left) /\ Working /\ worker.run = "running" /\ Left \in Int
<1> DEFINE q == job.todo
           r == job.req
<1>1. q \in Seq(StepNames) /\ q # <<>> /\ Head(q) = s /\ worker.run = "running" /\ Planned(r, q)
  BY DEF Typed, JobStates, At, PlanInv
<1>2. q[1] = s
  BY <1>1
<1>3. q # <<"unstage">> /\ Fits(r, Head(q), Place(r, q))
  BY <1>1, <1>2, PlanTail
<1>4. Place(r, q) \in Int
  BY <1>1, ExtraIsNat DEF Place
<1> QED BY <1>1, <1>3, <1>4 DEF Left, Working

\* A job at one of its ends has nothing else to do.
LEMMA SpecialLists ==
  ASSUME Typed, PlanInv, job.todo # <<>>, Head(job.todo) \in {"over", "unstage"}
  PROVE  job.todo = <<Head(job.todo)>> /\ job.todo \in Last
<1> DEFINE q == job.todo
           r == job.req
<1>1. q \in Seq(StepNames) /\ Planned(r, q)
  BY DEF Typed, JobStates, PlanInv
<1>2. q \in Last
  <2> SUFFICES ASSUME q \notin Last PROVE FALSE
    OBVIOUS
  <2>1. Fits(r, q[1], Len(q) - 1 + 1 - Extra(r))
    BY <1>1 DEF Planned
  <2>2. q[1] = Head(q)
    BY <1>1
  <2> QED BY <2>1, <2>2, FitsOrdinary
<1>3. q = <<"over">> \/ q = <<"unstage">>
  BY <1>2 DEF Last
<1> QED BY <1>2, <1>3

LEMMA DownloadMoves ==
  ASSUME Typed, PlanInv, Download PROVE PlanInv' /\ (Forward("download") \/ Same)
<1>1. At("download") /\ worker' = worker /\ job'.req = job.req
  BY DEF Download, Rest, Others, Typed, JobStates
<1>2. "download" \in StepNames \ {"over", "unstage"}
  BY DEF StepNames
<1>3. job'.todo = Tail(job.todo) \/ job'.todo = job.todo
  BY DEF Download, Rest, Typed, JobStates
<1>4. CASE job'.todo = Tail(job.todo)
  BY <1>1, <1>2, <1>4, ForwardStep, Zenon
<1>5. CASE job'.todo = job.todo
  BY <1>1, <1>5, SameStep
<1> QED BY <1>3, <1>4, <1>5

LEMMA ReadBannerMoves ==
  ASSUME Typed, PlanInv, ReadBanner PROVE PlanInv' /\ (Forward("banner") \/ Same)
<1>1. At("banner") /\ worker' = worker /\ job'.req = job.req
  BY DEF ReadBanner, Told, Does, Rest, Typed, JobStates
<1>2. "banner" \in StepNames \ {"over", "unstage"}
  BY DEF StepNames
<1>3. job'.todo = Tail(job.todo) \/ job'.todo = job.todo
  BY DEF ReadBanner, Told, Rest, Typed, JobStates
<1>4. CASE job'.todo = Tail(job.todo)
  BY <1>1, <1>2, <1>4, ForwardStep, Zenon
<1>5. CASE job'.todo = job.todo
  BY <1>1, <1>5, SameStep
<1> QED BY <1>3, <1>4, <1>5

LEMMA TryAccountMoves ==
  ASSUME Typed, PlanInv, TryAccount
  PROVE  /\ PlanInv'
         /\ \/ Forward("wait") /\ job'.todo = Tail(job.todo)
            \/ Same /\ job'.todo = job.todo
<1>1. At("wait") /\ worker' = worker /\ job'.req = job.req
  BY DEF TryAccount, Rest, Others, Typed, JobStates
<1>2. "wait" \in StepNames \ {"over", "unstage"}
  BY DEF StepNames
<1>3. job'.todo = Tail(job.todo) \/ job'.todo = job.todo
  BY DEF TryAccount, Rest, Typed, JobStates
<1>4. CASE job'.todo = Tail(job.todo)
  BY <1>1, <1>2, <1>4, ForwardStep, Zenon
<1>5. CASE job'.todo = job.todo
  BY <1>1, <1>5, SameStep
<1> QED BY <1>3, <1>4, <1>5

LEMMA AwaitApplianceMoves ==
  ASSUME Typed, PlanInv, AwaitAppliance PROVE PlanInv' /\ (Forward("appliance") \/ Same)
<1>1. At("appliance") /\ worker' = worker /\ job'.req = job.req
  BY DEF AwaitAppliance, Does, Rest, Others, Typed, JobStates
<1>2. "appliance" \in StepNames \ {"over", "unstage"}
  BY DEF StepNames
<1>3. job'.todo = Tail(job.todo) \/ job'.todo = job.todo
  BY DEF AwaitAppliance, Rest, Typed, JobStates
<1>4. CASE job'.todo = Tail(job.todo)
  BY <1>1, <1>2, <1>4, ForwardStep, Zenon
<1>5. CASE job'.todo = job.todo
  BY <1>1, <1>5, SameStep
<1> QED BY <1>3, <1>4, <1>5

\* A step that ends the job in a failure.
LEMMA FailStep ==
  ASSUME PlanInv, Typed, job'.todo = <<>>, job'.req = job.req, worker' = [worker EXCEPT !.run = "failed"]
  PROVE  PlanInv' /\ Off
<1>1. worker'.run = "failed"
  BY DEF Typed, Workers
<1> QED BY <1>1, EndStep DEF Off, Working

LEMMA WriteOverlayMoves ==
  ASSUME Typed, PlanInv, WriteOverlay PROVE PlanInv' /\ (Forward("overlay") \/ Off)
<1>1. At("overlay") /\ job'.req = job.req
  BY DEF WriteOverlay, Writes, Rest, Typed, JobStates
<1>2. "overlay" \in StepNames \ {"over", "unstage"}
  BY DEF StepNames
<1>3. \/ job'.todo = Tail(job.todo) /\ worker' = worker
      \/ job'.todo = <<>> /\ worker' = [worker EXCEPT !.run = "failed"]
  BY DEF WriteOverlay, Writes, Rest, Typed, JobStates
<1>4. CASE job'.todo = Tail(job.todo) /\ worker' = worker
  BY <1>1, <1>2, <1>4, ForwardStep, Zenon
<1>5. CASE job'.todo = <<>> /\ worker' = [worker EXCEPT !.run = "failed"]
  BY <1>1, <1>5, FailStep
<1> QED BY <1>3, <1>4, <1>5

LEMMA WriteWifiMoves ==
  ASSUME Typed, PlanInv, WriteWifi PROVE PlanInv' /\ (Forward("wifi_file") \/ Off)
<1>1. At("wifi_file") /\ job'.req = job.req
  BY DEF WriteWifi, Writes, Rest, Typed, JobStates
<1>2. "wifi_file" \in StepNames \ {"over", "unstage"}
  BY DEF StepNames
<1>3. \/ job'.todo = Tail(job.todo) /\ worker' = worker
      \/ job'.todo = <<>> /\ worker' = [worker EXCEPT !.run = "failed"]
  BY DEF WriteWifi, Writes, Rest, Typed, JobStates
<1>4. CASE job'.todo = Tail(job.todo) /\ worker' = worker
  BY <1>1, <1>2, <1>4, ForwardStep, Zenon
<1>5. CASE job'.todo = <<>> /\ worker' = [worker EXCEPT !.run = "failed"]
  BY <1>1, <1>5, FailStep
<1> QED BY <1>3, <1>4, <1>5

LEMMA UploadMoves ==
  ASSUME Typed, PlanInv, Upload PROVE PlanInv' /\ Same /\ On("deploy") /\ Left = 9
<1>1. At("upload") /\ job'.todo = <<"verify">> \o Tail(job.todo) /\ job'.req = job.req /\ worker' = worker
  BY DEF Upload, Does, Rest, Others, Typed, JobStates
<1>2. "upload" \in {"upload", "verify"} /\ "verify" \in {"upload", "verify"}
  OBVIOUS
<1> QED BY <1>1, <1>2, SwapStep, Zenon

LEMMA VerifyMoves ==
  ASSUME Typed, PlanInv, Verify
  PROVE  /\ PlanInv' /\ On("deploy") /\ Left = 9
         /\ \/ Forward("verify") /\ job.member = Members /\ job'.member = job.member
            \/ Same /\ job.member # Members /\ job'.member = job.member + 1
<1>1. At("verify") /\ job'.req = job.req /\ worker' = worker
  BY DEF Verify, Does, Rest, Others, Typed, JobStates
<1>2. /\ "upload" \in {"upload", "verify"} /\ "verify" \in {"upload", "verify"}
      /\ "verify" \in StepNames \ {"over", "unstage"}
  BY DEF StepNames
<1>3. \/ job'.todo = Tail(job.todo) /\ job.member = Members /\ job'.member = job.member
      \/ job'.todo = <<"upload">> \o Tail(job.todo) /\ job.member # Members /\ job'.member = job.member + 1
  BY DEF Verify, Rest, Typed, JobStates
<1>4. CASE job'.todo = Tail(job.todo) /\ job.member = Members /\ job'.member = job.member
  <2>1. PlanInv' /\ Forward("verify")
    BY <1>1, <1>2, <1>4, ForwardStep, Zenon
  <2> QED BY <2>1, <1>4, DeployPlaces DEF Forward, On
<1>5. CASE job'.todo = <<"upload">> \o Tail(job.todo) /\ job.member # Members /\ job'.member = job.member + 1
  <2>1. PlanInv' /\ Same /\ On("deploy") /\ Left = 9
    BY <1>1, <1>2, <1>5, SwapStep, Zenon
  <2> QED BY <2>1, <1>5
<1> QED BY <1>3, <1>4, <1>5

LEMMA NoApplianceMoves ==
  ASSUME Typed, PlanInv, NoAppliance
  PROVE  PlanInv' /\ On("deploy") /\ On("deploy")' /\ Left = 2 /\ Left' = 0 /\ job'.req = job.req
<1> DEFINE q == job.todo
           r == job.req
           t == Tail(q)
<1>1. /\ At("appliance") /\ job'.todo = Tail(t) /\ job'.req = r /\ worker' = worker
      /\ q \in Seq(StepNames) /\ q # <<>> /\ Head(q) = "appliance" /\ Planned(r, q)
      /\ worker.run = "running"
  BY DEF NoAppliance, At, Rest, Typed, JobStates, PlanInv
<1>2. q[1] = "appliance"
  BY <1>1
<1>3. /\ t \in Seq(StepNames) /\ Planned(r, t) /\ Place(r, t) = Place(r, q) - 1
      /\ q # <<"unstage">> /\ Fits(r, "appliance", Place(r, q))
  BY <1>1, <1>2, PlanTail
<1>4. r.kind = "deploy" /\ Place(r, q) = 2
  BY <1>3, DeployPlaces
<1>5. Place(r, t) = 1
  BY <1>3, <1>4
<1> HIDE DEF t
<1>6. t \notin Last
  BY <1>5, ExtraIsNat DEF Place
<1>7. t # <<>> /\ Fits(r, t[1], Len(t) - 1 + 1 - Extra(r))
  BY <1>3, <1>6 DEF Planned
<1>8. t[1] \notin {"over", "unstage"}
  BY <1>7, FitsOrdinary
<1>9. Planned(r, Tail(t)) /\ Place(r, Tail(t)) = Place(r, t) - 1 /\ Tail(t) # <<"unstage">>
  BY <1>3, <1>7, <1>8, PlanTail
<1>10. Left = 2 /\ Left' = 0
  BY <1>1, <1>4, <1>5, <1>9 DEF Left
<1>11. PlanInv'
  BY <1>1, <1>9 DEF PlanInv
<1> QED BY <1>1, <1>3, <1>4, <1>9, <1>10, <1>11 DEF On, Working

\* A job that fails goes off its plan.
LEMMA FailedMoves ==
  ASSUME Typed, PlanInv, Failed, At(Head(job.todo)), Head(job.todo) \notin {"unstage", "over"}
  PROVE  PlanInv' /\ Off
<1>1. CASE Head(job.todo) \in {"upload", "verify", "promote"}
  <2>1. /\ Head(job.todo) \in StepNames \ {"over", "unstage"}
        /\ job'.todo = <<"unstage">> /\ job'.req = job.req /\ worker' = worker
    BY <1>1 DEF Failed, At, StepNames, Typed, JobStates
  <2>2. Fits(job.req, Head(job.todo), Left) /\ worker.run = "running"
    BY <2>1, AtPlace, Zenon
  <2>3. job.req.kind = "deploy"
    BY <1>1, <2>2, DeployPlaces
  <2> QED BY <2>1, <2>2, <2>3, LastLists DEF PlanInv, Planned, Off, Working
<1>2. CASE Head(job.todo) \notin {"upload", "verify", "promote"}
  <2>1. job'.todo = <<>> /\ job'.req = job.req /\ worker' = [worker EXCEPT !.run = "failed"]
    BY <1>2 DEF Failed, Typed, JobStates
  <2> QED BY <2>1, FailStep
<1> QED BY <1>1, <1>2

LEMMA FailsMoves ==
  ASSUME Typed, PlanInv, Fails PROVE PlanInv' /\ Off
<1>1. Failed /\ At(Head(job.todo)) /\ Head(job.todo) \notin {"unstage", "over"}
  BY DEF Fails, At
<1> QED BY <1>1, FailedMoves

\* The commands whose answer may be given up.
Commands ==
    {"bootstrap", "setup", "stage", "upload", "promote", "install", "reboot", "restart", "set_password"}

LEMMA UnansweredAt ==
  ASSUME Unanswered
  PROVE  /\ Failed /\ At(Head(job.todo)) /\ Head(job.todo) \in Commands /\ Connected
         /\ UNCHANGED <<front, form, confirm, log, quit, tree, engine, card, started>>
         /\ hist' = [hist EXCEPT !.stray = @ \/ At("stage")]
BY DEF Unanswered, Does, At, Commands, view, workstation

LEMMA UnansweredMoves ==
  ASSUME Typed, PlanInv, Unanswered PROVE PlanInv' /\ Off
<1>1. Failed /\ At(Head(job.todo)) /\ Head(job.todo) \in Commands
  BY UnansweredAt
<1>2. Head(job.todo) \notin {"unstage", "over"}
  BY <1>1 DEF Commands
<1> QED BY <1>1, <1>2, FailedMoves

LEMMA UnstageMoves ==
  ASSUME Typed, PlanInv, Unstage PROVE PlanInv' /\ Off
<1>1. job'.todo = <<>> /\ job'.req = job.req /\ worker' = [worker EXCEPT !.run = "failed"]
  BY DEF Unstage, Typed, JobStates
<1> QED BY <1>1, FailStep

LEMMA ReportMoves ==
  ASSUME Typed, PlanInv, Report PROVE PlanInv' /\ Same
<1>1. /\ job.todo = <<>> /\ job'.todo = <<"over">> /\ job'.req = job.req
      /\ worker.run = "running" /\ worker'.run = "running"
  BY DEF Report, Typed, JobStates, Workers
<1> QED BY <1>1, LastLists DEF PlanInv, Planned, Same, Left, Place, Working

LEMMA FinishMoves ==
  ASSUME Typed, PlanInv, Finish PROVE PlanInv' /\ Same
<1>1. /\ job.todo # <<>> /\ Head(job.todo) = "over" /\ job'.todo = <<>> /\ job'.req = job.req
      /\ worker.run = "running" /\ worker'.run = "ok"
  BY DEF Finish, At, Typed, JobStates, Workers
<1>2. job.todo = <<"over">>
  BY <1>1, SpecialLists
<1> QED BY <1>1, <1>2, LastLists DEF PlanInv, Planned, Same, Left, Place, Working

\* What leaves the job alone.
LEMMA StillMoves ==
  ASSUME Typed, PlanInv,
         \/ PiStops \/ PiBoots \/ ContainerPrints \/ AddNetwork \/ Associate
         \/ LosesSession \/ EditTree \/ Cancel \/ Decline
         \/ \E p \in Passwords, apply \in BOOLEAN : SetFields(p, apply)
  PROVE  PlanInv' /\ Same /\ job'.todo = job.todo
<1>1. job'.todo = job.todo /\ job'.req = job.req /\ worker'.run = worker.run
  BY DEF PiStops, PiBoots, ContainerPrints, AddNetwork, Associate, OffJob, LosesSession, EditTree,
         Cancel, Decline, SetFields, view, workstation, Typed, JobStates, Workers
<1> QED BY SMTT(30), <1>1, SameStep

\* The fields of no job.
LEMMA IdleFields ==
  /\ Idle.todo = <<>> /\ Idle.req.kind = "test" /\ Idle.conn = 0 /\ Idle.boot = 0
  /\ Idle.member = 1 /\ Idle.read = FALSE /\ Idle.digest = Nothing
BY DEF Idle

LEMMA ExitsMoves ==
  ASSUME Exits PROVE PlanInv' /\ Off /\ worker'.run = "none" /\ job' = Idle
<1>1. job' = Idle /\ worker' = Free
  BY DEF Exits
<1>2. worker'.run = "none"
  BY <1>1 DEF Free
<1>3. job'.todo = <<>> /\ job'.req.kind = "test"
  BY <1>1, IdleFields
<1> QED BY <1>1, <1>2, <1>3, LastLists DEF PlanInv, Planned, Off, Working

LEMMA RunsMoves ==
  ASSUME NEW req, Runs(req), worker.run = "none",
         req.kind = "deploy" => req.flag \in {"none", "rotate", "project", "rebuild"},
         req.kind = "wifi" => req.flag \in {"keep", "replace", "blind"}
  PROVE  PlanInv' /\ Begins /\ job'.req = req
<1>1. job'.req = req /\ job'.todo = Steps(req) /\ worker'.run = "running"
  BY DEF Runs, Idle, Free
<1>2. Begun(req, Steps(req))
  BY StepsBegun
<1>3. Begins
  BY <1>1, <1>2 DEF Begins
<1>4. Planned(req, Steps(req)) /\ Steps(req) # <<"unstage">>
  BY <1>2, LastLists DEF Begun
<1> QED BY <1>1, <1>3, <1>4 DEF PlanInv

LEMMA RestTyped == ASSUME Typed, job.todo # <<>> PROVE Rest \in Seq(StepNames)
BY DEF Typed, JobStates, Rest

\* No member is there at all: version 0.
LEMMA PlaceOfNothing == Nothing \in Numbers /\ Nothing \in [Index -> Nat]
BY DEF Nothing, Numbers

\* The types of the fields, one by one.
LEMMA FieldTypes ==
  ASSUME Typed
  PROVE  /\ pi.boot \in Nat /\ job.member \in Index /\ job.left \in Int /\ Patience \in Int
         /\ job.req.pi \in Passwords /\ job.hops + 1 \in Nat /\ pi.boot + 1 \in Nat
         /\ hist.said + 1 \in Nat /\ worker.lines + 1 \in Nat /\ job.left - 1 \in Int
         /\ pi.accounts \in SUBSET AccountNames /\ job.saw \in SUBSET AccountNames
         /\ pi.wifi \in SUBSET Nat /\ pi.saved \in SUBSET Nat /\ pi.works \in SUBSET Nat
         /\ pi.container \in {"none", "deferred", "starting", "running"}
         /\ hist.made \in BOOLEAN /\ hist.fell \in BOOLEAN /\ hist.blind \in BOOLEAN
         /\ pi.scripts \in SUBSET Scripts /\ job.lost \in SUBSET AccountNames
         /\ pi.hash \in BOOLEAN
         /\ pi.stage \in Numbers /\ job.digest \in Numbers /\ tree \in Numbers
         /\ job.body \in {"none", "pinned", "other"} /\ started \in Nat
         /\ job.account \in Nat
<1>1. Patience \in Int
  BY DeployerAssumption
<1>2. /\ pi.boot \in Nat /\ pi.accounts \in SUBSET AccountNames /\ pi.wifi \in SUBSET Nat
      /\ pi.saved \in SUBSET Nat /\ pi.works \in SUBSET Nat /\ pi.hash \in BOOLEAN
      /\ pi.container \in {"none", "deferred", "starting", "running"} /\ pi.stage \in Numbers
      /\ pi.scripts \in SUBSET Scripts
  BY DEF Typed, Pis
<1>3. /\ job.member \in Index /\ job.left \in Int /\ job.req.pi \in Passwords /\ job.hops \in Nat
      /\ job.saw \in SUBSET AccountNames /\ job.lost \in SUBSET AccountNames /\ job.digest \in Numbers
      /\ job.body \in {"none", "pinned", "other"} /\ job.account \in Nat
  BY DEF Typed, JobStates, Requests
<1>4. /\ hist.said \in Nat /\ hist.made \in BOOLEAN /\ hist.fell \in BOOLEAN /\ hist.blind \in BOOLEAN
      /\ worker.lines \in Nat /\ started \in Nat /\ tree \in Numbers
  BY DEF Typed, Histories, Workers
<1> QED BY <1>1, <1>2, <1>3, <1>4

\* What the commands make of the Pi is a Pi.
LEMMA EffectsTyped ==
  ASSUME Typed
  PROVE  /\ Bootstrapped \in Pis /\ MadeStage \in Pis /\ Promoted \in Pis
         /\ Leaving \in Pis /\ Served \in Pis /\ Secured \in Pis
         /\ \A now \in SUBSET {"pi", "root"} : SetUp(now) \in Pis
         /\ \A got \in {tree[job.member], 0} : Uploaded(got) \in Pis
         /\ \A live, kept \in BOOLEAN : Installed(live, kept) \in Pis
<1>1. Bootstrapped \in Pis
  BY DEF Bootstrapped, Typed, Pis
<1>2. MadeStage \in Pis /\ Promoted \in Pis
  BY FieldTypes, PlaceOfNothing DEF MadeStage, Promoted, Typed, Pis
<1>3. Leaving \in Pis
  BY DEF Leaving, Typed, Pis
<1>4. Served \in Pis
  BY DEF Served, Restarted, Typed, Pis
<1>5. Secured \in Pis
  BY DEF Secured, Typed, Pis
<1>6. ASSUME NEW now \in SUBSET {"pi", "root"} PROVE SetUp(now) \in Pis
  <2>1. pi.accounts \cup now \in SUBSET AccountNames /\ job.req.pi \in Logins
    BY FieldTypes DEF AccountNames, Logins
  <2> QED BY <2>1 DEF SetUp, Typed, Pis
<1>7. ASSUME NEW got \in {tree[job.member], 0} PROVE Uploaded(got) \in Pis
  <2>1. got \in Nat
    BY FieldTypes DEF Numbers
  <2>2. [pi.stage EXCEPT ![job.member] = got] \in Numbers
    BY <2>1, FieldTypes DEF Numbers
  <2> QED BY <2>2 DEF Uploaded, Typed, Pis
<1>8. ASSUME NEW live \in BOOLEAN, NEW kept \in BOOLEAN PROVE Installed(live, kept) \in Pis
  <2>1. (pi.hash \/ kept) \in BOOLEAN
    OBVIOUS
  <2>2. (IF live THEN "starting" ELSE "deferred") \in {"none", "deferred", "starting", "running"}
    OBVIOUS
  <2> QED BY ZenonT(40), <2>1, <2>2 DEF Installed, Typed, Pis
<1> QED BY <1>1, <1>2, <1>3, <1>4, <1>5, <1>6, <1>7, <1>8

\* Every action keeps the types.
LEMMA CheckCardTyped == ASSUME Typed, PlanInv, CheckCard PROVE Typed'
<1>0. Rest \in Seq(StepNames)
  BY RestTyped DEF CheckCard, Does, At
<1>1. job' \in JobStates
  BY <1>0 DEF CheckCard, Typed, JobStates
<1>2. job'.account = 1 \/ (job'.account = 2 /\ job'.req.kind = "alpine")
  BY DEF CheckCard, Does, Typed, JobStates
<1> QED BY <1>1, <1>2 DEF CheckCard, Others, view, workstation, Typed

LEMMA ChecksumTyped == ASSUME Typed, PlanInv, Checksum PROVE Typed'
<1>0. Rest \in Seq(StepNames)
  BY RestTyped DEF Checksum, Does, At
<1>1. job' \in JobStates
  BY <1>0 DEF Checksum, Typed, JobStates
<1>2. job'.account = 1 \/ (job'.account = 2 /\ job'.req.kind = "alpine")
  BY DEF Checksum, Does, Typed, JobStates
<1> QED BY <1>1, <1>2 DEF Checksum, Others, view, workstation, Typed

LEMMA DownloadTyped == ASSUME Typed, PlanInv, Download PROVE Typed'
<1>0. Rest \in Seq(StepNames)
  BY RestTyped DEF Download, Does, At
<1>1. job' \in JobStates
  BY <1>0, FieldTypes DEF Download, Typed, JobStates
<1>2. job'.account = 1 \/ (job'.account = 2 /\ job'.req.kind = "alpine")
  BY DEF Download, Does, Typed, JobStates
<1> QED BY <1>1, <1>2 DEF Download, Others, view, workstation, Typed

LEMMA ConnectTyped == ASSUME Typed, PlanInv, Connect PROVE Typed'
<1>0. Rest \in Seq(StepNames)
  BY RestTyped DEF Connect, Does, At
<1>1. job' \in JobStates
  BY <1>0, FieldTypes DEF Connect, Typed, JobStates
<1>2. job'.account = 1 \/ (job'.account = 2 /\ job'.req.kind = "alpine")
  BY DEF Connect, Does, Typed, JobStates
<1> QED BY <1>1, <1>2 DEF Connect, Others, view, workstation, Typed

LEMMA ProbeTyped == ASSUME Typed, PlanInv, Probe PROVE Typed'
<1>0. Rest \in Seq(StepNames)
  BY RestTyped DEF Probe, Does, At
<1>1. job' \in JobStates
  BY <1>0 DEF Probe, Typed, JobStates
<1>2. job'.account = 1 \/ (job'.account = 2 /\ job'.req.kind = "alpine")
  BY DEF Probe, Does, Typed, JobStates
<1> QED BY <1>1, <1>2 DEF Probe, Others, view, workstation, Typed

LEMMA RunTyped == ASSUME Typed, PlanInv, Run PROVE Typed'
<1>0. Rest \in Seq(StepNames)
  BY RestTyped DEF Run, Does, At
<1>1. job' \in JobStates
  BY <1>0 DEF Run, Typed, JobStates
<1>2. job'.account = 1 \/ (job'.account = 2 /\ job'.req.kind = "alpine")
  BY DEF Run, Does, Typed, JobStates
<1> QED BY <1>1, <1>2 DEF Run, Others, view, workstation, Typed

LEMMA ArtifactsTyped == ASSUME Typed, PlanInv, Artifacts PROVE Typed'
<1>0. Rest \in Seq(StepNames)
  BY RestTyped DEF Artifacts, Does, At
<1>1. job' \in JobStates
  BY <1>0 DEF Artifacts, Typed, JobStates
<1>2. job'.account = 1 \/ (job'.account = 2 /\ job'.req.kind = "alpine")
  BY DEF Artifacts, Does, Typed, JobStates
<1> QED BY <1>1, <1>2 DEF Artifacts, Others, view, workstation, Typed

\* What a reading of the log makes of the job is a job.
LEMMA ToldTyped ==
  ASSUME Typed, Rest \in Seq(StepNames), NEW password \in BOOLEAN PROVE Told(password) \in JobStates
<1>1. (password /\ job.boot # 0) \in BOOLEAN
  OBVIOUS
<1> QED BY <1>1 DEF Told, Typed, JobStates

LEMMA SkipBannerTyped == ASSUME Typed, PlanInv, SkipBanner PROVE Typed'
<1>0. Rest \in Seq(StepNames)
  BY RestTyped DEF SkipBanner, Does, At
<1>1. job' \in JobStates
  BY <1>0, ToldTyped DEF SkipBanner, Typed, JobStates
<1>2. job'.account = 1 \/ (job'.account = 2 /\ job'.req.kind = "alpine")
  BY DEF SkipBanner, Told, Does, Typed, JobStates
<1> QED BY <1>1, <1>2 DEF SkipBanner, Others, view, workstation, Typed

LEMMA ReadBootIdTyped == ASSUME Typed, PlanInv, ReadBootId PROVE Typed'
<1>0. Rest \in Seq(StepNames)
  BY RestTyped DEF ReadBootId, Does, At
<1>1. job' \in JobStates
  BY <1>0, FieldTypes DEF ReadBootId, Typed, JobStates
<1>2. job'.account = 1 \/ (job'.account = 2 /\ job'.req.kind = "alpine")
  BY DEF ReadBootId, Does, Typed, JobStates
<1> QED BY <1>1, <1>2 DEF ReadBootId, Others, view, workstation, Typed

LEMMA VerifyTyped == ASSUME Typed, PlanInv, Verify PROVE Typed'
<1>0. Rest \in Seq(StepNames)
  BY RestTyped DEF Verify, Does, At
<1>1. job' \in JobStates
  <2>1. CASE job.member = Members
    BY <1>0, <2>1 DEF Verify, Typed, JobStates
  <2>2. CASE job.member # Members
    <3>1. job.member + 1 \in Index
      BY <2>2, FieldTypes, DeployerAssumption DEF Index
    <3>2. <<"upload">> \o Rest \in Seq(StepNames)
      <4>1. "upload" \in StepNames
        BY DEF StepNames
      <4>2. <<"upload">> \in Seq(StepNames)
        BY <4>1
      <4> QED BY <4>2, <1>0
    <3> QED BY <2>2, <3>1, <3>2 DEF Verify, Typed, JobStates
  <2> QED BY <2>1, <2>2
<1>2. job'.account = 1 \/ (job'.account = 2 /\ job'.req.kind = "alpine")
  BY DEF Verify, Does, Typed, JobStates
<1> QED BY <1>1, <1>2 DEF Verify, Others, view, workstation, Typed

LEMMA TryAccountTyped == ASSUME Typed, PlanInv, TryAccount PROVE Typed'
<1>0. Rest \in Seq(StepNames)
  BY RestTyped DEF TryAccount, Does, At
<1>1. job' \in JobStates
  <2>1. Accounts[job.account] \in AccountNames
    BY DEF Accounts, AccountNames, Typed
  <2>2. NextAccount \in Nat /\ Round \in Int
    BY FieldTypes DEF NextAccount, Round
  <2>3. job.saw \cup {Accounts[job.account]} \in SUBSET AccountNames
    BY <2>1, FieldTypes
  <2>8. job.lost \cup {Accounts[job.account]} \in SUBSET AccountNames /\ job.lost \in SUBSET AccountNames
    BY <2>1, FieldTypes
  <2>4. \/ \E l \in SUBSET AccountNames :
             job' = [job EXCEPT !.saw = @ \cup {Accounts[job.account]}, !.lost = l,
                                !.account = NextAccount, !.left = Round]
        \/ job' = [job EXCEPT !.todo = Rest, !.conn = pi.boot, !.left = Patience]
        \/ job' = [job EXCEPT !.account = NextAccount, !.left = Round]
    BY <2>8 DEF TryAccount
  <2>5. CASE \E l \in SUBSET AccountNames :
               job' = [job EXCEPT !.saw = @ \cup {Accounts[job.account]}, !.lost = l,
                                  !.account = NextAccount, !.left = Round]
    BY <2>2, <2>3, <2>5 DEF Typed, JobStates
  <2>6. CASE job' = [job EXCEPT !.todo = Rest, !.conn = pi.boot, !.left = Patience]
    BY <1>0, <2>6, FieldTypes DEF Typed, JobStates
  <2>7. CASE job' = [job EXCEPT !.account = NextAccount, !.left = Round]
    BY <2>2, <2>7 DEF Typed, JobStates
  <2> QED BY <2>4, <2>5, <2>6, <2>7
<1>2. job'.account = 1 \/ (job'.account = 2 /\ job'.req.kind = "alpine")
  <2>1. job'.account \in {job.account, NextAccount} /\ job'.req = job.req
    BY DEF TryAccount, Typed, JobStates
  <2>2. CASE job.req.kind = "alpine"
    <3>1. Len(Accounts) = 2
      BY <2>2 DEF Accounts
    <3> QED BY <2>1, <2>2, <3>1 DEF NextAccount, Typed
  <2>3. CASE job.req.kind # "alpine"
    <3>1. Len(Accounts) = 1 /\ job.account = 1
      BY <2>3 DEF Accounts, Typed
    <3> QED BY <2>1, <3>1 DEF NextAccount
  <2> QED BY <2>2, <2>3
<1> QED BY <1>1, <1>2 DEF TryAccount, Others, view, workstation, Typed

LEMMA AwaitApplianceTyped == ASSUME Typed, PlanInv, AwaitAppliance PROVE Typed'
<1>0. Rest \in Seq(StepNames)
  BY RestTyped DEF AwaitAppliance, Does, At
<1>1. job' \in JobStates
  <2>1. CASE job' = [job EXCEPT !.todo = Rest, !.left = Patience]
    BY <1>0, <2>1, FieldTypes DEF Typed, JobStates
  <2>2. CASE job' = [job EXCEPT !.left = @ - 1]
    BY <2>2, FieldTypes DEF Typed, JobStates
  <2> QED BY <2>1, <2>2 DEF AwaitAppliance
<1>2. job'.account = 1 \/ (job'.account = 2 /\ job'.req.kind = "alpine")
  BY DEF AwaitAppliance, Does, Typed, JobStates
<1> QED BY <1>1, <1>2 DEF AwaitAppliance, Others, view, workstation, Typed

LEMMA BootstrapTyped == ASSUME Typed, PlanInv, Bootstrap PROVE Typed'
<1>0. Rest \in Seq(StepNames)
  BY RestTyped DEF Bootstrap, Does, At
<1>1. job' \in JobStates
  BY <1>0 DEF Bootstrap, Typed, JobStates
<1>2. pi' \in Pis
  BY EffectsTyped DEF Bootstrap
<1>3. job'.account = 1 \/ (job'.account = 2 /\ job'.req.kind = "alpine")
  BY DEF Bootstrap, Does, Typed, JobStates
<1> QED BY <1>1, <1>2, <1>3 DEF Bootstrap, Others, view, workstation, Typed

LEMMA SetupTyped == ASSUME Typed, PlanInv, Setup PROVE Typed'
<1>0. Rest \in Seq(StepNames)
  BY RestTyped DEF Setup, Does, At
<1>1. job' \in JobStates
  BY <1>0 DEF Setup, Typed, JobStates, Requests, Logins, AccountNames
<1>2. pi' \in Pis
  BY EffectsTyped DEF Setup
<1>3. job'.account = 1 \/ (job'.account = 2 /\ job'.req.kind = "alpine")
  BY DEF Setup, Does, Typed, JobStates, Requests, Logins, AccountNames
<1> QED BY <1>1, <1>2, <1>3 DEF Setup, Others, view, workstation, Typed

LEMMA StageTyped == ASSUME Typed, PlanInv, Stage PROVE Typed'
<1>0. Rest \in Seq(StepNames)
  BY RestTyped DEF Stage, Does, At
<1>1. job' \in JobStates
  BY <1>0 DEF Stage, Typed, JobStates
<1>2. pi' \in Pis
  BY EffectsTyped DEF Stage
<1>3. job'.account = 1 \/ (job'.account = 2 /\ job'.req.kind = "alpine")
  BY DEF Stage, Does, Typed, JobStates
<1> QED BY <1>1, <1>2, <1>3 DEF Stage, Others, view, workstation, Typed

LEMMA UploadTyped == ASSUME Typed, PlanInv, Upload PROVE Typed'
<1>0. Rest \in Seq(StepNames)
  BY RestTyped DEF Upload, Does, At
<1>1. job' \in JobStates
  <2>1. "verify" \in StepNames
    BY DEF StepNames
  <2>2. <<"verify">> \in Seq(StepNames)
    BY <2>1
  <2>3. <<"verify">> \o Rest \in Seq(StepNames)
    BY <2>2, <1>0
  <2> QED BY <2>3 DEF Upload, Typed, JobStates
<1>2. pi' \in Pis
  BY EffectsTyped DEF Upload
<1>3. job'.account = 1 \/ (job'.account = 2 /\ job'.req.kind = "alpine")
  BY DEF Upload, Does, Typed, JobStates
<1> QED BY <1>1, <1>2, <1>3 DEF Upload, Others, view, workstation, Typed

LEMMA PromoteStageTyped == ASSUME Typed, PlanInv, PromoteStage PROVE Typed'
<1>0. Rest \in Seq(StepNames)
  BY RestTyped DEF PromoteStage, Does, At
<1>1. job' \in JobStates
  BY <1>0 DEF PromoteStage, Typed, JobStates
<1>2. pi' \in Pis
  BY EffectsTyped DEF PromoteStage
<1>3. job'.account = 1 \/ (job'.account = 2 /\ job'.req.kind = "alpine")
  BY DEF PromoteStage, Does, Typed, JobStates
<1> QED BY <1>1, <1>2, <1>3 DEF PromoteStage, Others, view, workstation, Typed

LEMMA RebootTyped == ASSUME Typed, PlanInv, Reboot PROVE Typed'
<1>0. Rest \in Seq(StepNames)
  BY RestTyped DEF Reboot, Does, At
<1>1. job' \in JobStates
  BY <1>0, FieldTypes DEF Reboot, Typed, JobStates
<1>2. pi' \in Pis
  BY EffectsTyped DEF Reboot
<1>3. job'.account = 1 \/ (job'.account = 2 /\ job'.req.kind = "alpine")
  BY DEF Reboot, Does, Typed, JobStates
<1> QED BY <1>1, <1>2, <1>3 DEF Reboot, Others, view, workstation, Typed

LEMMA RestartTyped == ASSUME Typed, PlanInv, Restart PROVE Typed'
<1>0. Rest \in Seq(StepNames)
  BY RestTyped DEF Restart, Does, At
<1>1. job' \in JobStates
  BY <1>0 DEF Restart, Typed, JobStates, Restarted
<1>2. pi' \in Pis
  BY EffectsTyped DEF Restart
<1>3. job'.account = 1 \/ (job'.account = 2 /\ job'.req.kind = "alpine")
  BY DEF Restart, Does, Typed, JobStates, Restarted
<1> QED BY <1>1, <1>2, <1>3 DEF Restart, Others, view, workstation, Typed

LEMMA SetPasswordTyped == ASSUME Typed, PlanInv, SetPassword PROVE Typed'
<1>0. Rest \in Seq(StepNames)
  BY RestTyped DEF SetPassword, Does, At
<1>1. job' \in JobStates
  BY <1>0 DEF SetPassword, Typed, JobStates
<1>2. pi' \in Pis
  BY EffectsTyped DEF SetPassword
<1>3. job'.account = 1 \/ (job'.account = 2 /\ job'.req.kind = "alpine")
  BY DEF SetPassword, Does, Typed, JobStates
<1> QED BY <1>1, <1>2, <1>3 DEF SetPassword, Others, view, workstation, Typed

LEMMA StartScriptTyped == ASSUME Typed, PlanInv, StartScript PROVE Typed'
<1>0. Rest \in Seq(StepNames)
  BY RestTyped DEF StartScript, Does, At
<1>1. job' \in JobStates
  BY <1>0 DEF StartScript, Typed, JobStates
<1>2. pi' \in Pis
  <2>1. [n |-> started, flag |-> job.req.flag, at |-> "add"] \in Scripts
    BY FieldTypes DEF Scripts, Typed, JobStates, Requests
  <2>2. pi.scripts \cup {[n |-> started, flag |-> job.req.flag, at |-> "add"]} \in SUBSET Scripts
    BY <2>1, FieldTypes
  <2> QED BY <2>2 DEF StartScript, Typed, Pis
<1>3. job'.account = 1 \/ (job'.account = 2 /\ job'.req.kind = "alpine")
  BY DEF StartScript, Does, Typed, JobStates
<1> QED BY <1>1, <1>2, <1>3 DEF StartScript, Others, view, workstation, Typed

\* A script that goes on, or is gone, leaves scripts.
LEMMA ScriptsTyped ==
  ASSUME Typed, NEW s \in pi.scripts
  PROVE  /\ s \in Scripts /\ s.n \in Nat /\ Ends(s) \in SUBSET Scripts
         /\ \A at \in {"add", "associate", "ok"} : Goes(s, at) \in SUBSET Scripts
<1>1. s \in Scripts /\ pi.scripts \in SUBSET Scripts
  BY FieldTypes
<1>2. \A at \in {"add", "associate", "ok"} : [s EXCEPT !.at = at] \in Scripts
  BY <1>1 DEF Scripts
<1>3. s.n \in Nat
  BY <1>1 DEF Scripts
<1> QED BY <1>1, <1>2, <1>3 DEF Goes, Ends

LEMMA ReadExitTyped == ASSUME Typed, PlanInv, ReadExit PROVE Typed'
<1>0. Rest \in Seq(StepNames)
  BY RestTyped DEF ReadExit, Does, At
<1>1. job' \in JobStates
  BY <1>0 DEF ReadExit, Typed, JobStates
<1>2. pi' \in Pis
  <2>1. PICK s \in pi.scripts : pi' = [pi EXCEPT !.scripts = Ends(s)]
    BY DEF ReadExit
  <2>2. Ends(s) \in SUBSET Scripts
    BY <2>1, ScriptsTyped
  <2> QED BY <2>1, <2>2 DEF Typed, Pis
<1>3. job'.account = 1 \/ (job'.account = 2 /\ job'.req.kind = "alpine")
  BY DEF ReadExit, Does, Typed, JobStates
<1> QED BY <1>1, <1>2, <1>3 DEF ReadExit, Others, view, workstation, Typed

LEMMA EmulateTyped == ASSUME Typed, PlanInv, Emulate PROVE Typed'
<1>0. Rest \in Seq(StepNames)
  BY RestTyped DEF Emulate, Does, At
<1>1. job' \in JobStates
  BY <1>0 DEF Emulate, Typed, JobStates
<1>2. engine' \in Engines
  BY DEF Emulate, Typed, Engines
<1>3. job'.account = 1 \/ (job'.account = 2 /\ job'.req.kind = "alpine")
  BY DEF Emulate, Does, Typed, JobStates
<1> QED BY <1>1, <1>2, <1>3 DEF Emulate, Others, view, workstation, Typed

LEMMA BuildTyped == ASSUME Typed, PlanInv, Build PROVE Typed'
<1>0. Rest \in Seq(StepNames)
  BY RestTyped DEF Build, Does, At
<1>1. job' \in JobStates
  BY <1>0 DEF Build, Typed, JobStates
<1>2. tree' \in Numbers
  <2>1. Members \in Index
    BY DeployerAssumption DEF Index
  <2> QED BY <2>1 DEF Build, Typed, Numbers
<1>3. job'.account = 1 \/ (job'.account = 2 /\ job'.req.kind = "alpine")
  BY DEF Build, Does, Typed, JobStates
<1> QED BY <1>1, <1>2, <1>3 DEF Build, Others, view, workstation, Typed

LEMMA WriteOverlayTyped == ASSUME Typed, PlanInv, WriteOverlay PROVE Typed'
<1>0. Rest \in Seq(StepNames)
  BY RestTyped DEF WriteOverlay, Does, At
<1>1. job' \in JobStates
  <2>1. CASE job' = [job EXCEPT !.todo = Rest]
    BY <1>0, <2>1, LastLists DEF Typed, JobStates
  <2>2. CASE job' = [job EXCEPT !.todo = <<>>]
    BY <2>2, LastLists DEF Typed, JobStates
  <2> QED BY <2>1, <2>2 DEF WriteOverlay, Writes
<1>2. card' \in Cards
  <2>1. card' = [card EXCEPT !["overlay"] = job.body] \/ card' = [card EXCEPT !["overlay"] = "part"]
    BY DEF WriteOverlay, Writes
  <2> QED BY <2>1, FieldTypes DEF Typed, Cards
<1>3. worker' \in Workers
  BY DEF WriteOverlay, Typed, Workers, Writes
<1>4. job'.account = 1 \/ (job'.account = 2 /\ job'.req.kind = "alpine")
  BY DEF WriteOverlay, Does, Typed, JobStates, Writes
<1> QED BY <1>1, <1>2, <1>3, <1>4 DEF WriteOverlay, Others, view, workstation, Typed, Writes

LEMMA WriteWifiTyped == ASSUME Typed, PlanInv, WriteWifi PROVE Typed'
<1>0. Rest \in Seq(StepNames)
  BY RestTyped DEF WriteWifi, Does, At
<1>1. job' \in JobStates
  <2>1. CASE job' = [job EXCEPT !.todo = Rest]
    BY <1>0, <2>1, LastLists DEF Typed, JobStates
  <2>2. CASE job' = [job EXCEPT !.todo = <<>>]
    BY <2>2, LastLists DEF Typed, JobStates
  <2> QED BY <2>1, <2>2 DEF WriteWifi, Writes
<1>2. card' \in Cards
  BY DEF WriteWifi, Typed, Cards, Writes
<1>3. worker' \in Workers
  BY DEF WriteWifi, Typed, Workers, Writes
<1>4. job'.account = 1 \/ (job'.account = 2 /\ job'.req.kind = "alpine")
  BY DEF WriteWifi, Does, Typed, JobStates, Writes
<1> QED BY <1>1, <1>2, <1>3, <1>4 DEF WriteWifi, Others, view, workstation, Typed, Writes

LEMMA InstallTyped == ASSUME Typed, PlanInv, Install PROVE Typed'
<1>0. Rest \in Seq(StepNames)
  BY RestTyped DEF Install, Does, At
<1>1. job' \in JobStates
  <2>1. PICK live, kept \in BOOLEAN :
           /\ job' = [job EXCEPT !.todo = Rest, !.live = live, !.left = Patience]
           /\ pi' = Installed(live, kept)
    BY DEF Install
  <2> QED BY <1>0, <2>1, FieldTypes DEF Typed, JobStates
<1>2. pi' \in Pis
  BY EffectsTyped DEF Install
<1>3. hist' \in Histories
  BY DEF Install, Typed, Histories
<1>4. job'.account = 1 \/ (job'.account = 2 /\ job'.req.kind = "alpine")
  BY DEF Install, Does, Typed, JobStates
<1> QED BY <1>1, <1>2, <1>3, <1>4 DEF Install, Others, view, workstation, Typed

LEMMA ReadBannerTyped == ASSUME Typed, PlanInv, ReadBanner PROVE Typed'
<1>0. Rest \in Seq(StepNames)
  BY RestTyped DEF ReadBanner, Told, Does, At
<1>1. job' \in JobStates
  <2>1. FirstWebPassword \in BOOLEAN
    BY DEF FirstWebPassword
  <2>2. CASE job' = Told(FirstWebPassword)
    BY <1>0, <2>1, <2>2, ToldTyped
  <2>3. CASE job' = [job EXCEPT !.left = @ - 1]
    BY <2>3, FieldTypes DEF Typed, JobStates
  <2>4. CASE job' = Told(FALSE)
    BY <1>0, <2>4, ToldTyped
  <2> QED BY <2>2, <2>3, <2>4 DEF ReadBanner
<1>2. hist' \in Histories
  <2>1. hist' = hist \/ hist' = [hist EXCEPT !.late = TRUE]
    BY DEF ReadBanner
  <2> QED BY <2>1 DEF Typed, Histories
<1>3. job'.account = 1 \/ (job'.account = 2 /\ job'.req.kind = "alpine")
  BY DEF ReadBanner, Told, Does, Typed, JobStates
<1> QED BY <1>1, <1>2, <1>3 DEF ReadBanner, Others, view, workstation, Typed

LEMMA NoBannerTyped == ASSUME Typed, PlanInv, NoBanner PROVE Typed'
<1>0. Rest \in Seq(StepNames)
  BY RestTyped DEF NoBanner, Does, At
<1>1. job' \in JobStates
  BY <1>0, ToldTyped DEF NoBanner, Typed, JobStates
<1>2. hist' \in Histories
  BY DEF NoBanner, Typed, Histories
<1>3. job'.account = 1 \/ (job'.account = 2 /\ job'.req.kind = "alpine")
  BY DEF NoBanner, Told, Does, Typed, JobStates
<1> QED BY <1>1, <1>2, <1>3 DEF NoBanner, Others, view, workstation, Typed

LEMMA NoApplianceTyped == ASSUME Typed, PlanInv, NoAppliance PROVE Typed'
<1>0. Rest \in Seq(StepNames)
  BY RestTyped DEF NoAppliance, Does, At
<1>1. job' \in JobStates
  <2>1. At("appliance") /\ "appliance" \in StepNames \ {"over", "unstage"}
    BY DEF NoAppliance, StepNames
  <2>2. Fits(job.req, "appliance", Left)
    BY <2>1, AtPlace, Zenon
  <2>3. Left = 2
    BY <2>2, DeployPlaces
  <2>4. Rest # <<>>
    <3> SUFFICES ASSUME Rest = <<>> PROVE FALSE
      OBVIOUS
    <3>1. job.todo \in Seq(StepNames) /\ job.todo # <<>>
      BY <2>1 DEF At, Typed, JobStates
    <3>3. Len(Tail(job.todo)) = Len(job.todo) - 1 /\ Len(job.todo) \in Nat
      BY <3>1
    <3>5. Tail(job.todo) = <<>> /\ Len(<<>>) = 0
      BY DEF Rest
    <3>4. Len(Tail(job.todo)) = 0
      BY <3>5
    <3>2. Len(job.todo) = 1
      BY <3>3, <3>4
    <3> QED BY <2>3, <3>2, ExtraIsNat DEF Left, Place
  <2>5. Tail(Rest) \in Seq(StepNames)
    BY <1>0, <2>4
  <2> QED BY <2>5 DEF NoAppliance, Typed, JobStates
<1>2. hist' \in Histories
  BY DEF NoAppliance, Typed, Histories
<1>3. job'.account = 1 \/ (job'.account = 2 /\ job'.req.kind = "alpine")
  BY DEF NoAppliance, Does, Typed, JobStates
<1> QED BY <1>1, <1>2, <1>3 DEF NoAppliance, Others, view, workstation, Typed

\* A step of a script changes the profiles and the scripts, and nothing else of
\* the Pi: list and file are its profiles then, able the ones whose key is right.
Adds(s, works, old, list, file, runs, able) ==
    /\ s \in Scripts /\ s.n \in Nat /\ (old # {} => s.flag = "keep")
    /\ pi' = [pi EXCEPT !.wifi = list, !.saved = file, !.scripts = runs, !.works = able]
    /\ able = IF works THEN pi.works \cup {s.n} ELSE pi.works
    /\ s.flag # "blind" => list = (pi.wifi \ old) \cup {s.n}
    /\ file = pi.saved \/ (s.flag # "replace" /\ file = list)
    /\ hist' = [hist EXCEPT !.over = @ \/ old # {}, !.blind = @ \/ s.flag = "blind"]

LEMMA AddNetworkChanges ==
  ASSUME Typed, AddNetwork
  PROVE  \E s \in pi.scripts, works \in BOOLEAN, old \in SUBSET pi.wifi,
            list \in SUBSET Nat, file \in SUBSET Nat, runs \in SUBSET Scripts, able \in SUBSET Nat :
           Adds(s, works, old, list, file, runs, able)
<1>1. PICK s \in pi.scripts, works \in BOOLEAN, old \in SUBSET pi.wifi :
         /\ s.at = "add" /\ Cardinality(old) <= 1 /\ (old # {} => s.flag = "keep")
         /\ LET wifi == (pi.wifi \ old) \cup {s.n}
                kept == IF s.flag = "blind" THEN {s.n} ELSE wifi
                with(list, file, scripts) ==
                  pi' = [pi EXCEPT !.wifi = list, !.saved = file, !.scripts = scripts,
                                   !.works = IF works THEN @ \cup {s.n} ELSE @]
            IN  \/ s.flag # "replace" /\ with(kept, kept, Goes(s, "ok"))
                \/ s.flag = "replace" /\ with(wifi, pi.saved, Goes(s, "associate"))
                \/ with(wifi, pi.saved, Ends(s))
                \/ s.flag = "blind" /\ with(kept, pi.saved, Ends(s))
         /\ hist' = [hist EXCEPT !.over = @ \/ old # {}, !.blind = @ \/ s.flag = "blind"]
  BY DEF AddNetwork
<1> DEFINE wifi == (pi.wifi \ old) \cup {s.n}
           kept == IF s.flag = "blind" THEN {s.n} ELSE wifi
           able == IF works THEN pi.works \cup {s.n} ELSE pi.works
           With(list, file, runs) ==
             pi' = [pi EXCEPT !.wifi = list, !.saved = file, !.scripts = runs, !.works = able]
<1>2. /\ s \in Scripts /\ s.n \in Nat /\ Ends(s) \in SUBSET Scripts
      /\ Goes(s, "ok") \in SUBSET Scripts /\ Goes(s, "associate") \in SUBSET Scripts
  BY ScriptsTyped
<1>3. /\ wifi \in SUBSET Nat /\ kept \in SUBSET Nat /\ able \in SUBSET Nat
      /\ pi.saved \in SUBSET Nat
  BY <1>2, FieldTypes
<1>4. /\ s.flag # "blind" => kept = wifi
      /\ able = IF works THEN pi.works \cup {s.n} ELSE pi.works
      /\ wifi = (pi.wifi \ old) \cup {s.n}
  OBVIOUS
<1>5. \/ s.flag # "replace" /\ With(kept, kept, Goes(s, "ok"))
      \/ s.flag = "replace" /\ With(wifi, pi.saved, Goes(s, "associate"))
      \/ With(wifi, pi.saved, Ends(s))
      \/ s.flag = "blind" /\ With(kept, pi.saved, Ends(s))
  BY <1>1
<1>6. /\ old # {} => s.flag = "keep"
      /\ hist' = [hist EXCEPT !.over = @ \/ old # {}, !.blind = @ \/ s.flag = "blind"]
  BY <1>1
<1>8. ASSUME NEW list \in SUBSET Nat, NEW file \in SUBSET Nat, NEW runs \in SUBSET Scripts,
             With(list, file, runs), s.flag # "blind" => list = wifi,
             file = pi.saved \/ (s.flag # "replace" /\ file = list)
      PROVE  Adds(s, works, old, list, file, runs, able)
  BY <1>2, <1>4, <1>6, <1>8 DEF Adds
<1>9. s.flag # "blind" => kept = wifi
  BY <1>4
<1> HIDE DEF wifi, kept, able, With
<1>a. CASE s.flag # "replace" /\ With(kept, kept, Goes(s, "ok"))
  BY <1>2, <1>3, <1>8, <1>9, <1>a
<1>b. CASE s.flag = "replace" /\ With(wifi, pi.saved, Goes(s, "associate"))
  BY <1>2, <1>3, <1>8, <1>b
<1>c. CASE With(wifi, pi.saved, Ends(s))
  BY <1>2, <1>3, <1>8, <1>c
<1>d. CASE s.flag = "blind" /\ With(kept, pi.saved, Ends(s))
  BY <1>2, <1>3, <1>8, <1>d
<1> QED BY <1>5, <1>a, <1>b, <1>c, <1>d

LEMMA AddNetworkTyped == ASSUME Typed, PlanInv, AddNetwork PROVE Typed'
<1>0. PICK s \in pi.scripts, works \in BOOLEAN, old \in SUBSET pi.wifi,
           list \in SUBSET Nat, file \in SUBSET Nat, runs \in SUBSET Scripts, able \in SUBSET Nat :
        Adds(s, works, old, list, file, runs, able)
  BY AddNetworkChanges
<1>1. pi' \in Pis
  BY <1>0 DEF Adds, Typed, Pis
<1>2. hist' \in Histories
  BY ZenonT(40), <1>0 DEF Adds, Typed, Histories
<1> QED BY <1>1, <1>2 DEF AddNetwork, OffJob, view, workstation, Typed

LEMMA AssociateChanges ==
  ASSUME Typed, Associate
  PROVE  \E s \in pi.scripts, list \in SUBSET Nat, file \in SUBSET Nat, runs \in SUBSET Scripts :
           /\ s \in Scripts /\ s.n \in Nat
           /\ pi' = [pi EXCEPT !.wifi = list, !.saved = file, !.scripts = runs]
           /\ \/ s.n \in pi.works /\ list = {s.n} /\ file \in {{s.n}, pi.saved}
              \/ list = pi.saved /\ file = pi.saved
<1>1. PICK s \in pi.scripts :
         \/ /\ s.n \in pi.works \cap pi.wifi
            /\ \/ pi' = [pi EXCEPT !.wifi = {s.n}, !.saved = {s.n}, !.scripts = Goes(s, "ok")]
               \/ pi' = [pi EXCEPT !.wifi = {s.n}, !.scripts = Ends(s)]
         \/ pi' = [pi EXCEPT !.wifi = pi.saved, !.scripts = Ends(s)]
  BY DEF Associate
<1>2. /\ s \in Scripts /\ s.n \in Nat /\ Ends(s) \in SUBSET Scripts
      /\ Goes(s, "ok") \in SUBSET Scripts /\ {s.n} \in SUBSET Nat /\ pi.saved \in SUBSET Nat
  BY ScriptsTyped, FieldTypes
<1>3. ASSUME NEW list, NEW runs, pi' = [pi EXCEPT !.wifi = list, !.scripts = runs]
      PROVE  pi' = [pi EXCEPT !.wifi = list, !.saved = pi.saved, !.scripts = runs]
  BY <1>3 DEF Typed, Pis
<1>4. CASE pi' = [pi EXCEPT !.wifi = {s.n}, !.saved = {s.n}, !.scripts = Goes(s, "ok")] /\ s.n \in pi.works
  BY <1>2, <1>4
<1>5. CASE pi' = [pi EXCEPT !.wifi = {s.n}, !.scripts = Ends(s)] /\ s.n \in pi.works
  BY <1>2, <1>3, <1>5
<1>6. CASE pi' = [pi EXCEPT !.wifi = pi.saved, !.scripts = Ends(s)]
  BY <1>2, <1>3, <1>6
<1> QED BY ZenonT(40), <1>1, <1>4, <1>5, <1>6

LEMMA AssociateTyped == ASSUME Typed, PlanInv, Associate PROVE Typed'
<1>0. PICK s \in pi.scripts, list \in SUBSET Nat, file \in SUBSET Nat, runs \in SUBSET Scripts :
        pi' = [pi EXCEPT !.wifi = list, !.saved = file, !.scripts = runs]
  BY AssociateChanges
<1>1. pi' \in Pis
  BY <1>0 DEF Typed, Pis
<1> QED BY <1>1 DEF Associate, OffJob, view, workstation, Typed

LEMMA FailedTyped ==
  ASSUME Typed, Failed
  PROVE  /\ job' \in JobStates /\ worker' \in Workers
         /\ job'.account = 1 \/ (job'.account = 2 /\ job'.req.kind = "alpine")
<1>1. job' \in JobStates
  <2>1. CASE job' = [job EXCEPT !.todo = <<"unstage">>]
    BY <2>1, LastLists DEF Typed, JobStates
  <2>2. CASE job' = [job EXCEPT !.todo = <<>>]
    BY <2>2, LastLists DEF Typed, JobStates
  <2> QED BY <2>1, <2>2 DEF Failed
<1>2. worker' \in Workers
  BY DEF Failed, Typed, Workers
<1>3. job'.account = 1 \/ (job'.account = 2 /\ job'.req.kind = "alpine")
  BY DEF Failed, Typed, JobStates
<1> QED BY <1>1, <1>2, <1>3

LEMMA FailsTyped == ASSUME Typed, PlanInv, Fails PROVE Typed'
<1>1. Failed /\ UNCHANGED <<form, log, quit, tree, engine, card, pi, started, hist>>
  BY DEF Fails, view, workstation
<1> QED BY <1>1, FailedTyped DEF Typed

LEMMA UnansweredTyped == ASSUME Typed, PlanInv, Unanswered PROVE Typed'
<1>1. /\ Failed /\ UNCHANGED <<form, log, quit, tree, engine, card, started>>
      /\ hist' = [hist EXCEPT !.stray = @ \/ At("stage")]
  BY UnansweredAt
<1>2. pi' \in Pis
  BY EffectsTyped DEF Unanswered
<1>3. hist' \in Histories
  BY <1>1 DEF Typed, Histories
<1> QED BY <1>1, <1>2, <1>3, FailedTyped DEF Typed

LEMMA UnstageTyped == ASSUME Typed, PlanInv, Unstage PROVE Typed'
<1>1. job' \in JobStates
  BY LastLists DEF Unstage, Typed, JobStates
<1>2. pi' \in Pis
  BY ZenonT(40), FieldTypes, PlaceOfNothing DEF Unstage, Typed, Pis
<1>3. worker' \in Workers
  BY DEF Unstage, Typed, Workers
<1>4. job'.account = 1 \/ (job'.account = 2 /\ job'.req.kind = "alpine")
  BY DEF Unstage, Does, Typed, JobStates
<1>5. hist' \in Histories
  BY DEF Unstage, Connected, Typed, Histories
<1> QED BY <1>1, <1>2, <1>3, <1>4, <1>5 DEF Unstage, Others, view, workstation, Typed

LEMMA ReportTyped == ASSUME Typed, PlanInv, Report PROVE Typed'
<1>1. job' \in JobStates
  BY LastLists DEF Report, Typed, JobStates
<1>2. worker' \in Workers
  BY DEF Report, Typed, Workers
<1>3. hist' \in Histories
  BY FieldTypes DEF Report, Typed, Histories
<1>4. job'.account = 1 \/ (job'.account = 2 /\ job'.req.kind = "alpine")
  BY DEF Report, Does, Typed, JobStates
<1> QED BY <1>1, <1>2, <1>3, <1>4 DEF Report, Others, view, workstation, Typed

LEMMA FinishTyped == ASSUME Typed, PlanInv, Finish PROVE Typed'
<1>1. job' \in JobStates
  BY LastLists DEF Finish, Typed, JobStates
<1>2. worker' \in Workers
  BY DEF Finish, Typed, Workers
<1>3. job'.account = 1 \/ (job'.account = 2 /\ job'.req.kind = "alpine")
  BY DEF Finish, Does, Typed, JobStates
<1> QED BY <1>1, <1>2, <1>3 DEF Finish, Others, view, workstation, Typed

LEMMA PiStopsTyped == ASSUME Typed, PlanInv, PiStops PROVE Typed'
<1>1. pi' \in Pis
  BY DEF PiStops, Typed, Pis
<1>2. hist' \in Histories
  BY DEF PiStops, Typed, Histories
<1> QED BY <1>1, <1>2 DEF PiStops, Others, view, workstation, Typed

LEMMA PiBootsTyped == ASSUME Typed, PlanInv, PiBoots PROVE Typed'
<1>1. pi' \in Pis
  <2>1. Restarted \in {"none", "deferred", "starting", "running"}
    BY DEF Restarted
  <2>2. {"pi", "root", "login"} \in SUBSET AccountNames
    BY DEF AccountNames
  <2> QED BY <2>1, <2>2, FieldTypes DEF PiBoots, Typed, Pis
<1> QED BY <1>1 DEF PiBoots, Others, view, workstation, Typed

LEMMA ContainerPrintsTyped == ASSUME Typed, PlanInv, ContainerPrints PROVE Typed'
<1>1. pi' \in Pis
  BY DEF ContainerPrints, Typed, Pis
<1>2. hist' \in Histories
  BY DEF ContainerPrints, Typed, Histories
<1> QED BY <1>1, <1>2 DEF ContainerPrints, Others, view, workstation, Typed

LEMMA LosesSessionTyped == ASSUME Typed, PlanInv, LosesSession PROVE Typed'
<1>1. job' \in JobStates
  BY DEF LosesSession, Typed, JobStates
<1>2. hist' \in Histories
  BY DEF LosesSession, Typed, Histories
<1>3. job'.account = 1 \/ (job'.account = 2 /\ job'.req.kind = "alpine")
  BY DEF LosesSession, Does, Typed, JobStates
<1> QED BY <1>1, <1>2, <1>3 DEF LosesSession, Others, view, workstation, Typed

LEMMA EditTreeTyped == ASSUME Typed, PlanInv, EditTree PROVE Typed'
<1>1. tree' \in Numbers
  <2>1. PICK i \in Index : tree' = [tree EXCEPT ![i] = @ + 1]
    BY DEF EditTree
  <2> QED BY <2>1 DEF Typed, Numbers
<1> QED BY <1>1 DEF EditTree, Others, view, workstation, Typed

LEMMA CancelTyped == ASSUME Typed, PlanInv, Cancel PROVE Typed'
<1>1. worker' \in Workers
  BY DEF Cancel, Typed, Workers
<1> QED BY <1>1 DEF Cancel, Others, view, workstation, Typed

LEMMA DeclineTyped == ASSUME Typed, PlanInv, Decline PROVE Typed'
<1> QED BY DEF Decline, Others, view, workstation, Typed

\* A job that has just been started.
Fresh(kind, p) ==
    /\ worker.run = "none" /\ worker'.run = "running" /\ worker'.lines = 0 /\ Working'
    /\ worker' \in Workers /\ job' \in JobStates /\ job'.account = 1
    /\ started' = started + 1
    /\ job'.req.kind = kind /\ job'.req.pi = p /\ (kind = "alpine" => p \notin Weak)
    /\ Begun(job'.req, job'.todo) /\ Left' = Place(job'.req, job'.todo)
    /\ job'.conn = 0 /\ job'.boot = 0 /\ job'.member = 1 /\ job'.read = FALSE
    /\ job'.todo # <<>>

LEMMA IdleTyped ==
  /\ Idle \in JobStates /\ Free \in Workers
  /\ Idle.account = 1
<1>1. PICK p : p \in Passwords \ Weak
  BY DeployerAssumption
<1>2. APassword \in Passwords
  BY <1>1 DEF APassword
<1>3. 1 \in Index
  BY DeployerAssumption DEF Index
<1>4. [kind |-> "test", pi |-> APassword, flag |-> "none", apply |-> FALSE] \in Requests
  BY <1>2 DEF Requests, AllFlags
<1>5. Idle \in JobStates
  BY <1>3, <1>4, LastLists, PlaceOfNothing DEF Idle, JobStates
<1> QED BY <1>5 DEF Idle, Free, Workers

\* A job that is started has all its steps to do, and the form's password.
LEMMA RunsFresh ==
  ASSUME Typed, NEW kind \in Kinds \cup Asks, NEW p \in Passwords, NEW flag \in AllFlags,
         worker.run = "none", Valid(kind, p), Runs(Request(kind, p, flag)),
         kind = "deploy" => flag \in {"none", "rotate", "project", "rebuild"},
         kind = "wifi" => flag \in {"keep", "replace", "blind"}
  PROVE  PlanInv' /\ Fresh(kind, p)
<1> DEFINE req == Request(kind, p, flag)
<1>1. req.kind = kind /\ req.pi = p /\ req.flag = flag /\ req \in Requests
  BY DEF Request, Requests, Typed, Forms
<1>2. PlanInv' /\ Begins /\ job'.req = req
  <2> HIDE DEF req
  <2>1. Runs(req)
    BY DEF req
  <2> QED BY <1>1, <2>1, RunsMoves
<1>3. Begun(req, job'.todo) /\ worker'.run = "running"
  BY <1>2 DEF Begins
<1>4. job'.todo \in Seq(StepNames) /\ job'.todo # <<>> /\ job'.todo # <<"unstage">>
  BY <1>3, LastLists DEF Begun
<1>5. job' = [Idle EXCEPT !.req = req, !.todo = job'.todo, !.left = Patience]
  <2>1. job' = [Idle EXCEPT !.req = req, !.todo = Steps(req), !.left = Patience]
    BY DEF Runs
  <2>2. job'.todo = Steps(req)
    BY <2>1 DEF Idle
  <2> QED BY <2>1, <2>2
<1>6. Patience \in Int
  BY DeployerAssumption
<1>7. job' \in JobStates
  <2> HIDE DEF req
  <2> QED BY <1>1, <1>4, <1>5, <1>6, IdleTyped DEF JobStates
<1>8. job'.conn = 0 /\ job'.boot = 0 /\ job'.member = 1 /\ job'.read = FALSE /\ job'.account = 1
  <2> HIDE DEF req
  <2> QED BY <1>5 DEF Idle
<1>9. worker' \in Workers /\ worker'.lines = 0 /\ started' = started + 1
  BY DEF Runs, Free, Workers
<1>10. kind = "alpine" => p \notin Weak
  BY DEF Valid
<1>11. Working'
  BY <1>3, <1>4 DEF Working
<1>12. Left' = Place(job'.req, job'.todo)
  BY DEF Left
<1> HIDE DEF req
<1> QED BY <1>1, <1>2, <1>3, <1>4, <1>7, <1>8, <1>9, <1>10, <1>11, <1>12 DEF Fresh

\* What a form offers is what the plans know.
LEMMA FlagsLegal ==
  ASSUME NEW kind, NEW flag \in Flags(kind)
  PROVE  /\ flag \in AllFlags
         /\ kind = "deploy" => flag \in {"none", "rotate", "project", "rebuild"}
         /\ kind = "wifi" => flag \in {"keep", "replace", "blind"}
BY DEF Flags, AllFlags

\* The page starts a job with what the form holds.
LEMMA StartFresh ==
  ASSUME Typed, NEW kind \in Kinds \cup Asks, Start(kind)
  PROVE  PlanInv' /\ Fresh(kind, form.pi)
<1>1. PICK flag \in Flags(kind) : Runs(Request(kind, form.pi, flag))
  BY DEF Start
<1>2. worker.run = "none" /\ Valid(kind, form.pi) /\ form.pi \in Passwords
  BY DEF Start, Startable, busy, Typed, Forms
<1>3. /\ flag \in AllFlags
      /\ kind = "deploy" => flag \in {"none", "rotate", "project", "rebuild"}
      /\ kind = "wifi" => flag \in {"keep", "replace", "blind"}
  BY FlagsLegal
<1> QED BY <1>1, <1>2, <1>3, RunsFresh, Zenon

\* What is left when a step changes nothing of the job.
Idles == UNCHANGED <<worker, job, started, hist>>

LEMMA PressMoves ==
  ASSUME Typed, PlanInv, NEW k \in Kinds, Press(k)
  PROVE  /\ PlanInv' /\ UNCHANGED <<front, form, log, quit, tree, engine, card, pi, hist>>
         /\ confirm' \in {confirm} \cup Asks /\ ~quit
         /\ (Idles /\ Same) \/ (Fresh(k, form.pi) /\ k \notin Asks)
<1>1. UNCHANGED <<front, form, log, quit, tree, engine, card, pi>> /\ ~quit
  BY DEF Press, workstation
<1>2. CASE k \in Asks
  <2>1. Idles /\ confirm' = k
    BY <1>2 DEF Press, Idles
  <2>2. PlanInv' /\ Same
    BY <2>1, SameStep DEF Idles
  <2> QED BY <1>1, <1>2, <2>1, <2>2 DEF Idles
<1>3. CASE k \notin Asks
  <2>1. Start(k) /\ UNCHANGED <<confirm, hist>>
    BY <1>3 DEF Press
  <2>2. k \in Kinds \cup Asks
    OBVIOUS
  <2>3. PlanInv' /\ Fresh(k, form.pi)
    BY <2>1, <2>2, StartFresh, Zenon
  <2> QED BY <1>1, <1>3, <2>1, <2>3
<1> QED BY <1>2, <1>3

LEMMA AcceptMoves ==
  ASSUME Typed, PlanInv, FrontInv, Accept
  PROVE  /\ PlanInv' /\ UNCHANGED <<front, form, tree, engine, card, pi>> /\ ~quit /\ confirm' = "none"
         /\ \/ Exits /\ Off
            \/ Idles /\ Same /\ UNCHANGED <<log, quit>>
            \/ /\ Fresh(confirm, form.pi) /\ UNCHANGED <<log, quit>>
               /\ confirm \in Asks
               /\ hist' = [hist EXCEPT !.agreed = confirm, !.auto = @ /\ confirm # "alpine"]
<1>1. UNCHANGED <<front, form, tree, engine, card, pi>> /\ ~quit /\ confirm' = "none"
  BY DEF Accept, workstation, Exits
<1>2. CASE confirm = "quit"
  <2>1. Exits
    BY <1>2 DEF Accept
  <2> QED BY <1>1, <2>1, ExitsMoves
<1>3. CASE confirm # "quit"
  <2>1. confirm \in Asks /\ UNCHANGED <<log, quit>>
    BY <1>3 DEF Accept, FrontInv
  <2>2. CASE ~Startable(confirm)
    <3>1. Idles
      BY <1>3, <2>2 DEF Accept, Idles
    <3>2. PlanInv' /\ Same
      BY <3>1, SameStep DEF Idles
    <3> QED BY <1>1, <2>1, <3>1, <3>2
  <2>3. CASE Startable(confirm)
    <3>1. /\ Start(confirm)
          /\ hist' = [hist EXCEPT !.agreed = confirm, !.auto = @ /\ confirm # "alpine"]
      BY <1>3, <2>3 DEF Accept
    <3>2. confirm \in Kinds \cup Asks
      BY <2>1
    <3>3. PlanInv' /\ Fresh(confirm, form.pi)
      BY <3>1, <3>2, StartFresh, Zenon
    <3> QED BY <1>1, <2>1, <3>1, <3>3
  <2> QED BY <2>2, <2>3
<1> QED BY <1>2, <1>3

LEMMA CliRunsMoves ==
  ASSUME Typed, PlanInv, FrontInv, NEW k \in Kinds, NEW opts \in SUBSET Options, CliRuns(k, opts)
  PROVE  /\ PlanInv' /\ UNCHANGED <<front, form, confirm, log, quit, tree, engine, card, pi>>
         /\ ~quit /\ front = "cli"
         /\ hist' = [hist EXCEPT !.agreed = k]
         /\ \E p \in Passwords : Fresh(k, p)
<1>1. /\ UNCHANGED <<front, form, confirm, log, quit, tree, engine, card, pi>> /\ ~quit
      /\ front = "cli" /\ hist' = [hist EXCEPT !.agreed = k] /\ started = 0
  BY DEF CliRuns, view, workstation
<1>2. PICK p \in Passwords, flag \in CliFlag(k, opts) : Valid(k, p) /\ Runs(Request(k, p, flag))
  BY DEF CliRuns
<1>3. worker.run = "none" /\ k \in Kinds \cup Asks
  BY <1>1 DEF FrontInv
<1>4. /\ flag \in AllFlags
      /\ k = "deploy" => flag \in {"none", "rotate", "project", "rebuild"}
      /\ k = "wifi" => flag \in {"keep", "replace", "blind"}
  <2>1. CASE k = "deploy"
    BY <2>1 DEF CliFlag, AllFlags
  <2>2. CASE k # "deploy"
    <3>1. flag \in Flags(k)
      BY <2>2 DEF CliFlag
    <3> QED BY <3>1, FlagsLegal, <2>2
  <2> QED BY <2>1, <2>2
<1>5. PlanInv' /\ Fresh(k, p)
  BY <1>2, <1>3, <1>4, RunsFresh, Zenon
<1> QED BY <1>1, <1>5

LEMMA PollWorkerMoves ==
  ASSUME Typed, PlanInv, PollWorker
  PROVE  /\ PlanInv' /\ UNCHANGED <<front, confirm, quit, tree, engine, card, pi, started>>
         /\ log' = log + worker.lines /\ ~quit /\ front = "page" /\ busy
         /\ \/ /\ worker.run = "running" /\ Same /\ UNCHANGED <<job, hist>> /\ form' = form
               /\ worker' = [worker EXCEPT !.lines = 0]
            \/ /\ worker.run # "running" /\ Off /\ job' = Idle /\ worker' = Free
               /\ form' = [form EXCEPT !.login = IF Switches THEN form.pi ELSE @]
               /\ hist' = [Forgotten EXCEPT !.auto = @ \/ Switches, !.said = hist.said]
<1>1. /\ UNCHANGED <<front, confirm, quit, tree, engine, card, pi, started>>
      /\ log' = log + worker.lines /\ ~quit /\ front = "page" /\ busy
  BY DEF PollWorker, workstation
<1>2. CASE worker.run = "running"
  <2>1. UNCHANGED <<job, hist>> /\ worker' = [worker EXCEPT !.lines = 0]
    BY <1>2 DEF PollWorker
  <2>2. worker'.run = worker.run
    BY <2>1 DEF Typed, Workers
  <2>3. form' = form
    <3>1. ~Switches
      BY <1>2 DEF Switches
    <3>2. form' = [form EXCEPT !.login = form.login]
      BY <3>1 DEF PollWorker
    <3> QED BY <3>2 DEF Typed, Forms
  <2>4. PlanInv' /\ Same
    BY <2>1, <2>2, SameStep
  <2> QED BY <1>1, <1>2, <2>1, <2>3, <2>4
<1>3. CASE worker.run # "running"
  <2>1. /\ job' = Idle /\ worker' = Free
        /\ form' = [form EXCEPT !.login = IF Switches THEN form.pi ELSE @]
        /\ hist' = [Forgotten EXCEPT !.auto = @ \/ Switches, !.said = hist.said]
    BY <1>3 DEF PollWorker
  <2>2. job'.todo = <<>> /\ job'.req.kind = "test"
    BY <2>1, IdleFields
  <2>3. worker'.run = "none"
    BY <2>1 DEF Free
  <2>4. PlanInv' /\ Off
    BY <2>2, <2>3, LastLists DEF PlanInv, Planned, Off, Working
  <2> QED BY <1>1, <1>3, <2>1, <2>4
<1> QED BY <1>2, <1>3

LEMMA QuitMoves ==
  ASSUME Typed, PlanInv, Quit
  PROVE  /\ PlanInv' /\ UNCHANGED <<front, form, tree, engine, card, pi>> /\ ~quit
         /\ \/ Exits /\ Off
            \/ Idles /\ Same /\ confirm' = "quit" /\ UNCHANGED <<log, quit>>
<1>1. UNCHANGED <<front, form, tree, engine, card, pi>> /\ ~quit
  BY DEF Quit, workstation
<1>2. CASE busy
  <2>1. Idles /\ confirm' = "quit" /\ UNCHANGED <<log, quit>>
    BY <1>2 DEF Quit, Idles
  <2>2. PlanInv' /\ Same
    BY <2>1, SameStep DEF Idles
  <2> QED BY <1>1, <2>1, <2>2
<1>3. CASE ~busy
  <2>1. Exits
    BY <1>3 DEF Quit
  <2> QED BY <1>1, <2>1, ExitsMoves
<1> QED BY <1>2, <1>3

LEMMA CliEndMoves ==
  ASSUME (\E k \in Kinds, opts \in SUBSET Options : CliRefused(k, opts)) \/ CliExits
  PROVE  /\ PlanInv' /\ UNCHANGED <<front, form, tree, engine, card, pi>> /\ ~quit
         /\ Exits /\ Off /\ front = "cli"
<1>1. Exits /\ UNCHANGED <<front, form, tree, engine, card, pi>> /\ ~quit /\ front = "cli"
  BY DEF CliRefused, CliExits, workstation
<1> QED BY <1>1, ExitsMoves

\* Every step keeps the types, and every job to its plan.
LEMMA TypedStep ==
  ASSUME Typed, PlanInv, FrontInv, DeployerNext
  PROVE  Typed' /\ PlanInv'
<1>1. CASE Fails
  BY <1>1, FailsTyped, FailsMoves
<1>2. CASE Unstage
  BY <1>2, UnstageTyped, UnstageMoves
<1>3. CASE Report
  BY <1>3, ReportTyped, ReportMoves
<1>4. CASE Finish
  BY <1>4, FinishTyped, FinishMoves
<1>5. CASE CheckCard
  BY <1>5, CheckCardTyped, CheckCardMoves
<1>6. CASE Download
  BY <1>6, DownloadTyped, DownloadMoves
<1>7. CASE Checksum
  BY <1>7, ChecksumTyped, ChecksumMoves
<1>8. CASE WriteOverlay
  BY <1>8, WriteOverlayTyped, WriteOverlayMoves
<1>9. CASE WriteWifi
  BY <1>9, WriteWifiTyped, WriteWifiMoves
<1>10. CASE Emulate
  BY <1>10, EmulateTyped, EmulateMoves
<1>11. CASE Build
  BY <1>11, BuildTyped, BuildMoves
<1>12. CASE Connect
  BY <1>12, ConnectTyped, ConnectMoves
<1>13. CASE Probe
  BY <1>13, ProbeTyped, ProbeMoves
<1>14. CASE Run
  BY <1>14, RunTyped, RunMoves
<1>15. CASE Bootstrap
  BY <1>15, BootstrapTyped, BootstrapMoves
<1>16. CASE Setup
  BY <1>16, SetupTyped, SetupMoves
<1>17. CASE Artifacts
  BY <1>17, ArtifactsTyped, ArtifactsMoves
<1>18. CASE Stage
  BY <1>18, StageTyped, StageMoves
<1>19. CASE Upload
  BY <1>19, UploadTyped, UploadMoves
<1>20. CASE Verify
  BY <1>20, VerifyTyped, VerifyMoves
<1>21. CASE PromoteStage
  BY <1>21, PromoteStageTyped, PromoteStageMoves
<1>22. CASE Install
  BY <1>22, InstallTyped, InstallMoves
<1>23. CASE ReadBanner
  BY <1>23, ReadBannerTyped, ReadBannerMoves
<1>24. CASE NoBanner
  BY <1>24, NoBannerTyped, NoBannerMoves
<1>25. CASE SkipBanner
  BY <1>25, SkipBannerTyped, SkipBannerMoves
<1>26. CASE ReadBootId
  BY <1>26, ReadBootIdTyped, ReadBootIdMoves
<1>27. CASE Reboot
  BY <1>27, RebootTyped, RebootMoves
<1>28. CASE TryAccount
  BY <1>28, TryAccountTyped, TryAccountMoves
<1>29. CASE AwaitAppliance
  BY <1>29, AwaitApplianceTyped, AwaitApplianceMoves
<1>30. CASE NoAppliance
  BY <1>30, NoApplianceTyped, NoApplianceMoves
<1>31. CASE Restart
  BY <1>31, RestartTyped, RestartMoves
<1>32. CASE SetPassword
  BY <1>32, SetPasswordTyped, SetPasswordMoves
<1>33. CASE StartScript
  BY <1>33, StartScriptTyped, StartScriptMoves
<1>34. CASE ReadExit
  BY <1>34, ReadExitTyped, ReadExitMoves
<1>35. CASE Unanswered
  BY <1>35, UnansweredTyped, UnansweredMoves
<1>36. CASE PiStops
  BY <1>36, PiStopsTyped, StillMoves
<1>37. CASE PiBoots
  BY <1>37, PiBootsTyped, StillMoves
<1>38. CASE ContainerPrints
  BY <1>38, ContainerPrintsTyped, StillMoves
<1>39. CASE LosesSession
  BY <1>39, LosesSessionTyped, StillMoves
<1>40. CASE EditTree
  BY <1>40, EditTreeTyped, StillMoves
<1>41. CASE \E k \in Kinds : Press(k)
  <2>0. PICK k \in Kinds : Press(k)
    BY <1>41
  <2>1. /\ PlanInv' /\ UNCHANGED <<front, form, log, quit, tree, engine, card, pi, hist>>
        /\ (Idles /\ Same) \/ (Fresh(k, form.pi) /\ k \notin Asks)
    BY <2>0, PressMoves
  <2>2. CASE Idles
    BY <2>1, <2>2 DEF Idles, Typed
  <2>3. CASE Fresh(k, form.pi)
    <3>1. started' \in Nat
      BY <2>3, FieldTypes DEF Fresh
    <3> QED BY <2>1, <2>3, <3>1 DEF Fresh, Typed
  <2> QED BY <2>1, <2>2, <2>3
<1>42. CASE \E k \in Kinds, opts \in SUBSET Options : CliRuns(k, opts)
  <2>0. PICK k \in Kinds, opts \in SUBSET Options : CliRuns(k, opts)
    BY <1>42
  <2>1. /\ PlanInv' /\ UNCHANGED <<front, form, confirm, log, quit, tree, engine, card, pi>>
        /\ hist' = [hist EXCEPT !.agreed = k] /\ \E p \in Passwords : Fresh(k, p)
    BY <2>0, CliRunsMoves
  <2>2. PICK p \in Passwords : Fresh(k, p)
    BY <2>1
  <2>3. started' \in Nat
    BY <2>2, FieldTypes DEF Fresh
  <2>4. hist' \in Histories
    BY <2>1 DEF Typed, Histories
  <2> QED BY <2>1, <2>2, <2>3, <2>4 DEF Fresh, Typed
<1>43. CASE (\E k \in Kinds, opts \in SUBSET Options : CliRefused(k, opts)) \/ CliExits
  <2>0. /\ PlanInv' /\ UNCHANGED <<front, form, tree, engine, card, pi>> /\ Exits
    BY <1>43, CliEndMoves
  <2>1. Exits
    BY <2>0
  <2>2. Typed'
    <3>1. job' = Idle /\ worker' = Free /\ hist' = Forgotten /\ log' = 0 /\ quit' = TRUE /\ started' = started
      BY <2>1 DEF Exits
    <3>2. Forgotten \in Histories
      BY DEF Forgotten, Typed, Histories
    <3> QED BY <2>0, <3>1, <3>2, IdleTyped DEF Typed
  <2> QED BY <2>0, <2>2
<1>44. CASE Accept
  <2>0. /\ PlanInv' /\ UNCHANGED <<front, form, tree, engine, card, pi>>
        /\ \/ Exits
           \/ Idles /\ UNCHANGED <<log, quit>>
           \/ /\ Fresh(confirm, form.pi) /\ UNCHANGED <<log, quit>> /\ confirm \in Asks
              /\ hist' = [hist EXCEPT !.agreed = confirm, !.auto = @ /\ confirm # "alpine"]
    BY <1>44, AcceptMoves
  <2>1. CASE Exits
    <3>1. job' = Idle /\ worker' = Free /\ hist' = Forgotten /\ log' = 0 /\ quit' = TRUE /\ started' = started
      BY <2>1 DEF Exits
    <3>2. Forgotten \in Histories
      BY DEF Forgotten, Typed, Histories
    <3> QED BY <2>0, <3>1, <3>2, IdleTyped DEF Typed
  <2>2. CASE Idles /\ UNCHANGED <<log, quit>>
    BY <2>0, <2>2 DEF Idles, Typed
  <2>3. CASE /\ Fresh(confirm, form.pi) /\ UNCHANGED <<log, quit>> /\ confirm \in Asks
             /\ hist' = [hist EXCEPT !.agreed = confirm, !.auto = @ /\ confirm # "alpine"]
    <3>1. started' \in Nat
      BY <2>3, FieldTypes DEF Fresh
    <3>2. hist' \in Histories
      BY <2>3 DEF Typed, Histories
    <3> QED BY <2>0, <2>3, <3>1, <3>2 DEF Fresh, Typed
  <2> QED BY <2>0, <2>1, <2>2, <2>3
<1>45. CASE Decline
  BY <1>45, DeclineTyped, StillMoves
<1>46. CASE Quit
  <2>0. /\ PlanInv' /\ UNCHANGED <<front, form, tree, engine, card, pi>>
        /\ Exits \/ (Idles /\ UNCHANGED <<log, quit>>)
    BY <1>46, QuitMoves
  <2>1. CASE Exits
    <3>1. job' = Idle /\ worker' = Free /\ hist' = Forgotten /\ log' = 0 /\ quit' = TRUE /\ started' = started
      BY <2>1 DEF Exits
    <3>2. Forgotten \in Histories
      BY DEF Forgotten, Typed, Histories
    <3> QED BY <2>0, <3>1, <3>2, IdleTyped DEF Typed
  <2>2. CASE Idles /\ UNCHANGED <<log, quit>>
    BY <2>0, <2>2 DEF Idles, Typed
  <2> QED BY <2>0, <2>1, <2>2
<1>47. CASE Cancel
  BY <1>47, CancelTyped, StillMoves
<1>48. CASE \E p \in Passwords, apply \in BOOLEAN : SetFields(p, apply)
  <2>1. PICK p \in Passwords, apply \in BOOLEAN : SetFields(p, apply)
    BY <1>48
  <2>2. form' \in Forms
    BY <2>1 DEF SetFields, Typed, Forms
  <2>3. Typed'
    BY <2>1, <2>2 DEF SetFields, workstation, Typed
  <2> QED BY <1>48, <2>3, StillMoves
<1>49. CASE PollWorker
  <2>0. /\ PlanInv' /\ UNCHANGED <<front, confirm, quit, tree, engine, card, pi, started>>
        /\ log' = log + worker.lines
        /\ \/ /\ UNCHANGED <<job, hist>> /\ form' = form
              /\ worker' = [worker EXCEPT !.lines = 0]
           \/ /\ job' = Idle /\ worker' = Free
              /\ form' = [form EXCEPT !.login = IF Switches THEN form.pi ELSE @]
              /\ hist' = [Forgotten EXCEPT !.auto = @ \/ Switches, !.said = hist.said]
    BY <1>49, PollWorkerMoves
  <2>1. log' \in Nat
    BY <2>0 DEF Typed, Workers
  <2>2. CASE /\ UNCHANGED <<job, hist>> /\ form' = form
             /\ worker' = [worker EXCEPT !.lines = 0]
    <3>1. worker' \in Workers
      BY <2>2 DEF Typed, Workers
    <3> QED BY <2>0, <2>1, <2>2, <3>1 DEF Typed
  <2>3. CASE /\ job' = Idle /\ worker' = Free
             /\ form' = [form EXCEPT !.login = IF Switches THEN form.pi ELSE @]
             /\ hist' = [Forgotten EXCEPT !.auto = @ \/ Switches, !.said = hist.said]
    <3>1. Forgotten \in Histories /\ hist.said \in Nat
      BY DEF Forgotten, Typed, Histories
    <3>2. Switches \in BOOLEAN /\ (Forgotten.auto \/ Switches) \in BOOLEAN
      BY DEF Switches, Typed, Requests, JobStates
    <3>3. hist' \in Histories
      BY <2>3, <3>1, <3>2 DEF Histories
    <3>4. form' \in Forms
      BY <2>3 DEF Typed, Forms, Logins
    <3> QED BY <2>0, <2>1, <2>3, <3>3, <3>4, IdleTyped DEF Typed
  <2> QED BY <2>0, <2>2, <2>3
<1>50. CASE AddNetwork
  BY <1>50, AddNetworkTyped, StillMoves
<1>51. CASE Associate
  BY <1>51, AssociateTyped, StillMoves
<1> QED BY <1>1, <1>2, <1>3, <1>4, <1>5, <1>6, <1>7, <1>8, <1>9, <1>10, <1>11, <1>12, <1>13,
           <1>14, <1>15, <1>16, <1>17, <1>18, <1>19, <1>20, <1>21, <1>22, <1>23, <1>24,
           <1>25, <1>26, <1>27, <1>28, <1>29, <1>30, <1>31, <1>32, <1>33, <1>34, <1>35,
           <1>36, <1>37, <1>38, <1>39, <1>40, <1>41, <1>42, <1>43, <1>44, <1>45, <1>46,
           <1>47, <1>48, <1>49, <1>50, <1>51
       DEF DeployerNext, JobStep, PiStep, Operator

\* What a step of a script, a failure and a command without an answer leave
\* alone.
LEMMA ScriptLeaves ==
  ASSUME Typed, AddNetwork \/ Associate
  PROVE  /\ UNCHANGED <<front, form, confirm, log, quit, worker, job, tree, engine, card, started>>
         /\ UNCHANGED <<pi.boot, pi.sshd, pi.going, pi.accounts, pi.password, pi.staging, pi.stage,
                        pi.release, pi.container, pi.log, pi.hash, pi.supported>>
         /\ UNCHANGED <<hist.said, hist.auto, hist.agreed, hist.made, hist.late, hist.cut, hist.fell,
                        hist.stray>>
<1>1. UNCHANGED <<front, form, confirm, log, quit, worker, job, tree, engine, card, started>>
  BY DEF AddNetwork, Associate, OffJob, view, workstation
<1>2. CASE AddNetwork
  <2>0. PICK s \in pi.scripts, works \in BOOLEAN, old \in SUBSET pi.wifi,
             list \in SUBSET Nat, file \in SUBSET Nat, runs \in SUBSET Scripts, able \in SUBSET Nat :
           Adds(s, works, old, list, file, runs, able)
    BY <1>2, AddNetworkChanges
  <2>1. UNCHANGED <<pi.boot, pi.sshd, pi.going, pi.accounts, pi.password, pi.staging, pi.stage,
                    pi.release, pi.container, pi.log, pi.hash, pi.supported>>
    BY <2>0 DEF Adds, Typed, Pis
  <2>2. UNCHANGED <<hist.said, hist.auto, hist.agreed, hist.made, hist.late, hist.cut, hist.fell,
                    hist.stray>>
    BY SMTT(30), <2>0 DEF Adds, Typed, Histories
  <2> QED BY <1>1, <2>1, <2>2
<1>3. CASE Associate
  <2>1. UNCHANGED <<pi.boot, pi.sshd, pi.going, pi.accounts, pi.password, pi.staging, pi.stage,
                    pi.release, pi.container, pi.log, pi.hash, pi.supported>>
    <3>1. PICK list, file, runs : pi' = [pi EXCEPT !.wifi = list, !.saved = file, !.scripts = runs]
      BY <1>3, AssociateChanges
    <3> QED BY <3>1 DEF Typed, Pis
  <2> QED BY <1>1, <1>3, <2>1 DEF Associate
<1> QED BY SMTT(30), <1>2, <1>3

LEMMA FailedLeaves ==
  ASSUME Typed, Failed
  PROVE  /\ UNCHANGED <<job.req, job.conn, job.boot, worker.lines>>
         /\ worker'.run = worker.run \/ (worker'.run = "failed" /\ job'.todo = <<>>)
<1>1. UNCHANGED <<job.req, job.conn, job.boot>>
  BY DEF Failed, Typed, JobStates
<1>2. worker' = worker \/ (worker' = [worker EXCEPT !.run = "failed"] /\ job'.todo = <<>>)
  BY DEF Failed, Typed, JobStates
<1>3. worker'.lines = worker.lines /\ (worker'.run = worker.run \/ (worker'.run = "failed" /\ job'.todo = <<>>))
  BY <1>2 DEF Typed, Workers
<1> QED BY <1>1, <1>3

LEMMA UnansweredLeaves ==
  ASSUME Typed, Unanswered
  PROVE  /\ UNCHANGED <<pi.boot, pi.sshd, pi.supported, pi.wifi, pi.saved, pi.works>>
         /\ pi.going => pi'.going
         /\ ~At("setup") => pi'.password = pi.password
         /\ ~At("promote") => pi'.release = pi.release
         /\ ~At("stage") /\ ~At("promote") => pi'.staging = pi.staging
         /\ UNCHANGED <<hist.said, hist.auto, hist.agreed, hist.made, hist.late, hist.cut, hist.fell,
                        hist.blind, hist.over>>
<1>1. UNCHANGED <<hist.said, hist.auto, hist.agreed, hist.made, hist.late, hist.cut, hist.fell,
                  hist.blind, hist.over>>
  BY UnansweredAt DEF Typed, Histories
<1> DEFINE Leaves == /\ UNCHANGED <<pi.boot, pi.sshd, pi.supported, pi.wifi, pi.saved, pi.works>>
                     /\ pi.going => pi'.going
                     /\ ~At("setup") => pi'.password = pi.password
                     /\ ~At("promote") => pi'.release = pi.release
                     /\ ~At("stage") /\ ~At("promote") => pi'.staging = pi.staging
<1>2. ASSUME pi' = Bootstrapped PROVE Leaves
  BY <1>2 DEF Bootstrapped, Typed, Pis
<1>3. ASSUME At("setup") /\ \E now \in SUBSET {"pi", "root"} : pi' = SetUp(now) PROVE Leaves
  BY <1>3 DEF SetUp, Typed, Pis
<1>4. ASSUME At("stage") /\ pi' = MadeStage PROVE Leaves
  BY <1>4 DEF MadeStage, Typed, Pis
<1>5. ASSUME \E got \in {tree[job.member], 0} : pi' = Uploaded(got) PROVE Leaves
  BY <1>5 DEF Uploaded, Typed, Pis
<1>6. ASSUME At("promote") /\ pi' = Promoted PROVE Leaves
  BY <1>6 DEF Promoted, Typed, Pis
<1>7. ASSUME \E live, kept \in BOOLEAN : pi' = Installed(live, kept) PROVE Leaves
  BY <1>7 DEF Installed, Typed, Pis
<1>8. ASSUME pi' = Leaving PROVE Leaves
  BY <1>8 DEF Leaving, Typed, Pis
<1>9. ASSUME pi' = Served PROVE Leaves
  BY <1>9 DEF Served, Typed, Pis
<1>10. ASSUME pi' = Secured PROVE Leaves
  BY <1>10 DEF Secured, Typed, Pis
<1>11. Leaves
  BY <1>2, <1>3, <1>4, <1>5, <1>6, <1>7, <1>8, <1>9, <1>10 DEF Unanswered, Does
<1> QED BY <1>1, <1>11

\* A step of the running job.
LEMMA FrontRunning ==
  ASSUME Typed, FrontInv, worker.run = "running", UNCHANGED <<confirm, log, quit, started>>,
         worker'.run = "running" \/ (worker'.run \in {"ok", "failed"} /\ job'.todo = <<>>),
         worker'.lines = worker.lines, hist'.said = hist.said
  PROVE  FrontInv'
BY DEF FrontInv

\* The front end: every line is either in the log or still to be polled.
LEMMA FrontStep ==
  ASSUME Typed, PlanInv, FrontInv, DeployerNext
  PROVE  FrontInv'
<1>1. CASE Fails
  <2>1. worker.run = "running" /\ UNCHANGED <<confirm, log, quit, started>>
    BY <1>1 DEF Fails, Failed, Does, At, Others, view
  <2>2. worker'.run = "running" \/ (worker'.run \in {"ok", "failed"} /\ job'.todo = <<>>)
    BY <1>1, <2>1 DEF Fails, Failed, Others, Typed, Workers, JobStates
  <2>3. worker'.lines = worker.lines /\ hist'.said = hist.said
    BY <1>1 DEF Fails, Failed, Others, Typed, Workers, Histories
  <2> QED BY <2>1, <2>2, <2>3, FrontRunning
<1>2. CASE Unstage
  <2>1. worker.run = "running" /\ UNCHANGED <<confirm, log, quit, started>>
    BY <1>2 DEF Unstage, Does, At, Others, view
  <2>2. worker'.run = "running" \/ (worker'.run \in {"ok", "failed"} /\ job'.todo = <<>>)
    BY <1>2, <2>1 DEF Unstage, Others, Typed, Workers, JobStates
  <2>3. worker'.lines = worker.lines /\ hist'.said = hist.said
    BY <1>2 DEF Unstage, Others, Typed, Workers, Histories
  <2> QED BY <2>1, <2>2, <2>3, FrontRunning
<1>3. CASE Report
  <2>1. /\ worker.run = "running" /\ UNCHANGED <<confirm, log, quit, started>>
        /\ worker'.run = "running" /\ worker'.lines = worker.lines + 1 /\ hist'.said = hist.said + 1
    BY <1>3 DEF Report, view, Typed, Workers, Histories
  <2>2. log + worker'.lines = hist'.said
    BY <2>1 DEF FrontInv, Typed, Workers, Histories
  <2> QED BY <2>1, <2>2 DEF FrontInv
<1>4. CASE Finish
  <2>1. worker.run = "running" /\ UNCHANGED <<confirm, log, quit, started>>
    BY <1>4 DEF Finish, Does, At, Others, view
  <2>2. worker'.run = "running" \/ (worker'.run \in {"ok", "failed"} /\ job'.todo = <<>>)
    BY <1>4, <2>1 DEF Finish, Others, Typed, Workers, JobStates
  <2>3. worker'.lines = worker.lines /\ hist'.said = hist.said
    BY <1>4 DEF Finish, Others, Typed, Workers, Histories
  <2> QED BY <2>1, <2>2, <2>3, FrontRunning
<1>5. CASE CheckCard
  <2>1. worker.run = "running" /\ UNCHANGED <<confirm, log, quit, started>>
    BY <1>5 DEF CheckCard, Does, At, Others, view
  <2>2. worker'.run = "running" \/ (worker'.run \in {"ok", "failed"} /\ job'.todo = <<>>)
    BY <1>5, <2>1 DEF CheckCard, Others, Typed, Workers, JobStates
  <2>3. worker'.lines = worker.lines /\ hist'.said = hist.said
    BY <1>5 DEF CheckCard, Others, Typed, Workers, Histories
  <2> QED BY <2>1, <2>2, <2>3, FrontRunning
<1>6. CASE Download
  <2>1. worker.run = "running" /\ UNCHANGED <<confirm, log, quit, started>>
    BY <1>6 DEF Download, Does, At, Others, view
  <2>2. worker'.run = "running" \/ (worker'.run \in {"ok", "failed"} /\ job'.todo = <<>>)
    BY <1>6, <2>1 DEF Download, Others, Typed, Workers, JobStates
  <2>3. worker'.lines = worker.lines /\ hist'.said = hist.said
    BY <1>6 DEF Download, Others, Typed, Workers, Histories
  <2> QED BY <2>1, <2>2, <2>3, FrontRunning
<1>7. CASE Checksum
  <2>1. worker.run = "running" /\ UNCHANGED <<confirm, log, quit, started>>
    BY <1>7 DEF Checksum, Does, At, Others, view
  <2>2. worker'.run = "running" \/ (worker'.run \in {"ok", "failed"} /\ job'.todo = <<>>)
    BY <1>7, <2>1 DEF Checksum, Others, Typed, Workers, JobStates
  <2>3. worker'.lines = worker.lines /\ hist'.said = hist.said
    BY <1>7 DEF Checksum, Others, Typed, Workers, Histories
  <2> QED BY <2>1, <2>2, <2>3, FrontRunning
<1>8. CASE WriteOverlay
  <2>1. worker.run = "running" /\ UNCHANGED <<confirm, log, quit, started>>
    BY <1>8 DEF WriteOverlay, Does, At, Others, view, Writes
  <2>2. worker'.run = "running" \/ (worker'.run \in {"ok", "failed"} /\ job'.todo = <<>>)
    BY <1>8, <2>1 DEF WriteOverlay, Others, Typed, Workers, JobStates, Writes
  <2>3. worker'.lines = worker.lines /\ hist'.said = hist.said
    BY <1>8 DEF WriteOverlay, Others, Typed, Workers, Histories, Writes
  <2> QED BY <2>1, <2>2, <2>3, FrontRunning
<1>9. CASE WriteWifi
  <2>1. worker.run = "running" /\ UNCHANGED <<confirm, log, quit, started>>
    BY <1>9 DEF WriteWifi, Does, At, Others, view, Writes
  <2>2. worker'.run = "running" \/ (worker'.run \in {"ok", "failed"} /\ job'.todo = <<>>)
    BY <1>9, <2>1 DEF WriteWifi, Others, Typed, Workers, JobStates, Writes
  <2>3. worker'.lines = worker.lines /\ hist'.said = hist.said
    BY <1>9 DEF WriteWifi, Others, Typed, Workers, Histories, Writes
  <2> QED BY <2>1, <2>2, <2>3, FrontRunning
<1>10. CASE Emulate
  <2>1. worker.run = "running" /\ UNCHANGED <<confirm, log, quit, started>>
    BY <1>10 DEF Emulate, Does, At, Others, view
  <2>2. worker'.run = "running" \/ (worker'.run \in {"ok", "failed"} /\ job'.todo = <<>>)
    BY <1>10, <2>1 DEF Emulate, Others, Typed, Workers, JobStates
  <2>3. worker'.lines = worker.lines /\ hist'.said = hist.said
    BY <1>10 DEF Emulate, Others, Typed, Workers, Histories
  <2> QED BY <2>1, <2>2, <2>3, FrontRunning
<1>11. CASE Build
  <2>1. worker.run = "running" /\ UNCHANGED <<confirm, log, quit, started>>
    BY <1>11 DEF Build, Does, At, Others, view
  <2>2. worker'.run = "running" \/ (worker'.run \in {"ok", "failed"} /\ job'.todo = <<>>)
    BY <1>11, <2>1 DEF Build, Others, Typed, Workers, JobStates
  <2>3. worker'.lines = worker.lines /\ hist'.said = hist.said
    BY <1>11 DEF Build, Others, Typed, Workers, Histories
  <2> QED BY <2>1, <2>2, <2>3, FrontRunning
<1>12. CASE Connect
  <2>1. worker.run = "running" /\ UNCHANGED <<confirm, log, quit, started>>
    BY <1>12 DEF Connect, Does, At, Others, view
  <2>2. worker'.run = "running" \/ (worker'.run \in {"ok", "failed"} /\ job'.todo = <<>>)
    BY <1>12, <2>1 DEF Connect, Others, Typed, Workers, JobStates
  <2>3. worker'.lines = worker.lines /\ hist'.said = hist.said
    BY <1>12 DEF Connect, Others, Typed, Workers, Histories
  <2> QED BY <2>1, <2>2, <2>3, FrontRunning
<1>13. CASE Probe
  <2>1. worker.run = "running" /\ UNCHANGED <<confirm, log, quit, started>>
    BY <1>13 DEF Probe, Does, At, Others, view
  <2>2. worker'.run = "running" \/ (worker'.run \in {"ok", "failed"} /\ job'.todo = <<>>)
    BY <1>13, <2>1 DEF Probe, Others, Typed, Workers, JobStates
  <2>3. worker'.lines = worker.lines /\ hist'.said = hist.said
    BY <1>13 DEF Probe, Others, Typed, Workers, Histories
  <2> QED BY <2>1, <2>2, <2>3, FrontRunning
<1>14. CASE Run
  <2>1. worker.run = "running" /\ UNCHANGED <<confirm, log, quit, started>>
    BY <1>14 DEF Run, Does, At, Others, view
  <2>2. worker'.run = "running" \/ (worker'.run \in {"ok", "failed"} /\ job'.todo = <<>>)
    BY <1>14, <2>1 DEF Run, Others, Typed, Workers, JobStates
  <2>3. worker'.lines = worker.lines /\ hist'.said = hist.said
    BY <1>14 DEF Run, Others, Typed, Workers, Histories
  <2> QED BY <2>1, <2>2, <2>3, FrontRunning
<1>15. CASE Bootstrap
  <2>1. worker.run = "running" /\ UNCHANGED <<confirm, log, quit, started>>
    BY <1>15 DEF Bootstrap, Bootstrapped, Does, At, Others, view
  <2>2. worker'.run = "running" \/ (worker'.run \in {"ok", "failed"} /\ job'.todo = <<>>)
    BY <1>15, <2>1 DEF Bootstrap, Bootstrapped, Others, Typed, Workers, JobStates
  <2>3. worker'.lines = worker.lines /\ hist'.said = hist.said
    BY <1>15 DEF Bootstrap, Bootstrapped, Others, Typed, Workers, Histories
  <2> QED BY <2>1, <2>2, <2>3, FrontRunning
<1>16. CASE Setup
  <2>1. worker.run = "running" /\ UNCHANGED <<confirm, log, quit, started>>
    BY <1>16 DEF Setup, SetUp, Does, At, Others, view
  <2>2. worker'.run = "running" \/ (worker'.run \in {"ok", "failed"} /\ job'.todo = <<>>)
    BY <1>16, <2>1 DEF Setup, SetUp, Others, Typed, Workers, JobStates
  <2>3. worker'.lines = worker.lines /\ hist'.said = hist.said
    BY <1>16 DEF Setup, SetUp, Others, Typed, Workers, Histories
  <2> QED BY <2>1, <2>2, <2>3, FrontRunning
<1>17. CASE Artifacts
  <2>1. worker.run = "running" /\ UNCHANGED <<confirm, log, quit, started>>
    BY <1>17 DEF Artifacts, Does, At, Others, view
  <2>2. worker'.run = "running" \/ (worker'.run \in {"ok", "failed"} /\ job'.todo = <<>>)
    BY <1>17, <2>1 DEF Artifacts, Others, Typed, Workers, JobStates
  <2>3. worker'.lines = worker.lines /\ hist'.said = hist.said
    BY <1>17 DEF Artifacts, Others, Typed, Workers, Histories
  <2> QED BY <2>1, <2>2, <2>3, FrontRunning
<1>18. CASE Stage
  <2>1. worker.run = "running" /\ UNCHANGED <<confirm, log, quit, started>>
    BY <1>18 DEF Stage, MadeStage, Does, At, Others, view
  <2>2. worker'.run = "running" \/ (worker'.run \in {"ok", "failed"} /\ job'.todo = <<>>)
    BY <1>18, <2>1 DEF Stage, MadeStage, Others, Typed, Workers, JobStates
  <2>3. worker'.lines = worker.lines /\ hist'.said = hist.said
    BY <1>18 DEF Stage, MadeStage, Others, Typed, Workers, Histories
  <2> QED BY <2>1, <2>2, <2>3, FrontRunning
<1>19. CASE Upload
  <2>1. worker.run = "running" /\ UNCHANGED <<confirm, log, quit, started>>
    BY <1>19 DEF Upload, Uploaded, Does, At, Others, view
  <2>2. worker'.run = "running" \/ (worker'.run \in {"ok", "failed"} /\ job'.todo = <<>>)
    BY <1>19, <2>1 DEF Upload, Uploaded, Others, Typed, Workers, JobStates
  <2>3. worker'.lines = worker.lines /\ hist'.said = hist.said
    BY <1>19 DEF Upload, Uploaded, Others, Typed, Workers, Histories
  <2> QED BY <2>1, <2>2, <2>3, FrontRunning
<1>20. CASE Verify
  <2>1. worker.run = "running" /\ UNCHANGED <<confirm, log, quit, started>>
    BY <1>20 DEF Verify, Does, At, Others, view
  <2>2. worker'.run = "running" \/ (worker'.run \in {"ok", "failed"} /\ job'.todo = <<>>)
    BY <1>20, <2>1 DEF Verify, Others, Typed, Workers, JobStates
  <2>3. worker'.lines = worker.lines /\ hist'.said = hist.said
    BY <1>20 DEF Verify, Others, Typed, Workers, Histories
  <2> QED BY <2>1, <2>2, <2>3, FrontRunning
<1>21. CASE PromoteStage
  <2>1. worker.run = "running" /\ UNCHANGED <<confirm, log, quit, started>>
    BY <1>21 DEF PromoteStage, Promoted, Does, At, Others, view
  <2>2. worker'.run = "running" \/ (worker'.run \in {"ok", "failed"} /\ job'.todo = <<>>)
    BY <1>21, <2>1 DEF PromoteStage, Promoted, Others, Typed, Workers, JobStates
  <2>3. worker'.lines = worker.lines /\ hist'.said = hist.said
    BY <1>21 DEF PromoteStage, Promoted, Others, Typed, Workers, Histories
  <2> QED BY <2>1, <2>2, <2>3, FrontRunning
<1>22. CASE Install
  <2>1. worker.run = "running" /\ UNCHANGED <<confirm, log, quit, started>>
    BY <1>22 DEF Install, Installed, Does, At, Others, view
  <2>2. worker'.run = "running" \/ (worker'.run \in {"ok", "failed"} /\ job'.todo = <<>>)
    BY <1>22, <2>1 DEF Install, Installed, Others, Typed, Workers, JobStates
  <2>3. worker'.lines = worker.lines /\ hist'.said = hist.said
    BY <1>22 DEF Install, Installed, Others, Typed, Workers, Histories
  <2> QED BY <2>1, <2>2, <2>3, FrontRunning
<1>23. CASE ReadBanner
  <2>1. worker.run = "running" /\ UNCHANGED <<confirm, log, quit, started>>
    BY <1>23 DEF ReadBanner, Told, Does, At, Others, view
  <2>2. worker'.run = "running" \/ (worker'.run \in {"ok", "failed"} /\ job'.todo = <<>>)
    BY <1>23, <2>1 DEF ReadBanner, Told, Others, Typed, Workers, JobStates
  <2>3. worker'.lines = worker.lines /\ hist'.said = hist.said
    BY <1>23 DEF ReadBanner, Told, Others, Typed, Workers, Histories
  <2> QED BY <2>1, <2>2, <2>3, FrontRunning
<1>24. CASE NoBanner
  <2>1. worker.run = "running" /\ UNCHANGED <<confirm, log, quit, started>>
    BY <1>24 DEF NoBanner, Told, Does, At, Others, view
  <2>2. worker'.run = "running" \/ (worker'.run \in {"ok", "failed"} /\ job'.todo = <<>>)
    BY <1>24, <2>1 DEF NoBanner, Told, Others, Typed, Workers, JobStates
  <2>3. worker'.lines = worker.lines /\ hist'.said = hist.said
    BY <1>24 DEF NoBanner, Told, Others, Typed, Workers, Histories
  <2> QED BY <2>1, <2>2, <2>3, FrontRunning
<1>25. CASE SkipBanner
  <2>1. worker.run = "running" /\ UNCHANGED <<confirm, log, quit, started>>
    BY <1>25 DEF SkipBanner, Told, Does, At, Others, view
  <2>2. worker'.run = "running" \/ (worker'.run \in {"ok", "failed"} /\ job'.todo = <<>>)
    BY <1>25, <2>1 DEF SkipBanner, Told, Others, Typed, Workers, JobStates
  <2>3. worker'.lines = worker.lines /\ hist'.said = hist.said
    BY <1>25 DEF SkipBanner, Told, Others, Typed, Workers, Histories
  <2> QED BY <2>1, <2>2, <2>3, FrontRunning
<1>26. CASE ReadBootId
  <2>1. worker.run = "running" /\ UNCHANGED <<confirm, log, quit, started>>
    BY <1>26 DEF ReadBootId, Does, At, Others, view
  <2>2. worker'.run = "running" \/ (worker'.run \in {"ok", "failed"} /\ job'.todo = <<>>)
    BY <1>26, <2>1 DEF ReadBootId, Others, Typed, Workers, JobStates
  <2>3. worker'.lines = worker.lines /\ hist'.said = hist.said
    BY <1>26 DEF ReadBootId, Others, Typed, Workers, Histories
  <2> QED BY <2>1, <2>2, <2>3, FrontRunning
<1>27. CASE Reboot
  <2>1. worker.run = "running" /\ UNCHANGED <<confirm, log, quit, started>>
    BY <1>27 DEF Reboot, Leaving, Does, At, Others, view
  <2>2. worker'.run = "running" \/ (worker'.run \in {"ok", "failed"} /\ job'.todo = <<>>)
    BY <1>27, <2>1 DEF Reboot, Leaving, Others, Typed, Workers, JobStates
  <2>3. worker'.lines = worker.lines /\ hist'.said = hist.said
    BY <1>27 DEF Reboot, Leaving, Others, Typed, Workers, Histories
  <2> QED BY <2>1, <2>2, <2>3, FrontRunning
<1>28. CASE TryAccount
  <2>1. worker.run = "running" /\ UNCHANGED <<confirm, log, quit, started>>
    BY <1>28 DEF TryAccount, Accepts, Does, At, Others, view
  <2>2. worker'.run = "running" \/ (worker'.run \in {"ok", "failed"} /\ job'.todo = <<>>)
    BY <1>28, <2>1 DEF TryAccount, Accepts, Others, Typed, Workers, JobStates
  <2>3. worker'.lines = worker.lines /\ hist'.said = hist.said
    BY <1>28 DEF TryAccount, Accepts, Others, Typed, Workers, Histories
  <2> QED BY <2>1, <2>2, <2>3, FrontRunning
<1>29. CASE AwaitAppliance
  <2>1. worker.run = "running" /\ UNCHANGED <<confirm, log, quit, started>>
    BY <1>29 DEF AwaitAppliance, Does, At, Others, view
  <2>2. worker'.run = "running" \/ (worker'.run \in {"ok", "failed"} /\ job'.todo = <<>>)
    BY <1>29, <2>1 DEF AwaitAppliance, Others, Typed, Workers, JobStates
  <2>3. worker'.lines = worker.lines /\ hist'.said = hist.said
    BY <1>29 DEF AwaitAppliance, Others, Typed, Workers, Histories
  <2> QED BY <2>1, <2>2, <2>3, FrontRunning
<1>30. CASE NoAppliance
  <2>1. worker.run = "running" /\ UNCHANGED <<confirm, log, quit, started>>
    BY <1>30 DEF NoAppliance, Does, At, Others, view
  <2>2. worker'.run = "running" \/ (worker'.run \in {"ok", "failed"} /\ job'.todo = <<>>)
    BY <1>30, <2>1 DEF NoAppliance, Others, Typed, Workers, JobStates
  <2>3. worker'.lines = worker.lines /\ hist'.said = hist.said
    BY <1>30 DEF NoAppliance, Others, Typed, Workers, Histories
  <2> QED BY <2>1, <2>2, <2>3, FrontRunning
<1>31. CASE Restart
  <2>1. worker.run = "running" /\ UNCHANGED <<confirm, log, quit, started>>
    BY <1>31 DEF Restart, Served, Restarted, Does, At, Others, view
  <2>2. worker'.run = "running" \/ (worker'.run \in {"ok", "failed"} /\ job'.todo = <<>>)
    BY <1>31, <2>1 DEF Restart, Served, Restarted, Others, Typed, Workers, JobStates
  <2>3. worker'.lines = worker.lines /\ hist'.said = hist.said
    BY <1>31 DEF Restart, Served, Restarted, Others, Typed, Workers, Histories
  <2> QED BY <2>1, <2>2, <2>3, FrontRunning
<1>32. CASE SetPassword
  <2>1. worker.run = "running" /\ UNCHANGED <<confirm, log, quit, started>>
    BY <1>32 DEF SetPassword, Secured, Does, At, Others, view
  <2>2. worker'.run = "running" \/ (worker'.run \in {"ok", "failed"} /\ job'.todo = <<>>)
    BY <1>32, <2>1 DEF SetPassword, Secured, Others, Typed, Workers, JobStates
  <2>3. worker'.lines = worker.lines /\ hist'.said = hist.said
    BY <1>32 DEF SetPassword, Secured, Others, Typed, Workers, Histories
  <2> QED BY <2>1, <2>2, <2>3, FrontRunning
<1>33. CASE StartScript
  <2>1. worker.run = "running" /\ UNCHANGED <<confirm, log, quit, started>>
    BY <1>33 DEF StartScript, Does, At, Others, view
  <2>2. worker'.run = "running" \/ (worker'.run \in {"ok", "failed"} /\ job'.todo = <<>>)
    BY <1>33, <2>1 DEF StartScript, Others, Typed, Workers, JobStates
  <2>3. worker'.lines = worker.lines /\ hist'.said = hist.said
    BY <1>33 DEF StartScript, Others, Typed, Workers, Histories
  <2> QED BY <2>1, <2>2, <2>3, FrontRunning
<1>34. CASE ReadExit
  <2>1. worker.run = "running" /\ UNCHANGED <<confirm, log, quit, started>>
    BY <1>34 DEF ReadExit, Does, At, Others, view
  <2>2. worker'.run = "running" \/ (worker'.run \in {"ok", "failed"} /\ job'.todo = <<>>)
    BY <1>34, <2>1 DEF ReadExit, Others, Typed, Workers, JobStates
  <2>3. worker'.lines = worker.lines /\ hist'.said = hist.said
    BY <1>34 DEF ReadExit, Others, Typed, Workers, Histories
  <2> QED BY <2>1, <2>2, <2>3, FrontRunning
<1>35. CASE Unanswered
  <2>1. worker.run = "running" /\ UNCHANGED <<confirm, log, quit, started>> /\ hist'.said = hist.said
    BY <1>35, UnansweredAt, UnansweredLeaves DEF At
  <2>2. /\ worker'.run = "running" \/ (worker'.run \in {"ok", "failed"} /\ job'.todo = <<>>)
        /\ worker'.lines = worker.lines
    BY <1>35, <2>1, UnansweredAt, FailedLeaves
  <2> QED BY <2>1, <2>2, FrontRunning
<1>36. CASE PiStops
  <2>1. /\ UNCHANGED <<confirm, log, quit, started>> /\ worker'.run = worker.run
        /\ worker'.lines = worker.lines /\ hist'.said = hist.said
    BY <1>36 DEF PiStops, view, Typed, Workers, Histories
  <2>2. job'.todo = job.todo
    BY <1>36 DEF PiStops, Typed, JobStates
  <2>3. worker.run # "none" \/ (job' = job /\ worker' = worker)
    BY <1>36 DEF PiStops
  <2> QED BY <2>1, <2>2, <2>3 DEF FrontInv
<1>37. CASE PiBoots
  <2>1. /\ UNCHANGED <<confirm, log, quit, started>> /\ worker'.run = worker.run
        /\ worker'.lines = worker.lines /\ hist'.said = hist.said
    BY <1>37 DEF PiBoots, view, Typed, Workers, Histories
  <2>2. job'.todo = job.todo
    BY <1>37 DEF PiBoots, Typed, JobStates
  <2>3. worker.run # "none" \/ (job' = job /\ worker' = worker)
    BY <1>37 DEF PiBoots
  <2> QED BY <2>1, <2>2, <2>3 DEF FrontInv
<1>38. CASE ContainerPrints
  <2>1. /\ UNCHANGED <<confirm, log, quit, started>> /\ worker'.run = worker.run
        /\ worker'.lines = worker.lines /\ hist'.said = hist.said
    BY <1>38 DEF ContainerPrints, view, Typed, Workers, Histories
  <2>2. job'.todo = job.todo
    BY <1>38 DEF ContainerPrints, Typed, JobStates
  <2>3. worker.run # "none" \/ (job' = job /\ worker' = worker)
    BY <1>38 DEF ContainerPrints
  <2> QED BY <2>1, <2>2, <2>3 DEF FrontInv
<1>39. CASE LosesSession
  <2>1. /\ UNCHANGED <<confirm, log, quit, started>> /\ worker'.run = worker.run
        /\ worker'.lines = worker.lines /\ hist'.said = hist.said
    BY <1>39 DEF LosesSession, view, Typed, Workers, Histories
  <2>2. job'.todo = job.todo
    BY <1>39 DEF LosesSession, Typed, JobStates
  <2>3. worker.run # "none" \/ (job' = job /\ worker' = worker)
    BY <1>39 DEF LosesSession
  <2> QED BY <2>1, <2>2, <2>3 DEF FrontInv
<1>40. CASE EditTree
  <2>1. /\ UNCHANGED <<confirm, log, quit, started>> /\ worker'.run = worker.run
        /\ worker'.lines = worker.lines /\ hist'.said = hist.said
    BY <1>40 DEF EditTree, view, Typed, Workers, Histories
  <2>2. job'.todo = job.todo
    BY <1>40 DEF EditTree, Typed, JobStates
  <2>3. worker.run # "none" \/ (job' = job /\ worker' = worker)
    BY <1>40 DEF EditTree
  <2> QED BY <2>1, <2>2, <2>3 DEF FrontInv
<1>41. CASE \E k \in Kinds : Press(k)
  <2>1. PICK k \in Kinds : Press(k)
    BY <1>41
  <2>0. /\ UNCHANGED <<log, quit, hist>> /\ confirm' \in {confirm} \cup Asks /\ ~quit
        /\ Idles \/ Fresh(k, form.pi)
    BY <2>1, PressMoves
  <2>2. CASE Idles
    BY <2>0, <2>2 DEF Idles, FrontInv
  <2>3. CASE Fresh(k, form.pi)
    <3>1. started' # 0
      BY <2>3, FieldTypes DEF Fresh
    <3>2. log + 0 = hist.said
      BY <2>3 DEF FrontInv, Fresh, Free, Typed
    <3> QED BY <2>0, <2>3, <3>1, <3>2 DEF FrontInv, Fresh
  <2> QED BY <2>0, <2>2, <2>3
<1>42. CASE \E k \in Kinds, opts \in SUBSET Options : CliRuns(k, opts)
  <2>1. PICK k \in Kinds, opts \in SUBSET Options : CliRuns(k, opts)
    BY <1>42
  <2>2. /\ UNCHANGED <<confirm, log, quit>> /\ ~quit /\ hist' = [hist EXCEPT !.agreed = k]
        /\ \E p \in Passwords : Fresh(k, p)
    BY <2>1, CliRunsMoves
  <2>3. PICK p \in Passwords : Fresh(k, p)
    BY <2>2
  <2>0. UNCHANGED <<confirm, log, quit>> /\ ~quit /\ hist'.said = hist.said
    BY <2>2 DEF Typed, Histories
  <2> QED
    <3>1. started' # 0
      BY <2>3, FieldTypes DEF Fresh
    <3>2. log + 0 = hist.said
      BY <2>3 DEF FrontInv, Fresh, Free, Typed
    <3> QED BY <2>0, <2>3, <3>1, <3>2 DEF FrontInv, Fresh
<1>43. CASE (\E k \in Kinds, opts \in SUBSET Options : CliRefused(k, opts)) \/ CliExits
  <2>1. Exits
    BY <1>43, CliEndMoves
  <2> QED
    <3>1. /\ job' = Idle /\ worker' = Free /\ log' = 0 /\ hist'.said = 0 /\ confirm' = "none"
      BY <2>1 DEF Exits, Forgotten, Typed, Histories
    <3> QED BY <3>1 DEF FrontInv, Free
<1>44. CASE Accept
  <2>0. /\ confirm' = "none" /\ ~quit
        /\ \/ Exits
           \/ Idles /\ UNCHANGED <<log, quit>>
           \/ /\ Fresh(confirm, form.pi) /\ UNCHANGED <<log, quit>>
              /\ hist' = [hist EXCEPT !.agreed = confirm, !.auto = @ /\ confirm # "alpine"]
    BY <1>44, AcceptMoves
  <2>1. CASE Exits
    <3>1. /\ job' = Idle /\ worker' = Free /\ log' = 0 /\ hist'.said = 0 /\ confirm' = "none"
      BY <2>1 DEF Exits, Forgotten, Typed, Histories
    <3> QED BY <3>1 DEF FrontInv, Free
  <2>2. CASE Idles /\ UNCHANGED <<log, quit>>
    BY <2>0, <2>2 DEF Idles, FrontInv
  <2>3. CASE /\ Fresh(confirm, form.pi) /\ UNCHANGED <<log, quit>>
             /\ hist' = [hist EXCEPT !.agreed = confirm, !.auto = @ /\ confirm # "alpine"]
    <3>3. hist'.said = hist.said
      BY <2>3 DEF Typed, Histories
    <3>1. started' # 0
      BY <2>3, FieldTypes DEF Fresh
    <3>2. log + 0 = hist.said
      BY <2>3 DEF FrontInv, Fresh, Free, Typed
    <3> QED BY <2>0, <2>3, <3>1, <3>2, <3>3 DEF FrontInv, Fresh
  <2> QED BY <2>0, <2>1, <2>2, <2>3
<1>45. CASE Decline
  BY <1>45 DEF Decline, FrontInv
<1>46. CASE Quit
  <2>0. Exits \/ (Idles /\ confirm' = "quit" /\ UNCHANGED <<log, quit>>)
    BY <1>46, QuitMoves
  <2>1. CASE Exits
    <3>1. /\ job' = Idle /\ worker' = Free /\ log' = 0 /\ hist'.said = 0 /\ confirm' = "none"
      BY <2>1 DEF Exits, Forgotten, Typed, Histories
    <3> QED BY <3>1 DEF FrontInv, Free
  <2>2. CASE Idles /\ confirm' = "quit" /\ UNCHANGED <<log, quit>>
    BY <2>2 DEF Idles, FrontInv
  <2> QED BY <2>0, <2>1, <2>2
<1>47. CASE Cancel
  <2>1. /\ UNCHANGED <<confirm, log, quit, started>> /\ worker'.run = worker.run
        /\ worker'.lines = worker.lines /\ hist'.said = hist.said
    BY <1>47 DEF Cancel, view, Typed, Workers, Histories
  <2>2. job'.todo = job.todo
    BY <1>47 DEF Cancel, Typed, JobStates
  <2>3. worker.run # "none" \/ (job' = job /\ worker' = worker)
    BY <1>47 DEF Cancel
  <2> QED BY <2>1, <2>2, <2>3 DEF FrontInv
<1>48. CASE \E p \in Passwords, apply \in BOOLEAN : SetFields(p, apply)
  BY <1>48 DEF SetFields, FrontInv
<1>49. CASE PollWorker
  <2>0. /\ UNCHANGED <<confirm, quit, started>> /\ log' = log + worker.lines /\ ~quit
        /\ \/ /\ worker.run = "running" /\ UNCHANGED <<job, hist>>
              /\ worker' = [worker EXCEPT !.lines = 0]
           \/ /\ job' = Idle /\ worker' = Free
              /\ hist' = [Forgotten EXCEPT !.auto = @ \/ Switches, !.said = hist.said]
    BY <1>49, PollWorkerMoves
  <2>1. CASE /\ worker.run = "running" /\ UNCHANGED <<job, hist>>
             /\ worker' = [worker EXCEPT !.lines = 0]
    <3>1. worker'.run = "running" /\ worker'.lines = 0
      BY <2>1 DEF Typed, Workers
    <3>2. log' + worker'.lines = hist'.said
      BY <2>0, <2>1, <3>1 DEF FrontInv, Typed, Workers
    <3> QED BY <2>0, <2>1, <3>1, <3>2 DEF FrontInv
  <2>2. CASE /\ job' = Idle /\ worker' = Free
             /\ hist' = [Forgotten EXCEPT !.auto = @ \/ Switches, !.said = hist.said]
    <3>1. hist'.said = hist.said
      BY <2>2 DEF Forgotten, Typed, Histories
    <3>2. worker'.run = "none" /\ worker'.lines = 0
      BY <2>2 DEF Free
    <3>3. log' + worker'.lines = hist'.said
      BY <2>0, <3>1, <3>2 DEF FrontInv, Typed, Workers
    <3> QED BY <2>0, <2>2, <3>2, <3>3 DEF FrontInv
  <2> QED BY <2>0, <2>1, <2>2
<1>50. CASE AddNetwork \/ Associate
  <2>1. UNCHANGED <<confirm, log, quit, started, worker, job, hist.said>>
    BY <1>50, ScriptLeaves
  <2> QED BY <2>1 DEF FrontInv
<1> QED BY <1>1, <1>2, <1>3, <1>4, <1>5, <1>6, <1>7, <1>8, <1>9, <1>10, <1>11, <1>12, <1>13,
           <1>14, <1>15, <1>16, <1>17, <1>18, <1>19, <1>20, <1>21, <1>22, <1>23, <1>24,
           <1>25, <1>26, <1>27, <1>28, <1>29, <1>30, <1>31, <1>32, <1>33, <1>34, <1>35,
           <1>36, <1>37, <1>38, <1>39, <1>40, <1>41, <1>42, <1>43, <1>44, <1>45, <1>46,
           <1>47, <1>48, <1>49, <1>50
       DEF DeployerNext, JobStep, PiStep, Operator

\* The step moves the job past no step of S.
Moved(S) == Same \/ Off \/ \E s \in StepNames \ S : Forward(s)

\* A step that leaves the profiles alone.
LEMMA WifiQuiet ==
  ASSUME WifiInv, UNCHANGED <<pi.wifi, pi.saved, pi.works, hist.blind, hist.over>>
  PROVE  WifiInv'
BY DEF WifiInv

\* A profile that connects stays saved: replacing the others waits for the new one.
LEMMA WifiStep ==
  ASSUME Typed, PlanInv, FrontInv, WifiInv, DeployerNext
  PROVE  WifiInv'
<1>1. CASE Fails
  <2>1. UNCHANGED <<pi.wifi, pi.saved, pi.works, hist.blind, hist.over>>
    BY <1>1 DEF Fails, Failed, Others, view, workstation, Typed, Pis, Histories
  <2> QED BY <2>1, WifiQuiet
<1>2. CASE Unstage
  <2>1. UNCHANGED <<pi.wifi, pi.saved, pi.works, hist.blind, hist.over>>
    BY <1>2 DEF Unstage, Others, view, workstation, Typed, Pis, Histories
  <2> QED BY <2>1, WifiQuiet
<1>3. CASE Report
  <2>1. UNCHANGED <<pi.wifi, pi.saved, pi.works, hist.blind, hist.over>>
    BY <1>3 DEF Report, Others, view, workstation, Typed, Pis, Histories
  <2> QED BY <2>1, WifiQuiet
<1>4. CASE Finish
  <2>1. UNCHANGED <<pi.wifi, pi.saved, pi.works, hist.blind, hist.over>>
    BY <1>4 DEF Finish, Others, view, workstation, Typed, Pis, Histories
  <2> QED BY <2>1, WifiQuiet
<1>5. CASE CheckCard
  <2>1. UNCHANGED <<pi.wifi, pi.saved, pi.works, hist.blind, hist.over>>
    BY <1>5 DEF CheckCard, Others, view, workstation, Typed, Pis, Histories
  <2> QED BY <2>1, WifiQuiet
<1>6. CASE Download
  <2>1. UNCHANGED <<pi.wifi, pi.saved, pi.works, hist.blind, hist.over>>
    BY <1>6 DEF Download, Others, view, workstation, Typed, Pis, Histories
  <2> QED BY <2>1, WifiQuiet
<1>7. CASE Checksum
  <2>1. UNCHANGED <<pi.wifi, pi.saved, pi.works, hist.blind, hist.over>>
    BY <1>7 DEF Checksum, Others, view, workstation, Typed, Pis, Histories
  <2> QED BY <2>1, WifiQuiet
<1>8. CASE WriteOverlay
  <2>1. UNCHANGED <<pi.wifi, pi.saved, pi.works, hist.blind, hist.over>>
    BY <1>8 DEF WriteOverlay, Others, view, workstation, Typed, Pis, Histories, Writes
  <2> QED BY <2>1, WifiQuiet
<1>9. CASE WriteWifi
  <2>1. UNCHANGED <<pi.wifi, pi.saved, pi.works, hist.blind, hist.over>>
    BY <1>9 DEF WriteWifi, Others, view, workstation, Typed, Pis, Histories, Writes
  <2> QED BY <2>1, WifiQuiet
<1>10. CASE Emulate
  <2>1. UNCHANGED <<pi.wifi, pi.saved, pi.works, hist.blind, hist.over>>
    BY <1>10 DEF Emulate, Others, view, workstation, Typed, Pis, Histories
  <2> QED BY <2>1, WifiQuiet
<1>11. CASE Build
  <2>1. UNCHANGED <<pi.wifi, pi.saved, pi.works, hist.blind, hist.over>>
    BY <1>11 DEF Build, Others, view, workstation, Typed, Pis, Histories
  <2> QED BY <2>1, WifiQuiet
<1>12. CASE Connect
  <2>1. UNCHANGED <<pi.wifi, pi.saved, pi.works, hist.blind, hist.over>>
    BY <1>12 DEF Connect, Others, view, workstation, Typed, Pis, Histories
  <2> QED BY <2>1, WifiQuiet
<1>13. CASE Probe
  <2>1. UNCHANGED <<pi.wifi, pi.saved, pi.works, hist.blind, hist.over>>
    BY <1>13 DEF Probe, Others, view, workstation, Typed, Pis, Histories
  <2> QED BY <2>1, WifiQuiet
<1>14. CASE Run
  <2>1. UNCHANGED <<pi.wifi, pi.saved, pi.works, hist.blind, hist.over>>
    BY <1>14 DEF Run, Others, view, workstation, Typed, Pis, Histories
  <2> QED BY <2>1, WifiQuiet
<1>15. CASE Bootstrap
  <2>1. UNCHANGED <<pi.wifi, pi.saved, pi.works, hist.blind, hist.over>>
    BY <1>15 DEF Bootstrap, Bootstrapped, Others, view, workstation, Typed, Pis, Histories
  <2> QED BY <2>1, WifiQuiet
<1>16. CASE Setup
  <2>1. UNCHANGED <<pi.wifi, pi.saved, pi.works, hist.blind, hist.over>>
    BY <1>16 DEF Setup, SetUp, Others, view, workstation, Typed, Pis, Histories
  <2> QED BY <2>1, WifiQuiet
<1>17. CASE Artifacts
  <2>1. UNCHANGED <<pi.wifi, pi.saved, pi.works, hist.blind, hist.over>>
    BY <1>17 DEF Artifacts, Others, view, workstation, Typed, Pis, Histories
  <2> QED BY <2>1, WifiQuiet
<1>18. CASE Stage
  <2>1. UNCHANGED <<pi.wifi, pi.saved, pi.works, hist.blind, hist.over>>
    BY <1>18 DEF Stage, MadeStage, Others, view, workstation, Typed, Pis, Histories
  <2> QED BY <2>1, WifiQuiet
<1>19. CASE Upload
  <2>1. UNCHANGED <<pi.wifi, pi.saved, pi.works, hist.blind, hist.over>>
    BY <1>19 DEF Upload, Uploaded, Others, view, workstation, Typed, Pis, Histories
  <2> QED BY <2>1, WifiQuiet
<1>20. CASE Verify
  <2>1. UNCHANGED <<pi.wifi, pi.saved, pi.works, hist.blind, hist.over>>
    BY <1>20 DEF Verify, Others, view, workstation, Typed, Pis, Histories
  <2> QED BY <2>1, WifiQuiet
<1>21. CASE PromoteStage
  <2>1. UNCHANGED <<pi.wifi, pi.saved, pi.works, hist.blind, hist.over>>
    BY <1>21 DEF PromoteStage, Promoted, Others, view, workstation, Typed, Pis, Histories
  <2> QED BY <2>1, WifiQuiet
<1>22. CASE Install
  <2>1. UNCHANGED <<pi.wifi, pi.saved, pi.works, hist.blind, hist.over>>
    BY <1>22 DEF Install, Installed, Others, view, workstation, Typed, Pis, Histories
  <2> QED BY <2>1, WifiQuiet
<1>23. CASE ReadBanner
  <2>1. UNCHANGED <<pi.wifi, pi.saved, pi.works, hist.blind, hist.over>>
    BY <1>23 DEF ReadBanner, Told, Others, view, workstation, Typed, Pis, Histories
  <2> QED BY <2>1, WifiQuiet
<1>24. CASE NoBanner
  <2>1. UNCHANGED <<pi.wifi, pi.saved, pi.works, hist.blind, hist.over>>
    BY <1>24 DEF NoBanner, Told, Others, view, workstation, Typed, Pis, Histories
  <2> QED BY <2>1, WifiQuiet
<1>25. CASE SkipBanner
  <2>1. UNCHANGED <<pi.wifi, pi.saved, pi.works, hist.blind, hist.over>>
    BY <1>25 DEF SkipBanner, Told, Others, view, workstation, Typed, Pis, Histories
  <2> QED BY <2>1, WifiQuiet
<1>26. CASE ReadBootId
  <2>1. UNCHANGED <<pi.wifi, pi.saved, pi.works, hist.blind, hist.over>>
    BY <1>26 DEF ReadBootId, Others, view, workstation, Typed, Pis, Histories
  <2> QED BY <2>1, WifiQuiet
<1>27. CASE Reboot
  <2>1. UNCHANGED <<pi.wifi, pi.saved, pi.works, hist.blind, hist.over>>
    BY <1>27 DEF Reboot, Leaving, Others, view, workstation, Typed, Pis, Histories
  <2> QED BY <2>1, WifiQuiet
<1>28. CASE TryAccount
  <2>1. UNCHANGED <<pi.wifi, pi.saved, pi.works, hist.blind, hist.over>>
    BY <1>28 DEF TryAccount, Accepts, Others, view, workstation, Typed, Pis, Histories
  <2> QED BY <2>1, WifiQuiet
<1>29. CASE AwaitAppliance
  <2>1. UNCHANGED <<pi.wifi, pi.saved, pi.works, hist.blind, hist.over>>
    BY <1>29 DEF AwaitAppliance, Others, view, workstation, Typed, Pis, Histories
  <2> QED BY <2>1, WifiQuiet
<1>30. CASE NoAppliance
  <2>1. UNCHANGED <<pi, hist.blind, hist.over>>
    BY <1>30 DEF NoAppliance, Typed, Histories
  <2> QED BY <2>1, WifiQuiet
<1>31. CASE Restart
  <2>1. UNCHANGED <<pi.wifi, pi.saved, pi.works, hist.blind, hist.over>>
    BY <1>31 DEF Restart, Served, Restarted, Others, view, workstation, Typed, Pis, Histories, Restarted
  <2> QED BY <2>1, WifiQuiet
<1>32. CASE SetPassword
  <2>1. UNCHANGED <<pi.wifi, pi.saved, pi.works, hist.blind, hist.over>>
    BY <1>32 DEF SetPassword, Secured, Others, view, workstation, Typed, Pis, Histories
  <2> QED BY <2>1, WifiQuiet
<1>33. CASE StartScript
  <2>1. UNCHANGED <<pi.wifi, pi.saved, pi.works, hist.blind, hist.over>>
    BY <1>33 DEF StartScript, Others, view, workstation, Typed, Pis, Histories
  <2> QED BY <2>1, WifiQuiet
<1>34. CASE ReadExit
  <2>1. UNCHANGED <<pi.wifi, pi.saved, pi.works, hist.blind, hist.over>>
    BY <1>34 DEF ReadExit, Others, view, workstation, Typed, Pis, Histories
  <2> QED BY <2>1, WifiQuiet
<1>35. CASE Unanswered
  BY <1>35, UnansweredLeaves, WifiQuiet
<1>36. CASE PiStops
  <2>1. UNCHANGED <<pi.wifi, pi.saved, pi.works, hist.blind, hist.over>>
    BY <1>36 DEF PiStops, Others, view, workstation, Typed, Pis, Histories
  <2> QED BY <2>1, WifiQuiet
<1>37. CASE PiBoots
  <2>1. hist' = hist /\ pi'.saved = pi.saved /\ pi'.works = pi.works /\ pi'.wifi = pi.saved
    BY <1>37 DEF PiBoots, Typed, Pis
  <2> QED BY <2>1 DEF WifiInv
<1>38. CASE ContainerPrints
  <2>1. UNCHANGED <<pi.wifi, pi.saved, pi.works, hist.blind, hist.over>>
    BY <1>38 DEF ContainerPrints, Others, view, workstation, Typed, Pis, Histories
  <2> QED BY <2>1, WifiQuiet
<1>39. CASE LosesSession
  <2>1. UNCHANGED <<pi.wifi, pi.saved, pi.works, hist.blind, hist.over>>
    BY <1>39 DEF LosesSession, Others, view, workstation, Typed, Pis, Histories
  <2> QED BY <2>1, WifiQuiet
<1>40. CASE EditTree
  <2>1. UNCHANGED <<pi.wifi, pi.saved, pi.works, hist.blind, hist.over>>
    BY <1>40 DEF EditTree, Others, view, workstation, Typed, Pis, Histories
  <2> QED BY <2>1, WifiQuiet
<1>41. CASE \E k \in Kinds : Press(k)
  <2>1. PICK k \in Kinds : Press(k)
    BY <1>41
  <2>2. /\ UNCHANGED <<front, form, tree, engine, card, pi, quit, hist>>
        /\ (Idles /\ Same) \/ (Fresh(k, form.pi) /\ k \notin Asks)
    BY <2>1, PressMoves
  <2>3. CASE Idles /\ Same
    BY <2>2, <2>3, WifiQuiet DEF Idles
  <2>4. CASE Fresh(k, form.pi)
    BY <2>2, <2>4, WifiQuiet
  <2> QED BY <2>2, <2>3, <2>4
<1>42. CASE \E k \in Kinds, opts \in SUBSET Options : CliRuns(k, opts)
  <2>1. PICK k \in Kinds, opts \in SUBSET Options : CliRuns(k, opts)
    BY <1>42
  <2>2. /\ UNCHANGED <<front, form, tree, engine, card, pi, quit>> /\ hist' = [hist EXCEPT !.agreed = k]
        /\ \E p \in Passwords : Fresh(k, p)
    BY <2>1, CliRunsMoves
  <2>3. PICK p \in Passwords : Fresh(k, p)
    BY <2>2
  <2>4. UNCHANGED <<hist.blind, hist.over>>
    BY <2>2 DEF Typed, Histories
  <2> QED BY <2>2, <2>3, <2>4, WifiQuiet
<1>43. CASE (\E k \in Kinds, opts \in SUBSET Options : CliRefused(k, opts)) \/ CliExits
  <2>0. UNCHANGED <<front, form, tree, engine, card, pi>> /\ Exits /\ Off
    BY <1>43, CliEndMoves
  <2>1. Exits
    BY <2>0
  <2> QED
    <3>1. UNCHANGED <<hist.blind, hist.over>>
      BY <2>0, <2>1 DEF Exits, Forgotten, Typed, Histories
    <3> QED BY <2>0, <2>1, <3>1, WifiQuiet
<1>44. CASE Accept
  <2>0. UNCHANGED <<front, form, tree, engine, card, pi>>
    BY <1>44, AcceptMoves
  <2>1. ASSUME Exits, Off PROVE WifiInv'
    <3>1. UNCHANGED <<hist.blind, hist.over>>
      BY <2>0, <2>1 DEF Exits, Forgotten, Typed, Histories
    <3> QED BY <2>0, <2>1, <3>1, WifiQuiet
  <2>2. ASSUME Idles, Same, UNCHANGED quit PROVE WifiInv'
    BY <2>0, <2>2, WifiQuiet DEF Idles
  <2>3. ASSUME Fresh(confirm, form.pi), UNCHANGED quit, confirm \in Asks,
               hist' = [hist EXCEPT !.agreed = confirm, !.auto = @ /\ confirm # "alpine"]
        PROVE  WifiInv'
    <3>1. UNCHANGED <<hist.blind, hist.over>>
      BY <2>0, <2>3 DEF Typed, Histories
    <3> QED BY <2>0, <2>3, <3>1, WifiQuiet
  <2> QED BY <1>44, <2>1, <2>2, <2>3, AcceptMoves
<1>45. CASE Decline
  <2>1. UNCHANGED <<pi.wifi, pi.saved, pi.works, hist.blind, hist.over>>
    BY <1>45 DEF Decline, Others, view, workstation, Typed, Pis, Histories
  <2> QED BY <2>1, WifiQuiet
<1>46. CASE Quit
  <2>0. UNCHANGED <<front, form, tree, engine, card, pi>>
    BY <1>46, QuitMoves
  <2>1. ASSUME Exits, Off PROVE WifiInv'
    <3>1. UNCHANGED <<hist.blind, hist.over>>
      BY <2>0, <2>1 DEF Exits, Forgotten, Typed, Histories
    <3> QED BY <2>0, <2>1, <3>1, WifiQuiet
  <2>2. ASSUME Idles, Same, UNCHANGED quit PROVE WifiInv'
    BY <2>0, <2>2, WifiQuiet DEF Idles
  <2> QED BY <1>46, <2>1, <2>2, QuitMoves
<1>47. CASE Cancel
  <2>1. UNCHANGED <<pi.wifi, pi.saved, pi.works, hist.blind, hist.over>>
    BY <1>47 DEF Cancel, Others, view, workstation, Typed, Pis, Histories
  <2> QED BY <2>1, WifiQuiet
<1>48. CASE \E p \in Passwords, apply \in BOOLEAN : SetFields(p, apply)
  <2>1. UNCHANGED <<pi.wifi, pi.saved, pi.works, hist.blind, hist.over>>
    BY <1>48 DEF SetFields, Others, view, workstation, Typed, Pis, Histories
  <2> QED BY <2>1, WifiQuiet
<1>49. CASE PollWorker
  <2>0. UNCHANGED <<front, tree, engine, card, pi, quit, started>>
    BY <1>49, PollWorkerMoves
  <2>1. ASSUME Same, UNCHANGED <<job, hist>>, worker' = [worker EXCEPT !.lines = 0] PROVE WifiInv'
    BY <2>0, <2>1, WifiQuiet
  <2>2. ASSUME Off, job' = Idle, worker' = Free,
               hist' = [Forgotten EXCEPT !.auto = @ \/ Switches, !.said = hist.said]
        PROVE  WifiInv'
    <3>1. UNCHANGED <<hist.blind, hist.over>>
      BY <2>0, <2>2 DEF Forgotten, Typed, Histories
    <3> QED BY <2>0, <2>2, <3>1, WifiQuiet
  <2> QED BY <1>49, <2>1, <2>2, PollWorkerMoves
<1>50. CASE AddNetwork
  <2>1. PICK s \in pi.scripts, works \in BOOLEAN, old \in SUBSET pi.wifi,
             list \in SUBSET Nat, file \in SUBSET Nat, runs \in SUBSET Scripts, able \in SUBSET Nat :
           Adds(s, works, old, list, file, runs, able)
    BY <1>50, AddNetworkChanges
  <2>2. pi'.wifi = list /\ pi'.saved = file /\ pi'.works = able /\ pi.works \subseteq able
    BY <2>1 DEF Adds, Typed, Pis
  <2>3. /\ hist'.over = (hist.over \/ old # {})
        /\ hist'.blind = (hist.blind \/ s.flag = "blind")
    BY <2>1 DEF Adds, Typed, Histories
  <2>4. CASE old # {} \/ s.flag = "blind"
    BY <2>3, <2>4 DEF WifiInv
  <2>5. CASE old = {} /\ s.flag # "blind"
    <3>1. pi.wifi \subseteq list /\ (file = pi.saved \/ file = list)
      BY <2>1, <2>5 DEF Adds
    <3> QED BY <2>2, <2>3, <3>1 DEF WifiInv
  <2> QED BY <2>4, <2>5
<1>51. CASE Associate
  <2>1. PICK s \in pi.scripts, list \in SUBSET Nat, file \in SUBSET Nat, runs \in SUBSET Scripts :
           /\ s \in Scripts /\ s.n \in Nat
           /\ pi' = [pi EXCEPT !.wifi = list, !.saved = file, !.scripts = runs]
           /\ \/ s.n \in pi.works /\ list = {s.n} /\ file \in {{s.n}, pi.saved}
              \/ list = pi.saved /\ file = pi.saved
    BY <1>51, AssociateChanges
  <2>2. pi'.wifi = list /\ pi'.saved = file /\ pi'.works = pi.works /\ hist' = hist
    BY <1>51, <2>1 DEF Associate, Typed, Pis
  <2> QED BY <2>1, <2>2 DEF WifiInv
<1> QED BY <1>1, <1>2, <1>3, <1>4, <1>5, <1>6, <1>7, <1>8, <1>9, <1>10, <1>11, <1>12, <1>13,
           <1>14, <1>15, <1>16, <1>17, <1>18, <1>19, <1>20, <1>21, <1>22, <1>23, <1>24,
           <1>25, <1>26, <1>27, <1>28, <1>29, <1>30, <1>31, <1>32, <1>33, <1>34, <1>35,
           <1>36, <1>37, <1>38, <1>39, <1>40, <1>41, <1>42, <1>43, <1>44, <1>45, <1>46,
           <1>47, <1>48, <1>49, <1>50, <1>51
       DEF DeployerNext, JobStep, PiStep, Operator

\* A step that leaves the card alone, and a new job.
LEMMA CardQuiet ==
  ASSUME CardInv, PlanInv, Moved({"checksum", "overlay", "wifi_file"}), UNCHANGED card,
         Working' /\ job'.req.kind = "prepare_sd" /\ Left' < 3 => job'.body = job.body
  PROVE  CardInv'
<1>1. CASE Same \/ Off
  BY <1>1 DEF CardInv, Past, On, Same, Off
<1>2. ASSUME NEW s \in StepNames \ {"checksum", "overlay", "wifi_file"}, Forward(s) PROVE CardInv'
  <2>1. job.req.kind = "prepare_sd" => Left >= 4
    BY <1>2 DEF Forward, Fits, CardPlan, Known
  <2>2. job'.req = job.req /\ Working /\ Left' = Left - 1 /\ Left \in Int
    BY <1>2 DEF Forward
  <2> QED BY <2>1, <2>2 DEF CardInv, Past, On
<1> QED BY <1>1, <1>2 DEF Moved

LEMMA CardFresh ==
  ASSUME CardInv, NEW kind, NEW p, Fresh(kind, p), UNCHANGED card
  PROVE  CardInv'
<1>1. kind = "prepare_sd" => Left' >= 5
  BY DEF Fresh, Begun
<1>2. Left' \in Int
  BY ExtraIsNat DEF Fresh, Begun, Place
<1> QED BY <1>1, <1>2 DEF CardInv, Past, On, Fresh

\* A card gets the pinned overlay only, and all of it before the job succeeds.
LEMMA CardStep ==
  ASSUME Typed, PlanInv, FrontInv, CardInv, DeployerNext
  PROVE  CardInv'
<1>1. CASE Fails
  <2>1. card' = card /\ job'.body = job.body
    BY <1>1 DEF Fails, Failed, Others, view, workstation, Typed, JobStates
  <2>2. Moved({"checksum", "overlay", "wifi_file"})
    BY <1>1, FailsMoves DEF Moved, StepNames
  <2> QED BY <2>1, <2>2, CardQuiet
<1>2. CASE Unstage
  <2>1. card' = card /\ job'.body = job.body
    BY <1>2 DEF Unstage, Others, view, workstation, Typed, JobStates
  <2>2. Moved({"checksum", "overlay", "wifi_file"})
    BY <1>2, UnstageMoves DEF Moved, StepNames
  <2> QED BY <2>1, <2>2, CardQuiet
<1>3. CASE Report
  <2>1. card' = card /\ job'.body = job.body
    BY <1>3 DEF Report, Others, view, workstation, Typed, JobStates
  <2>2. Moved({"checksum", "overlay", "wifi_file"})
    BY <1>3, ReportMoves DEF Moved, StepNames
  <2> QED BY <2>1, <2>2, CardQuiet
<1>4. CASE Finish
  <2>1. card' = card /\ job'.body = job.body
    BY <1>4 DEF Finish, Others, view, workstation, Typed, JobStates
  <2>2. Moved({"checksum", "overlay", "wifi_file"})
    BY <1>4, FinishMoves DEF Moved, StepNames
  <2> QED BY <2>1, <2>2, CardQuiet
<1>5. CASE CheckCard
  <2>1. card' = card /\ job'.body = job.body
    BY <1>5 DEF CheckCard, Others, view, workstation, Typed, JobStates
  <2>2. Moved({"checksum", "overlay", "wifi_file"})
    BY <1>5, CheckCardMoves DEF Moved, StepNames
  <2> QED BY <2>1, <2>2, CardQuiet
<1>6. CASE Download
  <2>1. card' = card
    BY <1>6 DEF Download, Others, workstation
  <2>2. CASE Forward("download")
    <3>1. Left' = 3 /\ job'.req = job.req
      BY <2>2, Places DEF Forward
    <3> QED BY <2>1, <3>1 DEF CardInv, Past
  <2>3. CASE ~Forward("download") /\ Same
    <3>1. At("download") /\ "download" \in StepNames \ {"over", "unstage"}
      BY <1>6 DEF Download, StepNames
    <3>2. Fits(job.req, "download", Left)
      BY <3>1, AtPlace, Zenon
    <3>3. Left' = 4
      BY <2>3, <3>2, Places DEF Same
    <3> QED BY <2>1, <3>3 DEF CardInv, Past
  <2> QED BY <1>6, <2>2, <2>3, DownloadMoves
<1>7. CASE Checksum
  <2>1. card' = card /\ job'.body = "pinned"
    BY <1>7 DEF Checksum, Others, workstation, Typed, JobStates
  <2>2. Forward("checksum")
    BY <1>7, ChecksumMoves
  <2>3. Left' = 2
    BY <2>2, Places DEF Forward
  <2> QED BY <2>1, <2>3 DEF CardInv, Past
<1>8. CASE WriteOverlay
  <2>1. At("overlay") /\ "overlay" \in StepNames \ {"over", "unstage"}
    BY <1>8 DEF WriteOverlay, StepNames
  <2>2. Fits(job.req, "overlay", Left) /\ Working
    BY <2>1, AtPlace, Zenon
  <2>3. job.body = "pinned"
    BY <2>2, Places DEF CardInv, Past, On
  <2>4. CASE card' = [card EXCEPT !["overlay"] = job.body] /\ job' = [job EXCEPT !.todo = Rest] /\ worker' = worker
    <3>1. card'.overlay = "pinned" /\ job'.body = "pinned"
      BY <2>3, <2>4 DEF Typed, Cards, JobStates
    <3>2. Working'
      <4>1. worker.run = "running"
        BY <2>1 DEF At
      <4>2. worker'.run = "running"
        BY <2>4, <4>1
      <4>3. "overlay" \in StepNames \ {"over", "unstage"} /\ job'.todo = Tail(job.todo) /\ job'.req = job.req
        BY <2>1, <2>4 DEF Typed, JobStates, Rest
      <4>4. Forward("overlay")
        BY <2>1, <2>4, <4>3, ForwardStep, Zenon
      <4> QED BY <4>4 DEF Forward
    <3>3. Forward("overlay")
      BY <1>8, <3>2, WriteOverlayMoves DEF Off
    <3>4. Left' = 1
      BY <3>3, Places DEF Forward
    <3> QED BY <3>1, <3>4 DEF CardInv, Past
  <2>5. CASE card' = [card EXCEPT !["overlay"] = "part"] /\ worker' = [worker EXCEPT !.run = "failed"]
    <3>1. card'.overlay = "part" /\ worker'.run = "failed"
      BY <2>5 DEF Typed, Cards, Workers
    <3> QED BY <3>1 DEF CardInv, Past, On, Working
  <2> QED BY <1>8, <2>4, <2>5 DEF WriteOverlay, Writes
<1>9. CASE WriteWifi
  <2>1. At("wifi_file") /\ "wifi_file" \in StepNames \ {"over", "unstage"}
    BY <1>9 DEF WriteWifi, StepNames
  <2>2. Fits(job.req, "wifi_file", Left) /\ Working
    BY <2>1, AtPlace, Zenon
  <2>3. job.body = "pinned" /\ card.overlay = "pinned"
    BY <2>2, Places DEF CardInv, Past, On
  <2>4. CASE card' = [card EXCEPT !["wifi"] = "psk"] /\ job' = [job EXCEPT !.todo = Rest]
    <3>1. card'.overlay = "pinned" /\ card'.wifi = "psk" /\ job'.body = "pinned"
      BY <2>3, <2>4 DEF Typed, Cards, JobStates
    <3> QED BY <3>1 DEF CardInv
  <2>5. CASE card' = [card EXCEPT !["wifi"] = "part"] /\ worker' = [worker EXCEPT !.run = "failed"]
    <3>1. card'.overlay = card.overlay /\ worker'.run = "failed"
      BY <2>5 DEF Typed, Cards, Workers
    <3> QED BY <3>1 DEF CardInv, Past, On, Working
  <2> QED BY <1>9, <2>4, <2>5 DEF WriteWifi, Writes
<1>10. CASE Emulate
  <2>1. card' = card /\ job'.body = job.body
    BY <1>10 DEF Emulate, Others, view, workstation, Typed, JobStates
  <2>2. Moved({"checksum", "overlay", "wifi_file"})
    BY <1>10, EmulateMoves DEF Moved, StepNames
  <2> QED BY <2>1, <2>2, CardQuiet
<1>11. CASE Build
  <2>1. card' = card /\ job'.body = job.body
    BY <1>11 DEF Build, Others, view, workstation, Typed, JobStates
  <2>2. Moved({"checksum", "overlay", "wifi_file"})
    BY <1>11, BuildMoves DEF Moved, StepNames
  <2> QED BY <2>1, <2>2, CardQuiet
<1>12. CASE Connect
  <2>1. card' = card /\ job'.body = job.body
    BY <1>12 DEF Connect, Others, view, workstation, Typed, JobStates
  <2>2. Moved({"checksum", "overlay", "wifi_file"})
    BY <1>12, ConnectMoves DEF Moved, StepNames
  <2> QED BY <2>1, <2>2, CardQuiet
<1>13. CASE Probe
  <2>1. card' = card /\ job'.body = job.body
    BY <1>13 DEF Probe, Others, view, workstation, Typed, JobStates
  <2>2. Moved({"checksum", "overlay", "wifi_file"})
    BY <1>13, ProbeMoves DEF Moved, StepNames
  <2> QED BY <2>1, <2>2, CardQuiet
<1>14. CASE Run
  <2>1. card' = card /\ job'.body = job.body
    BY <1>14 DEF Run, Others, view, workstation, Typed, JobStates
  <2>2. Moved({"checksum", "overlay", "wifi_file"})
    BY <1>14, RunMoves DEF Moved, StepNames
  <2> QED BY <2>1, <2>2, CardQuiet
<1>15. CASE Bootstrap
  <2>1. card' = card /\ job'.body = job.body
    BY <1>15 DEF Bootstrap, Bootstrapped, Others, view, workstation, Typed, JobStates
  <2>2. Moved({"checksum", "overlay", "wifi_file"})
    BY <1>15, BootstrapMoves DEF Moved, StepNames
  <2> QED BY <2>1, <2>2, CardQuiet
<1>16. CASE Setup
  <2>1. card' = card /\ job'.body = job.body
    BY <1>16 DEF Setup, SetUp, Others, view, workstation, Typed, JobStates
  <2>2. Moved({"checksum", "overlay", "wifi_file"})
    BY <1>16, SetupMoves DEF Moved, StepNames
  <2> QED BY <2>1, <2>2, CardQuiet
<1>17. CASE Artifacts
  <2>1. card' = card /\ job'.body = job.body
    BY <1>17 DEF Artifacts, Others, view, workstation, Typed, JobStates
  <2>2. Moved({"checksum", "overlay", "wifi_file"})
    BY <1>17, ArtifactsMoves DEF Moved, StepNames
  <2> QED BY <2>1, <2>2, CardQuiet
<1>18. CASE Stage
  <2>1. card' = card /\ job'.body = job.body
    BY <1>18 DEF Stage, MadeStage, Others, view, workstation, Typed, JobStates
  <2>2. Moved({"checksum", "overlay", "wifi_file"})
    BY <1>18, StageMoves DEF Moved, StepNames
  <2> QED BY <2>1, <2>2, CardQuiet
<1>19. CASE Upload
  <2>1. card' = card /\ job'.body = job.body
    BY <1>19 DEF Upload, Uploaded, Others, view, workstation, Typed, JobStates
  <2>2. Moved({"checksum", "overlay", "wifi_file"})
    BY <1>19, UploadMoves DEF Moved, StepNames
  <2> QED BY <2>1, <2>2, CardQuiet
<1>20. CASE Verify
  <2>1. card' = card /\ job'.body = job.body
    BY <1>20 DEF Verify, Others, view, workstation, Typed, JobStates
  <2>2. Moved({"checksum", "overlay", "wifi_file"})
    BY <1>20, VerifyMoves DEF Moved, StepNames
  <2> QED BY <2>1, <2>2, CardQuiet
<1>21. CASE PromoteStage
  <2>1. card' = card /\ job'.body = job.body
    BY <1>21 DEF PromoteStage, Promoted, Others, view, workstation, Typed, JobStates
  <2>2. Moved({"checksum", "overlay", "wifi_file"})
    BY <1>21, PromoteStageMoves DEF Moved, StepNames
  <2> QED BY <2>1, <2>2, CardQuiet
<1>22. CASE Install
  <2>1. card' = card /\ job'.body = job.body
    BY <1>22 DEF Install, Installed, Others, view, workstation, Typed, JobStates
  <2>2. Moved({"checksum", "overlay", "wifi_file"})
    BY <1>22, InstallMoves DEF Moved, StepNames
  <2> QED BY <2>1, <2>2, CardQuiet
<1>23. CASE ReadBanner
  <2>1. card' = card /\ job'.body = job.body
    BY <1>23 DEF ReadBanner, Told, Others, view, workstation, Typed, JobStates
  <2>2. Moved({"checksum", "overlay", "wifi_file"})
    BY <1>23, ReadBannerMoves DEF Moved, StepNames
  <2> QED BY <2>1, <2>2, CardQuiet
<1>24. CASE NoBanner
  <2>1. card' = card /\ job'.body = job.body
    BY <1>24 DEF NoBanner, Told, Others, view, workstation, Typed, JobStates
  <2>2. Moved({"checksum", "overlay", "wifi_file"})
    BY <1>24, NoBannerMoves DEF Moved, StepNames
  <2> QED BY <2>1, <2>2, CardQuiet
<1>25. CASE SkipBanner
  <2>1. card' = card /\ job'.body = job.body
    BY <1>25 DEF SkipBanner, Told, Others, view, workstation, Typed, JobStates
  <2>2. Moved({"checksum", "overlay", "wifi_file"})
    BY <1>25, SkipBannerMoves DEF Moved, StepNames
  <2> QED BY <2>1, <2>2, CardQuiet
<1>26. CASE ReadBootId
  <2>1. card' = card /\ job'.body = job.body
    BY <1>26 DEF ReadBootId, Others, view, workstation, Typed, JobStates
  <2>2. Moved({"checksum", "overlay", "wifi_file"})
    BY <1>26, ReadBootIdMoves DEF Moved, StepNames
  <2> QED BY <2>1, <2>2, CardQuiet
<1>27. CASE Reboot
  <2>1. card' = card /\ job'.body = job.body
    BY <1>27 DEF Reboot, Leaving, Others, view, workstation, Typed, JobStates
  <2>2. Moved({"checksum", "overlay", "wifi_file"})
    BY <1>27, RebootMoves DEF Moved, StepNames
  <2> QED BY <2>1, <2>2, CardQuiet
<1>28. CASE TryAccount
  <2>1. card' = card /\ job'.body = job.body
    BY <1>28 DEF TryAccount, Accepts, Others, view, workstation, Typed, JobStates
  <2>2. Moved({"checksum", "overlay", "wifi_file"})
    BY <1>28, TryAccountMoves DEF Moved, StepNames
  <2> QED BY <2>1, <2>2, CardQuiet
<1>29. CASE AwaitAppliance
  <2>1. card' = card /\ job'.body = job.body
    BY <1>29 DEF AwaitAppliance, Others, view, workstation, Typed, JobStates
  <2>2. Moved({"checksum", "overlay", "wifi_file"})
    BY <1>29, AwaitApplianceMoves DEF Moved, StepNames
  <2> QED BY <2>1, <2>2, CardQuiet
<1>30. CASE NoAppliance
  <2>1. card' = card
    BY <1>30 DEF NoAppliance, workstation
  <2>2. job'.req = job.req /\ job.req.kind = "deploy"
    BY <1>30, NoApplianceMoves DEF On
  <2> QED BY <2>1, <2>2 DEF CardInv, Past, On
<1>31. CASE Restart
  <2>1. card' = card /\ job'.body = job.body
    BY <1>31 DEF Restart, Served, Restarted, Others, view, workstation, Typed, JobStates, Restarted
  <2>2. Moved({"checksum", "overlay", "wifi_file"})
    BY <1>31, RestartMoves DEF Moved, StepNames
  <2> QED BY <2>1, <2>2, CardQuiet
<1>32. CASE SetPassword
  <2>1. card' = card /\ job'.body = job.body
    BY <1>32 DEF SetPassword, Secured, Others, view, workstation, Typed, JobStates
  <2>2. Moved({"checksum", "overlay", "wifi_file"})
    BY <1>32, SetPasswordMoves DEF Moved, StepNames
  <2> QED BY <2>1, <2>2, CardQuiet
<1>33. CASE StartScript
  <2>1. card' = card /\ job'.body = job.body
    BY <1>33 DEF StartScript, Others, view, workstation, Typed, JobStates
  <2>2. Moved({"checksum", "overlay", "wifi_file"})
    BY <1>33, StartScriptMoves DEF Moved, StepNames
  <2> QED BY <2>1, <2>2, CardQuiet
<1>34. CASE ReadExit
  <2>1. card' = card /\ job'.body = job.body
    BY <1>34 DEF ReadExit, Others, view, workstation, Typed, JobStates
  <2>2. Moved({"checksum", "overlay", "wifi_file"})
    BY <1>34, ReadExitMoves DEF Moved, StepNames
  <2> QED BY <2>1, <2>2, CardQuiet
<1>35. CASE Unanswered
  <2>1. card' = card /\ Off
    BY <1>35, UnansweredAt, UnansweredMoves
  <2> QED BY <2>1 DEF CardInv, Past, On, Off
<1>36. CASE PiStops
  <2>1. card' = card /\ job'.body = job.body
    BY <1>36 DEF PiStops, Others, view, workstation, Typed, JobStates
  <2>2. Moved({"checksum", "overlay", "wifi_file"})
    BY <1>36, StillMoves DEF Moved, StepNames
  <2> QED BY <2>1, <2>2, CardQuiet
<1>37. CASE PiBoots
  <2>1. card' = card /\ job'.body = job.body
    BY <1>37 DEF PiBoots, Others, view, workstation, Typed, JobStates, Restarted
  <2>2. Moved({"checksum", "overlay", "wifi_file"})
    BY <1>37, StillMoves DEF Moved, StepNames
  <2> QED BY <2>1, <2>2, CardQuiet
<1>38. CASE ContainerPrints
  <2>1. card' = card /\ job'.body = job.body
    BY <1>38 DEF ContainerPrints, Others, view, workstation, Typed, JobStates
  <2>2. Moved({"checksum", "overlay", "wifi_file"})
    BY <1>38, StillMoves DEF Moved, StepNames
  <2> QED BY <2>1, <2>2, CardQuiet
<1>39. CASE LosesSession
  <2>1. card' = card /\ job'.body = job.body
    BY <1>39 DEF LosesSession, Others, view, workstation, Typed, JobStates
  <2>2. Moved({"checksum", "overlay", "wifi_file"})
    BY <1>39, StillMoves DEF Moved, StepNames
  <2> QED BY <2>1, <2>2, CardQuiet
<1>40. CASE EditTree
  <2>1. card' = card /\ job'.body = job.body
    BY <1>40 DEF EditTree, Others, view, workstation, Typed, JobStates
  <2>2. Moved({"checksum", "overlay", "wifi_file"})
    BY <1>40, StillMoves DEF Moved, StepNames
  <2> QED BY <2>1, <2>2, CardQuiet
<1>41. CASE \E k \in Kinds : Press(k)
  <2>1. PICK k \in Kinds : Press(k)
    BY <1>41
  <2>2. /\ UNCHANGED <<front, form, tree, engine, card, pi, quit, hist>>
        /\ (Idles /\ Same) \/ (Fresh(k, form.pi) /\ k \notin Asks)
    BY <2>1, PressMoves
  <2>3. CASE Idles /\ Same
    BY <2>2, <2>3, CardQuiet DEF Off, Idles, Moved
  <2>4. CASE Fresh(k, form.pi)
    BY <2>2, <2>4, CardFresh
  <2> QED BY <2>2, <2>3, <2>4
<1>42. CASE \E k \in Kinds, opts \in SUBSET Options : CliRuns(k, opts)
  <2>1. PICK k \in Kinds, opts \in SUBSET Options : CliRuns(k, opts)
    BY <1>42
  <2>2. /\ UNCHANGED <<front, form, tree, engine, card, pi, quit>> /\ hist' = [hist EXCEPT !.agreed = k]
        /\ \E p \in Passwords : Fresh(k, p)
    BY <2>1, CliRunsMoves
  <2>3. PICK p \in Passwords : Fresh(k, p)
    BY <2>2
  <2>4. UNCHANGED <<card>>
    BY <2>2
  <2> QED BY <2>2, <2>3, <2>4, CardFresh
<1>43. CASE (\E k \in Kinds, opts \in SUBSET Options : CliRefused(k, opts)) \/ CliExits
  <2>0. UNCHANGED <<front, form, tree, engine, card, pi>> /\ Exits /\ Off
    BY <1>43, CliEndMoves
  <2>1. Exits
    BY <2>0
  <2> QED
    <3>1. UNCHANGED <<card>> /\ started' = started /\ job' = Idle /\ worker' = Free
      BY <2>0, <2>1 DEF Exits, Forgotten, Typed
    <3> QED BY <2>0, <2>1, <3>1, CardQuiet DEF Off, Moved
<1>44. CASE Accept
  <2>0. UNCHANGED <<front, form, tree, engine, card, pi>>
    BY <1>44, AcceptMoves
  <2>1. ASSUME Exits, Off PROVE CardInv'
    <3>1. UNCHANGED <<card>> /\ started' = started /\ job' = Idle /\ worker' = Free
      BY <2>0, <2>1 DEF Exits, Forgotten, Typed
    <3> QED BY <2>0, <2>1, <3>1, CardQuiet DEF Off, Moved
  <2>2. ASSUME Idles, Same, UNCHANGED quit PROVE CardInv'
    BY <2>0, <2>2, CardQuiet DEF Off, Idles, Moved
  <2>3. ASSUME Fresh(confirm, form.pi), UNCHANGED quit, confirm \in Asks,
               hist' = [hist EXCEPT !.agreed = confirm, !.auto = @ /\ confirm # "alpine"]
        PROVE  CardInv'
    <3>1. UNCHANGED <<card>>
      BY <2>0, <2>3 DEF Typed
    <3> QED BY <2>0, <2>3, <3>1, CardFresh
  <2> QED BY <1>44, <2>1, <2>2, <2>3, AcceptMoves
<1>45. CASE Decline
  <2>1. card' = card /\ job'.body = job.body
    BY <1>45 DEF Decline, Others, view, workstation, Typed, JobStates
  <2>2. Moved({"checksum", "overlay", "wifi_file"})
    BY <1>45, StillMoves DEF Moved, StepNames
  <2> QED BY <2>1, <2>2, CardQuiet
<1>46. CASE Quit
  <2>0. UNCHANGED <<front, form, tree, engine, card, pi>>
    BY <1>46, QuitMoves
  <2>1. ASSUME Exits, Off PROVE CardInv'
    <3>1. UNCHANGED <<card>> /\ started' = started /\ job' = Idle /\ worker' = Free
      BY <2>0, <2>1 DEF Exits, Forgotten, Typed
    <3> QED BY <2>0, <2>1, <3>1, CardQuiet DEF Off, Moved
  <2>2. ASSUME Idles, Same, UNCHANGED quit PROVE CardInv'
    BY <2>0, <2>2, CardQuiet DEF Off, Idles, Moved
  <2> QED BY <1>46, <2>1, <2>2, QuitMoves
<1>47. CASE Cancel
  <2>1. card' = card /\ job'.body = job.body
    BY <1>47 DEF Cancel, Others, view, workstation, Typed, JobStates
  <2>2. Moved({"checksum", "overlay", "wifi_file"})
    BY <1>47, StillMoves DEF Moved, StepNames
  <2> QED BY <2>1, <2>2, CardQuiet
<1>48. CASE \E p \in Passwords, apply \in BOOLEAN : SetFields(p, apply)
  <2>1. card' = card /\ job'.body = job.body
    BY <1>48 DEF SetFields, Others, view, workstation, Typed, JobStates
  <2>2. Moved({"checksum", "overlay", "wifi_file"})
    BY <1>48, StillMoves DEF Moved, StepNames
  <2> QED BY <2>1, <2>2, CardQuiet
<1>49. CASE PollWorker
  <2>0. UNCHANGED <<front, tree, engine, card, pi, quit, started>>
    BY <1>49, PollWorkerMoves
  <2>1. ASSUME Same, UNCHANGED <<job, hist>>, worker' = [worker EXCEPT !.lines = 0] PROVE CardInv'
    BY <2>0, <2>1, CardQuiet DEF Off, Moved
  <2>2. ASSUME Off, job' = Idle, worker' = Free,
               hist' = [Forgotten EXCEPT !.auto = @ \/ Switches, !.said = hist.said]
        PROVE  CardInv'
    <3>1. UNCHANGED <<card>>
      BY <2>0, <2>2 DEF Forgotten, Typed
    <3> QED BY <2>0, <2>2, <3>1, CardQuiet DEF Off, Moved
  <2> QED BY <1>49, <2>1, <2>2, PollWorkerMoves
<1>50. CASE AddNetwork \/ Associate
  <2>1. UNCHANGED <<card, job>> /\ Same
    BY <1>50, ScriptLeaves, StillMoves
  <2> QED BY <2>1, CardQuiet DEF Moved
<1> QED BY <1>1, <1>2, <1>3, <1>4, <1>5, <1>6, <1>7, <1>8, <1>9, <1>10, <1>11, <1>12, <1>13,
           <1>14, <1>15, <1>16, <1>17, <1>18, <1>19, <1>20, <1>21, <1>22, <1>23, <1>24,
           <1>25, <1>26, <1>27, <1>28, <1>29, <1>30, <1>31, <1>32, <1>33, <1>34, <1>35,
           <1>36, <1>37, <1>38, <1>39, <1>40, <1>41, <1>42, <1>43, <1>44, <1>45, <1>46,
           <1>47, <1>48, <1>49, <1>50
       DEF DeployerNext, JobStep, PiStep, Operator

\* A step that leaves the form, the login and the question alone, and a new job.
LEMMA PageQuiet ==
  ASSUME PageInv, PlanInv, Moved({"setup"}), job'.req = job.req, busy' => busy,
         UNCHANGED <<front, form, pi.password, hist.auto, hist.agreed>>
  PROVE  PageInv'
<1>1. Past("alpine", 4)' => pi.password = job.req.pi
  <2>1. CASE Same \/ Off
    BY <2>1 DEF PageInv, Past, On, Same, Off
  <2>2. ASSUME NEW s \in StepNames \ {"setup"}, Forward(s), Past("alpine", 4)'
        PROVE  pi.password = job.req.pi
    <3>1. ~(Left = 4 /\ job.req.kind = "alpine")
      BY <2>2 DEF Forward, Fits, AlpinePlan, Known
    <3>2. Working /\ Left' = Left - 1 /\ Left \in Int
      BY <2>2 DEF Forward
    <3> QED BY <2>2, <3>1, <3>2 DEF PageInv, Past, On
  <2> QED BY <2>1, <2>2 DEF Moved
<1> QED BY <1>1 DEF PageInv

LEMMA PageFresh ==
  ASSUME PageInv, NEW kind, NEW p, Fresh(kind, p), UNCHANGED <<front, form, pi>>,
         front = "page" => p = form.pi, kind \in Asks => hist'.agreed = kind,
         hist'.auto => hist.auto, kind = "alpine" => ~hist'.auto
  PROVE  PageInv'
<1>1. kind = "alpine" => Left' >= 6
  BY DEF Fresh, Begun
<1>2. Left' \in Int
  BY ExtraIsNat DEF Fresh, Begun, Place
<1>3. ~Past("alpine", 4)'
  BY <1>1, <1>2 DEF Past, On, Fresh
<1>4. job'.req.kind = kind /\ job'.req.pi = p /\ (kind = "alpine" => p \notin Weak)
  BY DEF Fresh
<1> QED BY <1>3, <1>4 DEF PageInv

\* No job is left.
LEMMA PageIdle ==
  ASSUME PageInv, worker' = Free, UNCHANGED <<front, pi>>,
         hist'.auto => form'.login = pi.password, front = "cli" => ~hist'.auto
  PROVE  PageInv'
<1>1. ~busy' /\ ~Working'
  BY DEF busy, Working, Free
<1> QED BY <1>1 DEF PageInv, Past, On

\* The login filled in is the one set: the form stays as it is until the result is taken.
LEMMA PageStep ==
  ASSUME Typed, PlanInv, FrontInv, PageInv, DeployerNext
  PROVE  PageInv'
<1>1. CASE Fails
  <2>1. UNCHANGED <<front, form, pi.password, hist.auto, hist.agreed, job.req>>
    BY <1>1 DEF Fails, Failed, Others, view, Typed, Pis, Histories, JobStates
  <2>2. Moved({"setup"})
    BY <1>1, FailsMoves DEF Moved, StepNames
  <2>3. busy
    BY <1>1 DEF Fails, Failed, Does, At, busy
  <2> QED BY <2>1, <2>2, <2>3, PageQuiet DEF busy
<1>2. CASE Unstage
  <2>1. UNCHANGED <<front, form, pi.password, hist.auto, hist.agreed, job.req>>
    BY <1>2 DEF Unstage, Others, view, Typed, Pis, Histories, JobStates
  <2>2. Moved({"setup"})
    BY <1>2, UnstageMoves DEF Moved, StepNames
  <2>3. busy
    BY <1>2 DEF Unstage, Does, At, busy
  <2> QED BY <2>1, <2>2, <2>3, PageQuiet DEF busy
<1>3. CASE Report
  <2>1. UNCHANGED <<front, form, pi.password, hist.auto, hist.agreed, job.req>>
    BY <1>3 DEF Report, Others, view, Typed, Pis, Histories, JobStates
  <2>2. Moved({"setup"})
    BY <1>3, ReportMoves DEF Moved, StepNames
  <2>3. busy
    BY <1>3 DEF Report, Does, At, busy
  <2> QED BY <2>1, <2>2, <2>3, PageQuiet DEF busy
<1>4. CASE Finish
  <2>1. UNCHANGED <<front, form, pi.password, hist.auto, hist.agreed, job.req>>
    BY <1>4 DEF Finish, Others, view, Typed, Pis, Histories, JobStates
  <2>2. Moved({"setup"})
    BY <1>4, FinishMoves DEF Moved, StepNames
  <2>3. busy
    BY <1>4 DEF Finish, Does, At, busy
  <2> QED BY <2>1, <2>2, <2>3, PageQuiet DEF busy
<1>5. CASE CheckCard
  <2>1. UNCHANGED <<front, form, pi.password, hist.auto, hist.agreed, job.req>>
    BY <1>5 DEF CheckCard, Others, view, Typed, Pis, Histories, JobStates
  <2>2. Moved({"setup"})
    BY <1>5, CheckCardMoves DEF Moved, StepNames
  <2>3. busy
    BY <1>5 DEF CheckCard, Does, At, busy
  <2> QED BY <2>1, <2>2, <2>3, PageQuiet DEF busy
<1>6. CASE Download
  <2>1. UNCHANGED <<front, form, pi.password, hist.auto, hist.agreed, job.req>>
    BY <1>6 DEF Download, Others, view, Typed, Pis, Histories, JobStates
  <2>2. Moved({"setup"})
    BY <1>6, DownloadMoves DEF Moved, StepNames
  <2>3. busy
    BY <1>6 DEF Download, Does, At, busy
  <2> QED BY <2>1, <2>2, <2>3, PageQuiet DEF busy
<1>7. CASE Checksum
  <2>1. UNCHANGED <<front, form, pi.password, hist.auto, hist.agreed, job.req>>
    BY <1>7 DEF Checksum, Others, view, Typed, Pis, Histories, JobStates
  <2>2. Moved({"setup"})
    BY <1>7, ChecksumMoves DEF Moved, StepNames
  <2>3. busy
    BY <1>7 DEF Checksum, Does, At, busy
  <2> QED BY <2>1, <2>2, <2>3, PageQuiet DEF busy
<1>8. CASE WriteOverlay
  <2>1. UNCHANGED <<front, form, pi.password, hist.auto, hist.agreed, job.req>>
    BY <1>8 DEF WriteOverlay, Others, view, Typed, Pis, Histories, JobStates, Writes
  <2>2. Moved({"setup"})
    BY <1>8, WriteOverlayMoves DEF Moved, StepNames
  <2>3. busy
    BY <1>8 DEF WriteOverlay, Does, At, busy
  <2> QED BY <2>1, <2>2, <2>3, PageQuiet DEF busy
<1>9. CASE WriteWifi
  <2>1. UNCHANGED <<front, form, pi.password, hist.auto, hist.agreed, job.req>>
    BY <1>9 DEF WriteWifi, Others, view, Typed, Pis, Histories, JobStates, Writes
  <2>2. Moved({"setup"})
    BY <1>9, WriteWifiMoves DEF Moved, StepNames
  <2>3. busy
    BY <1>9 DEF WriteWifi, Does, At, busy
  <2> QED BY <2>1, <2>2, <2>3, PageQuiet DEF busy
<1>10. CASE Emulate
  <2>1. UNCHANGED <<front, form, pi.password, hist.auto, hist.agreed, job.req>>
    BY <1>10 DEF Emulate, Others, view, Typed, Pis, Histories, JobStates
  <2>2. Moved({"setup"})
    BY <1>10, EmulateMoves DEF Moved, StepNames
  <2>3. busy
    BY <1>10 DEF Emulate, Does, At, busy
  <2> QED BY <2>1, <2>2, <2>3, PageQuiet DEF busy
<1>11. CASE Build
  <2>1. UNCHANGED <<front, form, pi.password, hist.auto, hist.agreed, job.req>>
    BY <1>11 DEF Build, Others, view, Typed, Pis, Histories, JobStates
  <2>2. Moved({"setup"})
    BY <1>11, BuildMoves DEF Moved, StepNames
  <2>3. busy
    BY <1>11 DEF Build, Does, At, busy
  <2> QED BY <2>1, <2>2, <2>3, PageQuiet DEF busy
<1>12. CASE Connect
  <2>1. UNCHANGED <<front, form, pi.password, hist.auto, hist.agreed, job.req>>
    BY <1>12 DEF Connect, Others, view, Typed, Pis, Histories, JobStates
  <2>2. Moved({"setup"})
    BY <1>12, ConnectMoves DEF Moved, StepNames
  <2>3. busy
    BY <1>12 DEF Connect, Does, At, busy
  <2> QED BY <2>1, <2>2, <2>3, PageQuiet DEF busy
<1>13. CASE Probe
  <2>1. UNCHANGED <<front, form, pi.password, hist.auto, hist.agreed, job.req>>
    BY <1>13 DEF Probe, Others, view, Typed, Pis, Histories, JobStates
  <2>2. Moved({"setup"})
    BY <1>13, ProbeMoves DEF Moved, StepNames
  <2>3. busy
    BY <1>13 DEF Probe, Does, At, busy
  <2> QED BY <2>1, <2>2, <2>3, PageQuiet DEF busy
<1>14. CASE Run
  <2>1. UNCHANGED <<front, form, pi.password, hist.auto, hist.agreed, job.req>>
    BY <1>14 DEF Run, Others, view, Typed, Pis, Histories, JobStates
  <2>2. Moved({"setup"})
    BY <1>14, RunMoves DEF Moved, StepNames
  <2>3. busy
    BY <1>14 DEF Run, Does, At, busy
  <2> QED BY <2>1, <2>2, <2>3, PageQuiet DEF busy
<1>15. CASE Bootstrap
  <2>1. UNCHANGED <<front, form, pi.password, hist.auto, hist.agreed, job.req>>
    BY <1>15 DEF Bootstrap, Bootstrapped, Others, view, Typed, Pis, Histories, JobStates
  <2>2. Moved({"setup"})
    BY <1>15, BootstrapMoves DEF Moved, StepNames
  <2>3. busy
    BY <1>15 DEF Bootstrap, Bootstrapped, Does, At, busy
  <2> QED BY <2>1, <2>2, <2>3, PageQuiet DEF busy
<1>16. CASE Setup
  <2>1. UNCHANGED <<front, form, hist, job.req, worker>> /\ pi'.password = job.req.pi
    BY <1>16 DEF Setup, SetUp, Others, view, Typed, Pis, JobStates
  <2>2. Forward("setup")
    BY <1>16, SetupMoves
  <2>3. job.req.kind = "alpine" /\ busy
    BY <2>2, Places DEF Forward, busy
  <2> QED BY <2>1, <2>3 DEF PageInv, busy
<1>17. CASE Artifacts
  <2>1. UNCHANGED <<front, form, pi.password, hist.auto, hist.agreed, job.req>>
    BY <1>17 DEF Artifacts, Others, view, Typed, Pis, Histories, JobStates
  <2>2. Moved({"setup"})
    BY <1>17, ArtifactsMoves DEF Moved, StepNames
  <2>3. busy
    BY <1>17 DEF Artifacts, Does, At, busy
  <2> QED BY <2>1, <2>2, <2>3, PageQuiet DEF busy
<1>18. CASE Stage
  <2>1. UNCHANGED <<front, form, pi.password, hist.auto, hist.agreed, job.req>>
    BY <1>18 DEF Stage, MadeStage, Others, view, Typed, Pis, Histories, JobStates
  <2>2. Moved({"setup"})
    BY <1>18, StageMoves DEF Moved, StepNames
  <2>3. busy
    BY <1>18 DEF Stage, MadeStage, Does, At, busy
  <2> QED BY <2>1, <2>2, <2>3, PageQuiet DEF busy
<1>19. CASE Upload
  <2>1. UNCHANGED <<front, form, pi.password, hist.auto, hist.agreed, job.req>>
    BY <1>19 DEF Upload, Uploaded, Others, view, Typed, Pis, Histories, JobStates
  <2>2. Moved({"setup"})
    BY <1>19, UploadMoves DEF Moved, StepNames
  <2>3. busy
    BY <1>19 DEF Upload, Uploaded, Does, At, busy
  <2> QED BY <2>1, <2>2, <2>3, PageQuiet DEF busy
<1>20. CASE Verify
  <2>1. UNCHANGED <<front, form, pi.password, hist.auto, hist.agreed, job.req>>
    BY <1>20 DEF Verify, Others, view, Typed, Pis, Histories, JobStates
  <2>2. Moved({"setup"})
    BY <1>20, VerifyMoves DEF Moved, StepNames
  <2>3. busy
    BY <1>20 DEF Verify, Does, At, busy
  <2> QED BY <2>1, <2>2, <2>3, PageQuiet DEF busy
<1>21. CASE PromoteStage
  <2>1. UNCHANGED <<front, form, pi.password, hist.auto, hist.agreed, job.req>>
    BY <1>21 DEF PromoteStage, Promoted, Others, view, Typed, Pis, Histories, JobStates
  <2>2. Moved({"setup"})
    BY <1>21, PromoteStageMoves DEF Moved, StepNames
  <2>3. busy
    BY <1>21 DEF PromoteStage, Promoted, Does, At, busy
  <2> QED BY <2>1, <2>2, <2>3, PageQuiet DEF busy
<1>22. CASE Install
  <2>1. UNCHANGED <<front, form, pi.password, hist.auto, hist.agreed, job.req>>
    BY <1>22 DEF Install, Installed, Others, view, Typed, Pis, Histories, JobStates
  <2>2. Moved({"setup"})
    BY <1>22, InstallMoves DEF Moved, StepNames
  <2>3. busy
    BY <1>22 DEF Install, Installed, Does, At, busy
  <2> QED BY <2>1, <2>2, <2>3, PageQuiet DEF busy
<1>23. CASE ReadBanner
  <2>1. UNCHANGED <<front, form, pi.password, hist.auto, hist.agreed, job.req>>
    BY <1>23 DEF ReadBanner, Told, Others, view, Typed, Pis, Histories, JobStates
  <2>2. Moved({"setup"})
    BY <1>23, ReadBannerMoves DEF Moved, StepNames
  <2>3. busy
    BY <1>23 DEF ReadBanner, Told, Does, At, busy
  <2> QED BY <2>1, <2>2, <2>3, PageQuiet DEF busy
<1>24. CASE NoBanner
  <2>1. UNCHANGED <<front, form, pi.password, hist.auto, hist.agreed, job.req>>
    BY <1>24 DEF NoBanner, Told, Others, view, Typed, Pis, Histories, JobStates
  <2>2. Moved({"setup"})
    BY <1>24, NoBannerMoves DEF Moved, StepNames
  <2>3. busy
    BY <1>24 DEF NoBanner, Told, Does, At, busy
  <2> QED BY <2>1, <2>2, <2>3, PageQuiet DEF busy
<1>25. CASE SkipBanner
  <2>1. UNCHANGED <<front, form, pi.password, hist.auto, hist.agreed, job.req>>
    BY <1>25 DEF SkipBanner, Told, Others, view, Typed, Pis, Histories, JobStates
  <2>2. Moved({"setup"})
    BY <1>25, SkipBannerMoves DEF Moved, StepNames
  <2>3. busy
    BY <1>25 DEF SkipBanner, Told, Does, At, busy
  <2> QED BY <2>1, <2>2, <2>3, PageQuiet DEF busy
<1>26. CASE ReadBootId
  <2>1. UNCHANGED <<front, form, pi.password, hist.auto, hist.agreed, job.req>>
    BY <1>26 DEF ReadBootId, Others, view, Typed, Pis, Histories, JobStates
  <2>2. Moved({"setup"})
    BY <1>26, ReadBootIdMoves DEF Moved, StepNames
  <2>3. busy
    BY <1>26 DEF ReadBootId, Does, At, busy
  <2> QED BY <2>1, <2>2, <2>3, PageQuiet DEF busy
<1>27. CASE Reboot
  <2>1. UNCHANGED <<front, form, pi.password, hist.auto, hist.agreed, job.req>>
    BY <1>27 DEF Reboot, Leaving, Others, view, Typed, Pis, Histories, JobStates
  <2>2. Moved({"setup"})
    BY <1>27, RebootMoves DEF Moved, StepNames
  <2>3. busy
    BY <1>27 DEF Reboot, Leaving, Does, At, busy
  <2> QED BY <2>1, <2>2, <2>3, PageQuiet DEF busy
<1>28. CASE TryAccount
  <2>1. UNCHANGED <<front, form, pi.password, hist.auto, hist.agreed, job.req>>
    BY <1>28 DEF TryAccount, Accepts, Others, view, Typed, Pis, Histories, JobStates
  <2>2. Moved({"setup"})
    BY <1>28, TryAccountMoves DEF Moved, StepNames
  <2>3. busy
    BY <1>28 DEF TryAccount, Accepts, Does, At, busy
  <2> QED BY <2>1, <2>2, <2>3, PageQuiet DEF busy
<1>29. CASE AwaitAppliance
  <2>1. UNCHANGED <<front, form, pi.password, hist.auto, hist.agreed, job.req>>
    BY <1>29 DEF AwaitAppliance, Others, view, Typed, Pis, Histories, JobStates
  <2>2. Moved({"setup"})
    BY <1>29, AwaitApplianceMoves DEF Moved, StepNames
  <2>3. busy
    BY <1>29 DEF AwaitAppliance, Does, At, busy
  <2> QED BY <2>1, <2>2, <2>3, PageQuiet DEF busy
<1>30. CASE NoAppliance
  <2>1. UNCHANGED <<front, form, pi, hist.auto, hist.agreed, job.req, worker>>
    BY <1>30 DEF NoAppliance, view, Typed, Histories, JobStates
  <2>2. job.req.kind = "deploy"
    BY <1>30, NoApplianceMoves DEF On
  <2> QED BY <2>1, <2>2 DEF PageInv, Past, On, busy
<1>31. CASE Restart
  <2>1. UNCHANGED <<front, form, pi.password, hist.auto, hist.agreed, job.req>>
    BY <1>31 DEF Restart, Served, Restarted, Others, view, Typed, Pis, Histories, JobStates, Restarted
  <2>2. Moved({"setup"})
    BY <1>31, RestartMoves DEF Moved, StepNames
  <2>3. busy
    BY <1>31 DEF Restart, Served, Restarted, Does, At, busy
  <2> QED BY <2>1, <2>2, <2>3, PageQuiet DEF busy
<1>32. CASE SetPassword
  <2>1. UNCHANGED <<front, form, pi.password, hist.auto, hist.agreed, job.req>>
    BY <1>32 DEF SetPassword, Secured, Others, view, Typed, Pis, Histories, JobStates
  <2>2. Moved({"setup"})
    BY <1>32, SetPasswordMoves DEF Moved, StepNames
  <2>3. busy
    BY <1>32 DEF SetPassword, Secured, Does, At, busy
  <2> QED BY <2>1, <2>2, <2>3, PageQuiet DEF busy
<1>33. CASE StartScript
  <2>1. UNCHANGED <<front, form, pi.password, hist.auto, hist.agreed, job.req>>
    BY <1>33 DEF StartScript, Others, view, Typed, Pis, Histories, JobStates
  <2>2. Moved({"setup"})
    BY <1>33, StartScriptMoves DEF Moved, StepNames
  <2>3. busy
    BY <1>33 DEF StartScript, Does, At, busy
  <2> QED BY <2>1, <2>2, <2>3, PageQuiet DEF busy
<1>34. CASE ReadExit
  <2>1. UNCHANGED <<front, form, pi.password, hist.auto, hist.agreed, job.req>>
    BY <1>34 DEF ReadExit, Others, view, Typed, Pis, Histories, JobStates
  <2>2. Moved({"setup"})
    BY <1>34, ReadExitMoves DEF Moved, StepNames
  <2>3. busy
    BY <1>34 DEF ReadExit, Does, At, busy
  <2> QED BY <2>1, <2>2, <2>3, PageQuiet DEF busy
<1>35. CASE Unanswered
  <2>1. /\ UNCHANGED <<front, form, hist.auto, hist.agreed, job.req>> /\ At(Head(job.todo))
        /\ Head(job.todo) \in Commands
    BY <1>35, UnansweredAt, UnansweredLeaves, FailedLeaves
  <2>2. Off /\ busy
    BY <1>35, <2>1, UnansweredMoves DEF At, busy
  <2>3. CASE At("setup")
    <3>1. "setup" \in StepNames \ {"over", "unstage"}
      BY DEF StepNames
    <3>2. Fits(job.req, "setup", Left)
      BY <2>3, <3>1, AtPlace, Zenon
    <3>3. job.req.kind = "alpine"
      BY <3>2, Places
    <3>4. pi'.password \in {pi.password, job.req.pi}
      BY <1>35, <2>3 DEF Unanswered, Does, At, SetUp, Typed, Pis
    <3> QED BY <2>1, <2>2, <3>3, <3>4 DEF PageInv, Past, On, Off
  <2>4. CASE ~At("setup")
    <3>1. pi'.password = pi.password
      BY <1>35, <2>4, UnansweredLeaves
    <3> QED BY <2>1, <2>2, <3>1 DEF PageInv, Past, On, Off
  <2> QED BY <2>3, <2>4
<1>36. CASE PiStops
  <2>1. UNCHANGED <<front, form, pi.password, hist.auto, hist.agreed, job.req>>
    BY <1>36 DEF PiStops, Others, view, Typed, Pis, Histories, JobStates
  <2>2. Moved({"setup"})
    BY <1>36, StillMoves DEF Moved, StepNames
  <2>3. worker'.run = worker.run
    BY <1>36 DEF PiStops, Typed, Workers
  <2> QED BY <2>1, <2>2, <2>3, PageQuiet DEF busy
<1>37. CASE PiBoots
  <2>1. UNCHANGED <<front, form, pi.password, hist.auto, hist.agreed, job.req>>
    BY <1>37 DEF PiBoots, Others, view, Typed, Pis, Histories, JobStates, Restarted
  <2>2. Moved({"setup"})
    BY <1>37, StillMoves DEF Moved, StepNames
  <2>3. worker'.run = worker.run
    BY <1>37 DEF PiBoots, Typed, Workers
  <2> QED BY <2>1, <2>2, <2>3, PageQuiet DEF busy
<1>38. CASE ContainerPrints
  <2>1. UNCHANGED <<front, form, pi.password, hist.auto, hist.agreed, job.req>>
    BY <1>38 DEF ContainerPrints, Others, view, Typed, Pis, Histories, JobStates
  <2>2. Moved({"setup"})
    BY <1>38, StillMoves DEF Moved, StepNames
  <2>3. worker'.run = worker.run
    BY <1>38 DEF ContainerPrints, Typed, Workers
  <2> QED BY <2>1, <2>2, <2>3, PageQuiet DEF busy
<1>39. CASE LosesSession
  <2>1. UNCHANGED <<front, form, pi.password, hist.auto, hist.agreed, job.req>>
    BY <1>39 DEF LosesSession, Others, view, Typed, Pis, Histories, JobStates
  <2>2. Moved({"setup"})
    BY <1>39, StillMoves DEF Moved, StepNames
  <2>3. worker'.run = worker.run
    BY <1>39 DEF LosesSession, Typed, Workers
  <2> QED BY <2>1, <2>2, <2>3, PageQuiet DEF busy
<1>40. CASE EditTree
  <2>1. UNCHANGED <<front, form, pi.password, hist.auto, hist.agreed, job.req>>
    BY <1>40 DEF EditTree, Others, view, Typed, Pis, Histories, JobStates
  <2>2. Moved({"setup"})
    BY <1>40, StillMoves DEF Moved, StepNames
  <2>3. worker'.run = worker.run
    BY <1>40 DEF EditTree, Typed, Workers
  <2> QED BY <2>1, <2>2, <2>3, PageQuiet DEF busy
<1>41. CASE \E k \in Kinds : Press(k)
  <2>1. PICK k \in Kinds : Press(k)
    BY <1>41
  <2>2. /\ UNCHANGED <<front, form, pi, hist>>
        /\ (Idles /\ Same) \/ (Fresh(k, form.pi) /\ k \notin Asks)
    BY <2>1, PressMoves
  <2>3. CASE Idles /\ Same
    BY <2>2, <2>3, PageQuiet DEF Idles, Moved, busy
  <2>4. CASE Fresh(k, form.pi) /\ k \notin Asks
    BY <2>2, <2>4, PageFresh DEF Asks
  <2> QED BY <2>2, <2>3, <2>4
<1>42. CASE \E k \in Kinds, opts \in SUBSET Options : CliRuns(k, opts)
  <2>1. PICK k \in Kinds, opts \in SUBSET Options : CliRuns(k, opts)
    BY <1>42
  <2>2. /\ UNCHANGED <<front, form, pi>> /\ hist' = [hist EXCEPT !.agreed = k] /\ front = "cli"
        /\ \E p \in Passwords : Fresh(k, p)
    BY <2>1, CliRunsMoves
  <2>3. PICK p \in Passwords : Fresh(k, p)
    BY <2>2
  <2>4. hist'.auto = hist.auto /\ hist'.agreed = k /\ ~hist.auto
    BY <2>2 DEF Typed, Histories, PageInv
  <2> QED BY <2>2, <2>3, <2>4, PageFresh
<1>43. CASE (\E k \in Kinds, opts \in SUBSET Options : CliRefused(k, opts)) \/ CliExits
  <2>1. UNCHANGED <<front, form, pi>> /\ Exits
    BY <1>43, CliEndMoves
  <2>2. worker' = Free /\ hist'.auto = hist.auto
    BY <2>1 DEF Exits, Forgotten, Typed, Histories
  <2> QED BY <2>1, <2>2, PageIdle DEF PageInv
<1>44. CASE Accept
  <2>0. UNCHANGED <<front, form, pi>>
    BY <1>44, AcceptMoves
  <2>1. ASSUME Exits PROVE PageInv'
    <3>1. worker' = Free /\ hist'.auto = hist.auto
      BY <2>1 DEF Exits, Forgotten, Typed, Histories
    <3> QED BY <2>0, <3>1, PageIdle DEF PageInv
  <2>2. ASSUME Idles, Same PROVE PageInv'
    BY <2>0, <2>2, PageQuiet DEF Idles, Moved, busy
  <2>3. ASSUME Fresh(confirm, form.pi),
               hist' = [hist EXCEPT !.agreed = confirm, !.auto = @ /\ confirm # "alpine"]
        PROVE  PageInv'
    <3>1. hist'.agreed = confirm /\ hist'.auto = (hist.auto /\ confirm # "alpine")
      BY <2>3 DEF Typed, Histories
    <3> QED BY <2>0, <2>3, <3>1, PageFresh
  <2> QED BY <1>44, <2>1, <2>2, <2>3, AcceptMoves
<1>45. CASE Decline
  <2>1. UNCHANGED <<front, form, pi.password, hist.auto, hist.agreed, job.req>>
    BY <1>45 DEF Decline, Others, view, Typed, Pis, Histories, JobStates
  <2>2. Moved({"setup"})
    BY <1>45, StillMoves DEF Moved, StepNames
  <2>3. worker'.run = worker.run
    BY <1>45 DEF Decline, Typed, Workers
  <2> QED BY <2>1, <2>2, <2>3, PageQuiet DEF busy
<1>46. CASE Quit
  <2>0. UNCHANGED <<front, form, pi>>
    BY <1>46, QuitMoves
  <2>1. ASSUME Exits PROVE PageInv'
    <3>1. worker' = Free /\ hist'.auto = hist.auto
      BY <2>1 DEF Exits, Forgotten, Typed, Histories
    <3> QED BY <2>0, <3>1, PageIdle DEF PageInv
  <2>2. ASSUME Idles, Same PROVE PageInv'
    BY <2>0, <2>2, PageQuiet DEF Idles, Moved, busy
  <2> QED BY <1>46, <2>1, <2>2, QuitMoves
<1>47. CASE Cancel
  <2>1. UNCHANGED <<front, form, pi.password, hist.auto, hist.agreed, job.req>>
    BY <1>47 DEF Cancel, Others, view, Typed, Pis, Histories, JobStates
  <2>2. Moved({"setup"})
    BY <1>47, StillMoves DEF Moved, StepNames
  <2>3. worker'.run = worker.run
    BY <1>47 DEF Cancel, Typed, Workers
  <2> QED BY <2>1, <2>2, <2>3, PageQuiet DEF busy
<1>48. CASE \E p \in Passwords, apply \in BOOLEAN : SetFields(p, apply)
  <2>1. PICK p \in Passwords, apply \in BOOLEAN : SetFields(p, apply)
    BY <1>48
  <2>2. UNCHANGED <<front, worker, job, pi, hist>> /\ form'.login = form.login /\ ~busy
    BY <2>1 DEF SetFields, Typed, Forms
  <2>3. ~busy' /\ ~Working'
    BY <2>2 DEF busy, Working
  <2> QED BY <2>2, <2>3 DEF PageInv, Past, On
<1>49. CASE PollWorker
  <2>0. UNCHANGED <<front, pi>> /\ front = "page" /\ busy
    BY <1>49, PollWorkerMoves
  <2>1. ASSUME Same, UNCHANGED <<job, hist>>, form' = form PROVE PageInv'
    BY <2>0, <2>1, PageQuiet DEF Moved
  <2>2. ASSUME worker.run # "running", job' = Idle, worker' = Free,
               form' = [form EXCEPT !.login = IF Switches THEN form.pi ELSE @],
               hist' = [Forgotten EXCEPT !.auto = @ \/ Switches, !.said = hist.said]
        PROVE  PageInv'
    <3>1. hist'.auto = (hist.auto \/ Switches) /\ form'.login = (IF Switches THEN form.pi ELSE form.login)
      BY <2>2 DEF Forgotten, Typed, Histories, Forms
    <3>2. Switches => form.pi = pi.password
      <4> SUFFICES ASSUME Switches PROVE form.pi = pi.password
        OBVIOUS
      <4>1. worker.run = "ok" /\ job.req.kind = "alpine" /\ job.todo = <<>>
        BY DEF Switches, FrontInv
      <4>2. Left = 0 /\ Working
        BY <4>1, LastLists DEF Left, Place, Extra, Working
      <4>3. pi.password = job.req.pi
        BY <4>1, <4>2 DEF PageInv, Past, On
      <4> QED BY <2>0, <4>3 DEF PageInv
    <3> QED BY <2>0, <2>2, <3>1, <3>2, PageIdle DEF PageInv
  <2> QED BY <1>49, <2>1, <2>2, PollWorkerMoves
<1>50. CASE AddNetwork \/ Associate
  <2>1. UNCHANGED <<front, form, pi.password, hist.auto, hist.agreed, job, worker>> /\ Same
    BY <1>50, ScriptLeaves, StillMoves
  <2> QED BY <2>1, PageQuiet DEF Moved, busy
<1> QED BY <1>1, <1>2, <1>3, <1>4, <1>5, <1>6, <1>7, <1>8, <1>9, <1>10, <1>11, <1>12, <1>13,
           <1>14, <1>15, <1>16, <1>17, <1>18, <1>19, <1>20, <1>21, <1>22, <1>23, <1>24,
           <1>25, <1>26, <1>27, <1>28, <1>29, <1>30, <1>31, <1>32, <1>33, <1>34, <1>35,
           <1>36, <1>37, <1>38, <1>39, <1>40, <1>41, <1>42, <1>43, <1>44, <1>45, <1>46,
           <1>47, <1>48, <1>49, <1>50
       DEF DeployerNext, JobStep, PiStep, Operator

\* A step that leaves the Pi's boot and the wait alone.
LEMMA BootQuiet ==
  ASSUME Typed, BootInv, PlanInv, Moved({"reboot"}),
         UNCHANGED <<pi.boot, pi.sshd, pi.going, pi.accounts, job.boot, job.saw, job.lost>>,
         job'.conn = job.conn \/ job'.conn = 0
  PROVE  BootInv'
<1>1. Waiting' => Waiting
  <2>1. CASE Same \/ Off
    BY <2>1 DEF Waiting, On, Same, Off
  <2>2. ASSUME NEW s \in StepNames \ {"reboot"}, Forward(s) PROVE ~Waiting'
    <3>1. ~(Left = 4 /\ job.req.kind = "deploy") /\ ~(Left = 2 /\ job.req.kind = "alpine")
      BY <2>2 DEF Forward, Fits, AlpinePlan, DeployPlan, RebuildPlan, RotatePlan, Known
    <3>2. job'.req = job.req /\ Left' = Left - 1 /\ Left \in Int
      BY <2>2 DEF Forward
    <3> QED BY <3>1, <3>2 DEF Waiting, On
  <2> QED BY <2>1, <2>2 DEF Moved
<1>2. job'.conn <= pi.boot /\ (Waiting' => job'.conn = 0)
  BY <1>1, FieldTypes DEF BootInv
<1> QED BY <1>1, <1>2 DEF BootInv

\* No job waits for a reboot.
LEMMA BootBusy ==
  ASSUME BootInv, ~Waiting', UNCHANGED <<pi.boot, pi.sshd>>, pi.going => pi'.going,
         job'.conn <= pi.boot, job'.boot <= pi.boot
  PROVE  BootInv'
BY DEF BootInv

\* A new job has no session, and none is left of an old one.
LEMMA BootFresh ==
  ASSUME Typed, BootInv, NEW kind, NEW p, Fresh(kind, p), UNCHANGED pi
  PROVE  BootInv'
<1>1. (kind = "deploy" => Left' >= 15) /\ (kind = "alpine" => Left' >= 6)
  BY DEF Fresh, Begun
<1>2. Left' \in Int
  BY ExtraIsNat DEF Fresh, Begun, Place
<1>3. ~Waiting'
  BY <1>1, <1>2 DEF Waiting, On, Fresh
<1> QED BY <1>3, FieldTypes, BootBusy DEF Fresh

LEMMA BootIdle ==
  ASSUME Typed, BootInv, job' = Idle, Off, UNCHANGED pi
  PROVE  BootInv'
<1>1. job'.conn = 0 /\ job'.boot = 0 /\ ~Waiting'
  BY IdleFields DEF Off, Waiting, On
<1> QED BY <1>1, FieldTypes, BootBusy

\* An account seen down is refused by the old system until the new one is up.
LEMMA BootStep ==
  ASSUME Typed, PlanInv, FrontInv, BootInv, DeployerNext
  PROVE  BootInv'
<1>1. CASE Fails
  <2>1. UNCHANGED <<pi.boot, pi.sshd, pi.going, pi.accounts, job.boot, job.saw, job.lost, job.conn>>
    BY <1>1 DEF Fails, Failed, Others, view, Typed, Pis, JobStates
  <2>2. Moved({"reboot"})
    BY <1>1, FailsMoves DEF Moved, StepNames
  <2> QED BY <2>1, <2>2, BootQuiet
<1>2. CASE Unstage
  <2>1. UNCHANGED <<pi.boot, pi.sshd, pi.going, pi.accounts, job.boot, job.saw, job.lost, job.conn>>
    BY <1>2 DEF Unstage, Others, view, Typed, Pis, JobStates
  <2>2. Moved({"reboot"})
    BY <1>2, UnstageMoves DEF Moved, StepNames
  <2> QED BY <2>1, <2>2, BootQuiet
<1>3. CASE Report
  <2>1. UNCHANGED <<pi.boot, pi.sshd, pi.going, pi.accounts, job.boot, job.saw, job.lost, job.conn>>
    BY <1>3 DEF Report, Others, view, Typed, Pis, JobStates
  <2>2. Moved({"reboot"})
    BY <1>3, ReportMoves DEF Moved, StepNames
  <2> QED BY <2>1, <2>2, BootQuiet
<1>4. CASE Finish
  <2>1. UNCHANGED <<pi.boot, pi.sshd, pi.going, pi.accounts, job.boot, job.saw, job.lost, job.conn>>
    BY <1>4 DEF Finish, Others, view, Typed, Pis, JobStates
  <2>2. Moved({"reboot"})
    BY <1>4, FinishMoves DEF Moved, StepNames
  <2> QED BY <2>1, <2>2, BootQuiet
<1>5. CASE CheckCard
  <2>1. UNCHANGED <<pi.boot, pi.sshd, pi.going, pi.accounts, job.boot, job.saw, job.lost, job.conn>>
    BY <1>5 DEF CheckCard, Others, view, Typed, Pis, JobStates
  <2>2. Moved({"reboot"})
    BY <1>5, CheckCardMoves DEF Moved, StepNames
  <2> QED BY <2>1, <2>2, BootQuiet
<1>6. CASE Download
  <2>1. UNCHANGED <<pi.boot, pi.sshd, pi.going, pi.accounts, job.boot, job.saw, job.lost, job.conn>>
    BY <1>6 DEF Download, Others, view, Typed, Pis, JobStates
  <2>2. Moved({"reboot"})
    BY <1>6, DownloadMoves DEF Moved, StepNames
  <2> QED BY <2>1, <2>2, BootQuiet
<1>7. CASE Checksum
  <2>1. UNCHANGED <<pi.boot, pi.sshd, pi.going, pi.accounts, job.boot, job.saw, job.lost, job.conn>>
    BY <1>7 DEF Checksum, Others, view, Typed, Pis, JobStates
  <2>2. Moved({"reboot"})
    BY <1>7, ChecksumMoves DEF Moved, StepNames
  <2> QED BY <2>1, <2>2, BootQuiet
<1>8. CASE WriteOverlay
  <2>1. UNCHANGED <<pi.boot, pi.sshd, pi.going, pi.accounts, job.boot, job.saw, job.lost, job.conn>>
    BY <1>8 DEF WriteOverlay, Others, view, Typed, Pis, JobStates, Writes
  <2>2. Moved({"reboot"})
    BY <1>8, WriteOverlayMoves DEF Moved, StepNames
  <2> QED BY <2>1, <2>2, BootQuiet
<1>9. CASE WriteWifi
  <2>1. UNCHANGED <<pi.boot, pi.sshd, pi.going, pi.accounts, job.boot, job.saw, job.lost, job.conn>>
    BY <1>9 DEF WriteWifi, Others, view, Typed, Pis, JobStates, Writes
  <2>2. Moved({"reboot"})
    BY <1>9, WriteWifiMoves DEF Moved, StepNames
  <2> QED BY <2>1, <2>2, BootQuiet
<1>10. CASE Emulate
  <2>1. UNCHANGED <<pi.boot, pi.sshd, pi.going, pi.accounts, job.boot, job.saw, job.lost, job.conn>>
    BY <1>10 DEF Emulate, Others, view, Typed, Pis, JobStates
  <2>2. Moved({"reboot"})
    BY <1>10, EmulateMoves DEF Moved, StepNames
  <2> QED BY <2>1, <2>2, BootQuiet
<1>11. CASE Build
  <2>1. UNCHANGED <<pi.boot, pi.sshd, pi.going, pi.accounts, job.boot, job.saw, job.lost, job.conn>>
    BY <1>11 DEF Build, Others, view, Typed, Pis, JobStates
  <2>2. Moved({"reboot"})
    BY <1>11, BuildMoves DEF Moved, StepNames
  <2> QED BY <2>1, <2>2, BootQuiet
<1>12. CASE Connect
  <2>1. UNCHANGED <<pi, job.boot>> /\ job'.conn = pi.boot
    BY <1>12 DEF Connect, Typed, JobStates
  <2>2. Forward("connect")
    BY <1>12, ConnectMoves
  <2>3. ~Waiting'
    BY <2>2, SharedPlaces DEF Forward, Waiting, On
  <2> QED BY <2>1, <2>3, BootBusy, FieldTypes DEF BootInv
<1>13. CASE Probe
  <2>1. UNCHANGED <<pi.boot, pi.sshd, pi.going, pi.accounts, job.boot, job.saw, job.lost, job.conn>>
    BY <1>13 DEF Probe, Others, view, Typed, Pis, JobStates
  <2>2. Moved({"reboot"})
    BY <1>13, ProbeMoves DEF Moved, StepNames
  <2> QED BY <2>1, <2>2, BootQuiet
<1>14. CASE Run
  <2>1. UNCHANGED <<pi.boot, pi.sshd, pi.going, pi.accounts, job.boot, job.saw, job.lost, job.conn>>
    BY <1>14 DEF Run, Others, view, Typed, Pis, JobStates
  <2>2. Moved({"reboot"})
    BY <1>14, RunMoves DEF Moved, StepNames
  <2> QED BY <2>1, <2>2, BootQuiet
<1>15. CASE Bootstrap
  <2>1. UNCHANGED <<pi.boot, pi.sshd, pi.going, pi.accounts, job.boot, job.saw, job.lost, job.conn>>
    BY <1>15 DEF Bootstrap, Bootstrapped, Others, view, Typed, Pis, JobStates
  <2>2. Moved({"reboot"})
    BY <1>15, BootstrapMoves DEF Moved, StepNames
  <2> QED BY <2>1, <2>2, BootQuiet
<1>16. CASE Setup
  <2>1. UNCHANGED <<pi.boot, pi.sshd, pi.going, job.boot, job.conn>>
    BY <1>16 DEF Setup, SetUp, Typed, Pis, JobStates
  <2>2. Forward("setup")
    BY <1>16, SetupMoves
  <2>3. ~Waiting'
    BY <2>2, Places DEF Forward, Waiting, On
  <2> QED BY <2>1, <2>3, BootBusy DEF BootInv
<1>17. CASE Artifacts
  <2>1. UNCHANGED <<pi.boot, pi.sshd, pi.going, pi.accounts, job.boot, job.saw, job.lost, job.conn>>
    BY <1>17 DEF Artifacts, Others, view, Typed, Pis, JobStates
  <2>2. Moved({"reboot"})
    BY <1>17, ArtifactsMoves DEF Moved, StepNames
  <2> QED BY <2>1, <2>2, BootQuiet
<1>18. CASE Stage
  <2>1. UNCHANGED <<pi.boot, pi.sshd, pi.going, pi.accounts, job.boot, job.saw, job.lost, job.conn>>
    BY <1>18 DEF Stage, MadeStage, Others, view, Typed, Pis, JobStates
  <2>2. Moved({"reboot"})
    BY <1>18, StageMoves DEF Moved, StepNames
  <2> QED BY <2>1, <2>2, BootQuiet
<1>19. CASE Upload
  <2>1. UNCHANGED <<pi.boot, pi.sshd, pi.going, pi.accounts, job.boot, job.saw, job.lost, job.conn>>
    BY <1>19 DEF Upload, Uploaded, Others, view, Typed, Pis, JobStates
  <2>2. Moved({"reboot"})
    BY <1>19, UploadMoves DEF Moved, StepNames
  <2> QED BY <2>1, <2>2, BootQuiet
<1>20. CASE Verify
  <2>1. UNCHANGED <<pi.boot, pi.sshd, pi.going, pi.accounts, job.boot, job.saw, job.lost, job.conn>>
    BY <1>20 DEF Verify, Others, view, Typed, Pis, JobStates
  <2>2. Moved({"reboot"})
    BY <1>20, VerifyMoves DEF Moved, StepNames
  <2> QED BY <2>1, <2>2, BootQuiet
<1>21. CASE PromoteStage
  <2>1. UNCHANGED <<pi.boot, pi.sshd, pi.going, pi.accounts, job.boot, job.saw, job.lost, job.conn>>
    BY <1>21 DEF PromoteStage, Promoted, Others, view, Typed, Pis, JobStates
  <2>2. Moved({"reboot"})
    BY <1>21, PromoteStageMoves DEF Moved, StepNames
  <2> QED BY <2>1, <2>2, BootQuiet
<1>22. CASE Install
  <2>1. UNCHANGED <<pi.boot, pi.sshd, pi.going, pi.accounts, job.boot, job.saw, job.lost, job.conn>>
    BY <1>22 DEF Install, Installed, Others, view, Typed, Pis, JobStates
  <2>2. Moved({"reboot"})
    BY <1>22, InstallMoves DEF Moved, StepNames
  <2> QED BY <2>1, <2>2, BootQuiet
<1>23. CASE ReadBanner
  <2>1. UNCHANGED <<pi.boot, pi.sshd, pi.going, pi.accounts, job.boot, job.saw, job.lost, job.conn>>
    BY <1>23 DEF ReadBanner, Told, Others, view, Typed, Pis, JobStates
  <2>2. Moved({"reboot"})
    BY <1>23, ReadBannerMoves DEF Moved, StepNames
  <2> QED BY <2>1, <2>2, BootQuiet
<1>24. CASE NoBanner
  <2>1. UNCHANGED <<pi.boot, pi.sshd, pi.going, pi.accounts, job.boot, job.saw, job.lost, job.conn>>
    BY <1>24 DEF NoBanner, Told, Others, view, Typed, Pis, JobStates
  <2>2. Moved({"reboot"})
    BY <1>24, NoBannerMoves DEF Moved, StepNames
  <2> QED BY <2>1, <2>2, BootQuiet
<1>25. CASE SkipBanner
  <2>1. UNCHANGED <<pi.boot, pi.sshd, pi.going, pi.accounts, job.boot, job.saw, job.lost, job.conn>>
    BY <1>25 DEF SkipBanner, Told, Others, view, Typed, Pis, JobStates
  <2>2. Moved({"reboot"})
    BY <1>25, SkipBannerMoves DEF Moved, StepNames
  <2> QED BY <2>1, <2>2, BootQuiet
<1>26. CASE ReadBootId
  <2>1. UNCHANGED <<pi, job.conn>> /\ job'.boot = pi.boot
    BY <1>26 DEF ReadBootId, Typed, JobStates
  <2>2. Forward("boot_id")
    BY <1>26, ReadBootIdMoves
  <2>3. ~Waiting'
    BY <2>2, SharedPlaces DEF Forward, Waiting, On
  <2> QED BY <2>1, <2>3, BootBusy, FieldTypes DEF BootInv
<1>27. CASE Reboot
  <2>1. /\ UNCHANGED <<pi.boot, pi.sshd, pi.accounts, job.boot>> /\ pi'.going
        /\ job'.conn = 0 /\ job'.saw = {} /\ job'.lost = {}
    BY <1>27 DEF Reboot, Leaving, Typed, Pis, JobStates
  <2> QED BY <2>1, FieldTypes DEF BootInv
<1>28. CASE TryAccount
  <2>1. At("wait") /\ UNCHANGED <<pi, job.boot>>
    BY <1>28 DEF TryAccount, Accepts, Typed, JobStates
  <2>2. CASE Forward("wait") /\ job'.todo = Tail(job.todo)
    <3>1. job'.conn \in {job.conn, pi.boot}
      BY <1>28 DEF TryAccount, Accepts, Typed, JobStates
    <3>2. ~Waiting'
      BY <2>2, SharedPlaces DEF Forward, Waiting, On
    <3> QED BY <2>1, <3>1, <3>2, BootBusy, FieldTypes DEF BootInv
  <2>3. CASE Same /\ job'.todo = job.todo
    <3>1. Rest # job.todo
      <4>1. job.todo \in Seq(StepNames) /\ job.todo # <<>>
        BY <2>1 DEF At, Typed, JobStates
      <4>2. Len(Rest) = Len(job.todo) - 1 /\ Len(job.todo) \in Nat
        BY <4>1 DEF Rest
      <4> QED BY <4>2
    <3>2. job'.conn = job.conn
      BY <1>28, <2>3, <3>1 DEF TryAccount, Accepts, Typed, JobStates
    <3>3. \A a \in job'.saw \ job'.lost : a \in job.saw \ job.lost \/ ~Accepts(a)
      <4> DEFINE account == Accounts[job.account]
                 lost == IF Accepts(account) THEN job.lost \cup {account} ELSE job.lost
      <4>1. \/ job' = [job EXCEPT !.saw = @ \cup {account}, !.lost = lost, !.account = NextAccount,
                                  !.left = Round]
            \/ job' = [job EXCEPT !.todo = Rest, !.conn = pi.boot, !.left = Patience]
            \/ job' = [job EXCEPT !.account = NextAccount, !.left = Round]
        BY <1>28 DEF TryAccount
      <4>5. (Accepts(account) => account \in lost) /\ job.lost \subseteq lost
        OBVIOUS
      <4> HIDE DEF account, lost
      <4>2. CASE job' = [job EXCEPT !.saw = @ \cup {account}, !.lost = lost, !.account = NextAccount,
                                    !.left = Round]
        <5>1. job'.saw = job.saw \cup {account} /\ job'.lost = lost
          BY <4>2 DEF Typed, JobStates
        <5> QED BY <4>5, <5>1
      <4>3. CASE \/ job' = [job EXCEPT !.todo = Rest, !.conn = pi.boot, !.left = Patience]
                 \/ job' = [job EXCEPT !.account = NextAccount, !.left = Round]
        <5>1. job'.saw = job.saw /\ job'.lost = job.lost
          BY <4>3 DEF Typed, JobStates
        <5> QED BY <5>1
      <4> QED BY <4>1, <4>2, <4>3
    <3>4. Waiting' => Waiting
      BY <2>3 DEF Same, Waiting, On
    <3> QED BY <2>1, <3>2, <3>3, <3>4 DEF BootInv, Accepts
  <2> QED BY <1>28, <2>2, <2>3, TryAccountMoves
<1>29. CASE AwaitAppliance
  <2>1. UNCHANGED <<pi.boot, pi.sshd, pi.going, pi.accounts, job.boot, job.saw, job.lost, job.conn>>
    BY <1>29 DEF AwaitAppliance, Others, view, Typed, Pis, JobStates
  <2>2. Moved({"reboot"})
    BY <1>29, AwaitApplianceMoves DEF Moved, StepNames
  <2> QED BY <2>1, <2>2, BootQuiet
<1>30. CASE NoAppliance
  <2>1. UNCHANGED <<pi, job.conn, job.boot>>
    BY <1>30 DEF NoAppliance, Typed, JobStates
  <2>2. ~Waiting'
    BY <1>30, NoApplianceMoves DEF Waiting, On
  <2> QED BY <2>1, <2>2, BootBusy DEF BootInv
<1>31. CASE Restart
  <2>1. UNCHANGED <<pi.boot, pi.sshd, pi.going, pi.accounts, job.boot, job.saw, job.lost, job.conn>>
    BY <1>31 DEF Restart, Served, Restarted, Others, view, Typed, Pis, JobStates
  <2>2. Moved({"reboot"})
    BY <1>31, RestartMoves DEF Moved, StepNames
  <2> QED BY <2>1, <2>2, BootQuiet
<1>32. CASE SetPassword
  <2>1. UNCHANGED <<pi.boot, pi.sshd, pi.going, pi.accounts, job.boot, job.saw, job.lost, job.conn>>
    BY <1>32 DEF SetPassword, Secured, Others, view, Typed, Pis, JobStates
  <2>2. Moved({"reboot"})
    BY <1>32, SetPasswordMoves DEF Moved, StepNames
  <2> QED BY <2>1, <2>2, BootQuiet
<1>33. CASE StartScript
  <2>1. UNCHANGED <<pi.boot, pi.sshd, pi.going, pi.accounts, job.boot, job.saw, job.lost, job.conn>>
    BY <1>33 DEF StartScript, Others, view, Typed, Pis, JobStates
  <2>2. Moved({"reboot"})
    BY <1>33, StartScriptMoves DEF Moved, StepNames
  <2> QED BY <2>1, <2>2, BootQuiet
<1>34. CASE ReadExit
  <2>1. UNCHANGED <<pi.boot, pi.sshd, pi.going, pi.accounts, job.boot, job.saw, job.lost, job.conn>>
    BY <1>34 DEF ReadExit, Others, view, Typed, Pis, JobStates
  <2>2. Moved({"reboot"})
    BY <1>34, ReadExitMoves DEF Moved, StepNames
  <2> QED BY <2>1, <2>2, BootQuiet
<1>35. CASE Unanswered
  <2>1. UNCHANGED <<pi.boot, pi.sshd, job.conn, job.boot>> /\ (pi.going => pi'.going)
    BY <1>35, UnansweredAt, UnansweredLeaves, FailedLeaves
  <2>2. ~Waiting'
    BY <1>35, UnansweredMoves DEF Off, Waiting, On
  <2> QED BY <2>1, <2>2, BootBusy DEF BootInv
<1>36. CASE PiStops
  <2>1. /\ UNCHANGED <<pi.boot, pi.going, pi.accounts, job.boot, job.saw, job.lost, job.conn>>
        /\ pi'.sshd = FALSE /\ pi.going
    BY <1>36 DEF PiStops, Typed, Pis
  <2>2. Waiting' => Waiting
    BY <1>36, StillMoves DEF Same, Waiting, On
  <2> QED BY <2>1, <2>2 DEF BootInv
<1>37. CASE PiBoots
  <2>1. UNCHANGED <<job.boot, job.conn, job.saw, job.lost>> /\ pi'.boot = pi.boot + 1 /\ pi'.sshd = TRUE
    BY <1>37 DEF PiBoots, Typed, Pis
  <2>2. Waiting' => Waiting
    BY <1>37, StillMoves DEF Same, Waiting, On
  <2>3. job.conn \in Nat /\ job.boot \in Nat /\ pi.boot \in Nat
    BY DEF Typed, JobStates, Pis
  <2> QED BY <2>1, <2>2, <2>3 DEF BootInv
<1>38. CASE ContainerPrints
  <2>1. UNCHANGED <<pi.boot, pi.sshd, pi.going, pi.accounts, job.boot, job.saw, job.lost, job.conn>>
    BY <1>38 DEF ContainerPrints, Others, view, Typed, Pis, JobStates
  <2>2. Moved({"reboot"})
    BY <1>38, StillMoves DEF Moved, StepNames
  <2> QED BY <2>1, <2>2, BootQuiet
<1>39. CASE LosesSession
  <2>1. UNCHANGED <<pi, job.boot, job.saw, job.lost>> /\ job'.conn = 0
    BY <1>39 DEF LosesSession, Typed, JobStates
  <2>2. Moved({"reboot"})
    BY <1>39, StillMoves DEF Moved
  <2> QED BY <2>1, <2>2, BootQuiet
<1>40. CASE EditTree
  <2>1. UNCHANGED <<pi.boot, pi.sshd, pi.going, pi.accounts, job.boot, job.saw, job.lost, job.conn>>
    BY <1>40 DEF EditTree, Others, view, Typed, Pis, JobStates
  <2>2. Moved({"reboot"})
    BY <1>40, StillMoves DEF Moved, StepNames
  <2> QED BY <2>1, <2>2, BootQuiet
<1>41. CASE \E k \in Kinds : Press(k)
  <2>1. PICK k \in Kinds : Press(k)
    BY <1>41
  <2>2. pi' = pi /\ ((Idles /\ Same) \/ Fresh(k, form.pi))
    BY <2>1, PressMoves
  <2>3. CASE Idles /\ Same
    BY <2>2, <2>3, BootQuiet DEF Idles, Moved
  <2> QED BY <2>2, <2>3, BootFresh
<1>42. CASE \E k \in Kinds, opts \in SUBSET Options : CliRuns(k, opts)
  <2>1. PICK k \in Kinds, opts \in SUBSET Options : CliRuns(k, opts)
    BY <1>42
  <2>2. pi' = pi /\ \E p \in Passwords : Fresh(k, p)
    BY <2>1, CliRunsMoves
  <2> QED BY <2>2, BootFresh
<1>43. CASE (\E k \in Kinds, opts \in SUBSET Options : CliRefused(k, opts)) \/ CliExits
  <2>1. pi' = pi /\ Off /\ job' = Idle
    BY <1>43, CliEndMoves DEF Exits
  <2> QED BY <2>1, BootIdle
<1>44. CASE Accept
  <2>1. pi' = pi /\ ((job' = Idle /\ Off) \/ (Idles /\ Same) \/ Fresh(confirm, form.pi))
    BY <1>44, AcceptMoves DEF Exits
  <2>2. CASE Idles /\ Same
    BY <2>1, <2>2, BootQuiet DEF Idles, Moved
  <2> QED BY <2>1, <2>2, BootFresh, BootIdle
<1>45. CASE Decline
  <2>1. UNCHANGED <<pi.boot, pi.sshd, pi.going, pi.accounts, job.boot, job.saw, job.lost, job.conn>>
    BY <1>45 DEF Decline, Others, view, Typed, Pis, JobStates
  <2>2. Moved({"reboot"})
    BY <1>45, StillMoves DEF Moved, StepNames
  <2> QED BY <2>1, <2>2, BootQuiet
<1>46. CASE Quit
  <2>1. pi' = pi /\ ((job' = Idle /\ Off) \/ (Idles /\ Same))
    BY <1>46, QuitMoves DEF Exits
  <2>2. CASE Idles /\ Same
    BY <2>1, <2>2, BootQuiet DEF Idles, Moved
  <2> QED BY <2>1, <2>2, BootIdle
<1>47. CASE Cancel
  <2>1. UNCHANGED <<pi.boot, pi.sshd, pi.going, pi.accounts, job.boot, job.saw, job.lost, job.conn>>
    BY <1>47 DEF Cancel, Others, view, Typed, Pis, JobStates
  <2>2. Moved({"reboot"})
    BY <1>47, StillMoves DEF Moved, StepNames
  <2> QED BY <2>1, <2>2, BootQuiet
<1>48. CASE \E p \in Passwords, apply \in BOOLEAN : SetFields(p, apply)
  <2>1. UNCHANGED <<pi.boot, pi.sshd, pi.going, pi.accounts, job.boot, job.saw, job.lost, job.conn>>
    BY <1>48 DEF SetFields, Others, view, Typed, Pis, JobStates
  <2>2. Moved({"reboot"})
    BY <1>48, StillMoves DEF Moved, StepNames
  <2> QED BY <2>1, <2>2, BootQuiet
<1>49. CASE PollWorker
  <2>1. pi' = pi /\ ((job' = Idle /\ Off) \/ (job' = job /\ Same))
    BY <1>49, PollWorkerMoves
  <2>2. CASE job' = job /\ Same
    BY <2>1, <2>2, BootQuiet DEF Moved
  <2> QED BY <2>1, <2>2, BootIdle
<1>50. CASE AddNetwork \/ Associate
  <2>1. UNCHANGED <<pi.boot, pi.sshd, pi.going, pi.accounts, job>> /\ Same
    BY <1>50, ScriptLeaves, StillMoves
  <2> QED BY <2>1, BootQuiet DEF Moved
<1> QED BY <1>1, <1>2, <1>3, <1>4, <1>5, <1>6, <1>7, <1>8, <1>9, <1>10, <1>11, <1>12, <1>13,
           <1>14, <1>15, <1>16, <1>17, <1>18, <1>19, <1>20, <1>21, <1>22, <1>23, <1>24,
           <1>25, <1>26, <1>27, <1>28, <1>29, <1>30, <1>31, <1>32, <1>33, <1>34, <1>35,
           <1>36, <1>37, <1>38, <1>39, <1>40, <1>41, <1>42, <1>43, <1>44, <1>45, <1>46,
           <1>47, <1>48, <1>49, <1>50
       DEF DeployerNext, JobStep, PiStep, Operator

\* A step that leaves the tree, the stage and the release alone.
LEMMA ContentQuiet ==
  ASSUME ContentInv, PlanInv,
         Moved({"build", "artifacts", "probe", "stage", "upload", "verify", "promote"}),
         UNCHANGED <<tree, pi.supported, pi.stage, pi.release>>,
         Working' => job'.digest = job.digest /\ job'.member = job.member
  PROVE  ContentInv'
<1>1. CASE Same \/ Off
  BY <1>1 DEF ContentInv, Past, On, Same, Off
<1>2. ASSUME NEW s \in StepNames \ {"build", "artifacts", "probe", "stage", "upload", "verify", "promote"},
             Forward(s)
      PROVE  ContentInv'
  <2>1. job.req.kind = "deploy" => Left \notin {8, 9, 10, 13, 15}
    BY <1>2 DEF Forward, Fits, DeployPlan, RebuildPlan, RotatePlan, Known
  <2>2. job.req.kind = "deploy" /\ job.req.flag = "rebuild" => Left # 16
    BY <1>2 DEF Forward, Fits, DeployPlan, RebuildPlan, RotatePlan, Known
  <2>3. job'.req = job.req /\ Working /\ Working' /\ Left' = Left - 1 /\ Left \in Int
    BY <1>2 DEF Forward
  <2> QED BY <2>1, <2>2, <2>3 DEF ContentInv, Past, On
<1> QED BY <1>1, <1>2 DEF Moved

\* No deployment has taken its digests.
LEMMA ContentFresh ==
  ASSUME ContentInv, NEW kind, NEW p, Fresh(kind, p), UNCHANGED <<tree, pi>>
  PROVE  ContentInv'
<1>1. kind = "deploy" => Left' >= 15 /\ (job'.req.flag = "rebuild" => Left' >= 16)
  BY DEF Fresh, Begun
<1>2. Left' \in Int
  BY ExtraIsNat DEF Fresh, Begun, Place
<1>3. On("deploy")' => kind = "deploy" /\ job'.member = 1
  BY DEF On, Fresh
<1> QED BY <1>1, <1>2, <1>3 DEF ContentInv, Past, On

\* No job is left.
LEMMA ContentIdle ==
  ASSUME ContentInv, Off, UNCHANGED <<tree, pi>>
  PROVE  ContentInv'
BY DEF ContentInv, Past, On, Off

\* What is promoted is what was verified against the digests, member by member.
LEMMA ContentStep ==
  ASSUME Typed, PlanInv, FrontInv, ContentInv, DeployerNext
  PROVE  ContentInv'
<1>1. CASE Fails
  <2>1. UNCHANGED <<tree, pi.supported, pi.stage, pi.release, job.digest, job.member>>
    BY <1>1 DEF Fails, Failed, Others, view, workstation, Typed, Pis, JobStates
  <2>2. Moved({"build", "artifacts", "probe", "stage", "upload", "verify", "promote"})
    BY <1>1, FailsMoves DEF Moved, StepNames
  <2> QED BY <2>1, <2>2, ContentQuiet
<1>2. CASE Unstage
  <2>1. Off
    BY <1>2, UnstageMoves
  <2>2. UNCHANGED <<tree, pi.supported, pi.release>>
    BY <1>2 DEF Unstage, workstation, Typed, Pis
  <2> QED BY <2>1, <2>2 DEF ContentInv, Past, On, Off
<1>3. CASE Report
  <2>1. UNCHANGED <<tree, pi.supported, pi.stage, pi.release, job.digest, job.member>>
    BY <1>3 DEF Report, Others, view, workstation, Typed, Pis, JobStates
  <2>2. Moved({"build", "artifacts", "probe", "stage", "upload", "verify", "promote"})
    BY <1>3, ReportMoves DEF Moved, StepNames
  <2> QED BY <2>1, <2>2, ContentQuiet
<1>4. CASE Finish
  <2>1. UNCHANGED <<tree, pi.supported, pi.stage, pi.release, job.digest, job.member>>
    BY <1>4 DEF Finish, Others, view, workstation, Typed, Pis, JobStates
  <2>2. Moved({"build", "artifacts", "probe", "stage", "upload", "verify", "promote"})
    BY <1>4, FinishMoves DEF Moved, StepNames
  <2> QED BY <2>1, <2>2, ContentQuiet
<1>5. CASE CheckCard
  <2>1. UNCHANGED <<tree, pi.supported, pi.stage, pi.release, job.digest, job.member>>
    BY <1>5 DEF CheckCard, Others, view, workstation, Typed, Pis, JobStates
  <2>2. Moved({"build", "artifacts", "probe", "stage", "upload", "verify", "promote"})
    BY <1>5, CheckCardMoves DEF Moved, StepNames
  <2> QED BY <2>1, <2>2, ContentQuiet
<1>6. CASE Download
  <2>1. UNCHANGED <<tree, pi.supported, pi.stage, pi.release, job.digest, job.member>>
    BY <1>6 DEF Download, Others, view, workstation, Typed, Pis, JobStates
  <2>2. Moved({"build", "artifacts", "probe", "stage", "upload", "verify", "promote"})
    BY <1>6, DownloadMoves DEF Moved, StepNames
  <2> QED BY <2>1, <2>2, ContentQuiet
<1>7. CASE Checksum
  <2>1. UNCHANGED <<tree, pi.supported, pi.stage, pi.release, job.digest, job.member>>
    BY <1>7 DEF Checksum, Others, view, workstation, Typed, Pis, JobStates
  <2>2. Moved({"build", "artifacts", "probe", "stage", "upload", "verify", "promote"})
    BY <1>7, ChecksumMoves DEF Moved, StepNames
  <2> QED BY <2>1, <2>2, ContentQuiet
<1>8. CASE WriteOverlay
  <2>1. UNCHANGED <<tree, pi.supported, pi.stage, pi.release, job.digest, job.member>>
    BY <1>8 DEF WriteOverlay, Others, view, workstation, Typed, Pis, JobStates, Writes
  <2>2. Moved({"build", "artifacts", "probe", "stage", "upload", "verify", "promote"})
    BY <1>8, WriteOverlayMoves DEF Moved, StepNames
  <2> QED BY <2>1, <2>2, ContentQuiet
<1>9. CASE WriteWifi
  <2>1. UNCHANGED <<tree, pi.supported, pi.stage, pi.release, job.digest, job.member>>
    BY <1>9 DEF WriteWifi, Others, view, workstation, Typed, Pis, JobStates, Writes
  <2>2. Moved({"build", "artifacts", "probe", "stage", "upload", "verify", "promote"})
    BY <1>9, WriteWifiMoves DEF Moved, StepNames
  <2> QED BY <2>1, <2>2, ContentQuiet
<1>10. CASE Emulate
  <2>1. UNCHANGED <<tree, pi.supported, pi.stage, pi.release, job.digest, job.member>>
    BY <1>10 DEF Emulate, Others, view, workstation, Typed, Pis, JobStates
  <2>2. Moved({"build", "artifacts", "probe", "stage", "upload", "verify", "promote"})
    BY <1>10, EmulateMoves DEF Moved, StepNames
  <2> QED BY <2>1, <2>2, ContentQuiet
<1>11. CASE Build
  <2>1. Forward("build")
    BY <1>11, BuildMoves
  <2>2. job.req.kind = "deploy" /\ Left' = 15
    BY <2>1, DeployPlaces DEF Forward
  <2>3. job'.member = job.member /\ UNCHANGED pi
    BY <1>11 DEF Build, Typed, JobStates
  <2>4. tree'[Members] > 1 /\ \A i \in Index : tree'[i] >= 1
    <3>1. tree' = [tree EXCEPT ![Members] = @ + 1] /\ tree \in [Index -> Nat] /\ Members \in Index
      BY <1>11, DeployerAssumption DEF Build, Typed, Numbers, Index
    <3>2. \A i \in Index : tree[i] >= 1
      BY DEF ContentInv
    <3> QED BY <3>1, <3>2
  <2>5. On("deploy") /\ Left = 16 /\ job'.req = job.req
    BY <2>1, <2>2, DeployPlaces DEF Forward, On
  <2> QED BY <2>2, <2>3, <2>4, <2>5 DEF ContentInv, Past, On
<1>12. CASE Connect
  <2>1. UNCHANGED <<tree, pi.supported, pi.stage, pi.release, job.digest, job.member>>
    BY <1>12 DEF Connect, Others, view, workstation, Typed, Pis, JobStates
  <2>2. Moved({"build", "artifacts", "probe", "stage", "upload", "verify", "promote"})
    BY <1>12, ConnectMoves DEF Moved, StepNames
  <2> QED BY <2>1, <2>2, ContentQuiet
<1>13. CASE Probe
  <2>1. Forward("probe")
    BY <1>13, ProbeMoves
  <2>2. UNCHANGED <<pi, tree, job.member, job.digest>> /\ pi.supported
    BY <1>13 DEF Probe, Others, workstation, Typed, JobStates
  <2>3. job.req.kind = "deploy" => Left = 13
    BY <2>1, SharedPlaces DEF Forward
  <2>4. job'.req = job.req /\ Working /\ Left' = Left - 1 /\ Left \in Int
    BY <2>1 DEF Forward
  <2> QED BY <2>2, <2>3, <2>4 DEF ContentInv, Past, On
<1>14. CASE Run
  <2>1. UNCHANGED <<tree, pi.supported, pi.stage, pi.release, job.digest, job.member>>
    BY <1>14 DEF Run, Others, view, workstation, Typed, Pis, JobStates
  <2>2. Moved({"build", "artifacts", "probe", "stage", "upload", "verify", "promote"})
    BY <1>14, RunMoves DEF Moved, StepNames
  <2> QED BY <2>1, <2>2, ContentQuiet
<1>15. CASE Bootstrap
  <2>1. UNCHANGED <<tree, pi.supported, pi.stage, pi.release, job.digest, job.member>>
    BY <1>15 DEF Bootstrap, Bootstrapped, Others, view, workstation, Typed, Pis, JobStates
  <2>2. Moved({"build", "artifacts", "probe", "stage", "upload", "verify", "promote"})
    BY <1>15, BootstrapMoves DEF Moved, StepNames
  <2> QED BY <2>1, <2>2, ContentQuiet
<1>16. CASE Setup
  <2>1. UNCHANGED <<tree, pi.supported, pi.stage, pi.release, job.digest, job.member>>
    BY <1>16 DEF Setup, SetUp, Others, view, workstation, Typed, Pis, JobStates
  <2>2. Moved({"build", "artifacts", "probe", "stage", "upload", "verify", "promote"})
    BY <1>16, SetupMoves DEF Moved, StepNames
  <2> QED BY <2>1, <2>2, ContentQuiet
<1>17. CASE Artifacts
  <2>1. Forward("artifacts")
    BY <1>17, ArtifactsMoves
  <2>2. On("deploy") /\ Left = 15 /\ Left' = 14 /\ job'.req = job.req
    BY <2>1, DeployPlaces DEF Forward, On
  <2>3. job'.member = job.member /\ job'.digest = tree /\ UNCHANGED <<pi, tree>>
    BY <1>17 DEF Artifacts, Others, workstation, Typed, JobStates
  <2>4. job.req.flag = "rebuild" => tree[Members] > 1
    BY <2>2 DEF ContentInv, Past
  <2> QED BY <2>2, <2>3, <2>4 DEF ContentInv, Past, On
<1>18. CASE Stage
  <2>1. Forward("stage")
    BY <1>18, StageMoves
  <2>2. On("deploy") /\ Left = 10 /\ Left' = 9 /\ job'.req = job.req
    BY <2>1, DeployPlaces DEF Forward, On
  <2>3. UNCHANGED <<tree, job.member, job.digest, pi.supported, pi.release>>
    BY <1>18 DEF Stage, MadeStage, Others, workstation, Typed, JobStates, Pis
  <2>4. \A i \in Index : ~(i < job.member)
    BY <2>2 DEF ContentInv, Index
  <2> QED BY <2>2, <2>3, <2>4 DEF ContentInv, Past, On
<1>19. CASE Upload
  <2>1. Same /\ On("deploy") /\ Left = 9
    BY <1>19, UploadMoves
  <2>2. UNCHANGED <<tree, job.member, job.digest, pi.supported, pi.release>>
    BY <1>19 DEF Upload, Uploaded, Others, workstation, Typed, JobStates, Pis
  <2>3. \A i \in Index : i < job.member => pi'.stage[i] = pi.stage[i]
    <3>1. PICK got \in {tree[job.member], 0} : pi' = [pi EXCEPT !.stage[job.member] = got]
      BY <1>19 DEF Upload, Uploaded
    <3>2. pi'.stage = [pi.stage EXCEPT ![job.member] = got]
      BY <3>1 DEF Typed, Pis
    <3>3. pi.stage \in [Index -> Nat] /\ \A i \in Index : i < job.member => i # job.member
      BY SMTT(30), FieldTypes DEF Numbers, Index
    <3> QED BY <3>2, <3>3
  <2> QED BY <2>1, <2>2, <2>3 DEF ContentInv, Past, On, Same
<1>20. CASE Verify
  <2>1. UNCHANGED <<tree, job.digest, pi>> /\ pi.stage[job.member] = job.digest[job.member]
    BY <1>20 DEF Verify, Others, workstation, Typed, JobStates
  <2>2. On("deploy") /\ Left = 9 /\ job.member \in Index
    BY <1>20, VerifyMoves, FieldTypes
  <2>3. \A i \in Index : i < job.member => pi.stage[i] = job.digest[i]
    BY <2>2 DEF ContentInv
  <2>4. CASE Forward("verify") /\ job.member = Members /\ job'.member = job.member
    <3>1. Left' = 8 /\ job'.req = job.req
      BY <2>2, <2>4 DEF Forward
    <3>2. \A i \in Index : pi.stage[i] = job.digest[i]
      BY <2>1, <2>3, <2>4, DeployerAssumption DEF Index
    <3>3. pi.stage \in [Index -> Nat] /\ job.digest \in [Index -> Nat]
      BY FieldTypes DEF Numbers
    <3>4. pi.stage = job.digest
      BY <3>2, <3>3
    <3> QED BY <2>1, <2>2, <3>1, <3>4 DEF ContentInv, Past, On
  <2>5. CASE Same /\ job.member # Members /\ job'.member = job.member + 1
    <3>1. \A i \in Index : i < job.member + 1 => pi.stage[i] = job.digest[i]
      BY <2>1, <2>2, <2>3 DEF Index
    <3> QED BY <2>1, <2>2, <2>5, <3>1 DEF ContentInv, Past, On, Same
  <2> QED BY <1>20, <2>4, <2>5, VerifyMoves
<1>21. CASE PromoteStage
  <2>1. Forward("promote")
    BY <1>21, PromoteStageMoves
  <2>2. On("deploy") /\ Left = 8 /\ Left' = 7 /\ job'.req = job.req
    BY <2>1, DeployPlaces DEF Forward, On
  <2>3. UNCHANGED <<tree, job.member, job.digest, pi.supported>> /\ pi'.release = pi.stage
    BY <1>21 DEF PromoteStage, Promoted, Others, workstation, Typed, JobStates, Pis
  <2>4. pi.stage = job.digest /\ pi.supported /\ \A i \in Index : job.digest[i] >= 1
    BY <2>2 DEF ContentInv, Past
  <2> QED BY <2>2, <2>3, <2>4 DEF ContentInv, Past, On
<1>22. CASE Install
  <2>1. UNCHANGED <<tree, pi.supported, pi.stage, pi.release, job.digest, job.member>>
    BY <1>22 DEF Install, Installed, Others, view, workstation, Typed, Pis, JobStates
  <2>2. Moved({"build", "artifacts", "probe", "stage", "upload", "verify", "promote"})
    BY <1>22, InstallMoves DEF Moved, StepNames
  <2> QED BY <2>1, <2>2, ContentQuiet
<1>23. CASE ReadBanner
  <2>1. UNCHANGED <<tree, pi.supported, pi.stage, pi.release, job.digest, job.member>>
    BY <1>23 DEF ReadBanner, Told, Others, view, workstation, Typed, Pis, JobStates
  <2>2. Moved({"build", "artifacts", "probe", "stage", "upload", "verify", "promote"})
    BY <1>23, ReadBannerMoves DEF Moved, StepNames
  <2> QED BY <2>1, <2>2, ContentQuiet
<1>24. CASE NoBanner
  <2>1. UNCHANGED <<tree, pi.supported, pi.stage, pi.release, job.digest, job.member>>
    BY <1>24 DEF NoBanner, Told, Others, view, workstation, Typed, Pis, JobStates
  <2>2. Moved({"build", "artifacts", "probe", "stage", "upload", "verify", "promote"})
    BY <1>24, NoBannerMoves DEF Moved, StepNames
  <2> QED BY <2>1, <2>2, ContentQuiet
<1>25. CASE SkipBanner
  <2>1. UNCHANGED <<tree, pi.supported, pi.stage, pi.release, job.digest, job.member>>
    BY <1>25 DEF SkipBanner, Told, Others, view, workstation, Typed, Pis, JobStates
  <2>2. Moved({"build", "artifacts", "probe", "stage", "upload", "verify", "promote"})
    BY <1>25, SkipBannerMoves DEF Moved, StepNames
  <2> QED BY <2>1, <2>2, ContentQuiet
<1>26. CASE ReadBootId
  <2>1. UNCHANGED <<tree, pi.supported, pi.stage, pi.release, job.digest, job.member>>
    BY <1>26 DEF ReadBootId, Others, view, workstation, Typed, Pis, JobStates
  <2>2. Moved({"build", "artifacts", "probe", "stage", "upload", "verify", "promote"})
    BY <1>26, ReadBootIdMoves DEF Moved, StepNames
  <2> QED BY <2>1, <2>2, ContentQuiet
<1>27. CASE Reboot
  <2>1. UNCHANGED <<tree, pi.supported, pi.stage, pi.release, job.digest, job.member>>
    BY <1>27 DEF Reboot, Leaving, Others, view, workstation, Typed, Pis, JobStates
  <2>2. Moved({"build", "artifacts", "probe", "stage", "upload", "verify", "promote"})
    BY <1>27, RebootMoves DEF Moved, StepNames
  <2> QED BY <2>1, <2>2, ContentQuiet
<1>28. CASE TryAccount
  <2>1. UNCHANGED <<tree, pi.supported, pi.stage, pi.release, job.digest, job.member>>
    BY <1>28 DEF TryAccount, Accepts, Others, view, workstation, Typed, Pis, JobStates
  <2>2. Moved({"build", "artifacts", "probe", "stage", "upload", "verify", "promote"})
    BY <1>28, TryAccountMoves DEF Moved, StepNames
  <2> QED BY <2>1, <2>2, ContentQuiet
<1>29. CASE AwaitAppliance
  <2>1. UNCHANGED <<tree, pi.supported, pi.stage, pi.release, job.digest, job.member>>
    BY <1>29 DEF AwaitAppliance, Others, view, workstation, Typed, Pis, JobStates
  <2>2. Moved({"build", "artifacts", "probe", "stage", "upload", "verify", "promote"})
    BY <1>29, AwaitApplianceMoves DEF Moved, StepNames
  <2> QED BY <2>1, <2>2, ContentQuiet
<1>30. CASE NoAppliance
  <2>1. UNCHANGED <<pi, tree, job.digest, job.member>>
    BY <1>30 DEF NoAppliance, workstation, Typed, JobStates
  <2>2. On("deploy") /\ On("deploy")' /\ Left = 2 /\ Left' = 0 /\ job'.req = job.req
    BY <1>30, NoApplianceMoves
  <2> QED BY <2>1, <2>2 DEF ContentInv, Past
<1>31. CASE Restart
  <2>1. UNCHANGED <<tree, pi.supported, pi.stage, pi.release, job.digest, job.member>>
    BY <1>31 DEF Restart, Served, Restarted, Others, view, workstation, Typed, Pis, JobStates, Restarted
  <2>2. Moved({"build", "artifacts", "probe", "stage", "upload", "verify", "promote"})
    BY <1>31, RestartMoves DEF Moved, StepNames
  <2> QED BY <2>1, <2>2, ContentQuiet
<1>32. CASE SetPassword
  <2>1. UNCHANGED <<tree, pi.supported, pi.stage, pi.release, job.digest, job.member>>
    BY <1>32 DEF SetPassword, Secured, Others, view, workstation, Typed, Pis, JobStates
  <2>2. Moved({"build", "artifacts", "probe", "stage", "upload", "verify", "promote"})
    BY <1>32, SetPasswordMoves DEF Moved, StepNames
  <2> QED BY <2>1, <2>2, ContentQuiet
<1>33. CASE StartScript
  <2>1. UNCHANGED <<tree, pi.supported, pi.stage, pi.release, job.digest, job.member>>
    BY <1>33 DEF StartScript, Others, view, workstation, Typed, Pis, JobStates
  <2>2. Moved({"build", "artifacts", "probe", "stage", "upload", "verify", "promote"})
    BY <1>33, StartScriptMoves DEF Moved, StepNames
  <2> QED BY <2>1, <2>2, ContentQuiet
<1>34. CASE ReadExit
  <2>1. UNCHANGED <<tree, pi.supported, pi.stage, pi.release, job.digest, job.member>>
    BY <1>34 DEF ReadExit, Others, view, workstation, Typed, Pis, JobStates
  <2>2. Moved({"build", "artifacts", "probe", "stage", "upload", "verify", "promote"})
    BY <1>34, ReadExitMoves DEF Moved, StepNames
  <2> QED BY <2>1, <2>2, ContentQuiet
<1>35. CASE Unanswered
  <2>1. Off /\ UNCHANGED <<tree, pi.supported>>
    BY <1>35, UnansweredAt, UnansweredMoves, UnansweredLeaves
  <2>2. CASE At("promote")
    <3>1. "promote" \in StepNames \ {"over", "unstage"}
      BY DEF StepNames
    <3>2. Fits(job.req, "promote", Left) /\ Working
      BY <2>2, <3>1, AtPlace, Zenon
    <3>3. On("deploy") /\ Left = 8
      BY <3>2, DeployPlaces DEF On
    <3>4. pi'.release = pi.stage
      BY <1>35, <2>2 DEF Unanswered, Does, At, Promoted, Typed, Pis
    <3>5. pi.stage = job.digest /\ pi.supported /\ \A i \in Index : job.digest[i] >= 1
      BY <3>3 DEF ContentInv, Past
    <3> QED BY <2>1, <3>4, <3>5 DEF ContentInv, Past, On, Off
  <2>3. CASE ~At("promote")
    <3>1. pi'.release = pi.release
      BY <1>35, <2>3, UnansweredLeaves
    <3> QED BY <2>1, <3>1 DEF ContentInv, Past, On, Off
  <2> QED BY <2>2, <2>3
<1>36. CASE PiStops
  <2>1. UNCHANGED <<tree, pi.supported, pi.stage, pi.release, job.digest, job.member>>
    BY <1>36 DEF PiStops, Others, view, workstation, Typed, Pis, JobStates
  <2>2. Moved({"build", "artifacts", "probe", "stage", "upload", "verify", "promote"})
    BY <1>36, StillMoves DEF Moved, StepNames
  <2> QED BY <2>1, <2>2, ContentQuiet
<1>37. CASE PiBoots
  <2>1. UNCHANGED <<tree, pi.supported, pi.stage, pi.release, job.digest, job.member>>
    BY <1>37 DEF PiBoots, Others, view, workstation, Typed, Pis, JobStates, Restarted
  <2>2. Moved({"build", "artifacts", "probe", "stage", "upload", "verify", "promote"})
    BY <1>37, StillMoves DEF Moved, StepNames
  <2> QED BY <2>1, <2>2, ContentQuiet
<1>38. CASE ContainerPrints
  <2>1. UNCHANGED <<tree, pi.supported, pi.stage, pi.release, job.digest, job.member>>
    BY <1>38 DEF ContainerPrints, Others, view, workstation, Typed, Pis, JobStates
  <2>2. Moved({"build", "artifacts", "probe", "stage", "upload", "verify", "promote"})
    BY <1>38, StillMoves DEF Moved, StepNames
  <2> QED BY <2>1, <2>2, ContentQuiet
<1>39. CASE LosesSession
  <2>1. UNCHANGED <<tree, pi.supported, pi.stage, pi.release, job.digest, job.member>>
    BY <1>39 DEF LosesSession, Others, view, workstation, Typed, Pis, JobStates
  <2>2. Moved({"build", "artifacts", "probe", "stage", "upload", "verify", "promote"})
    BY <1>39, StillMoves DEF Moved, StepNames
  <2> QED BY <2>1, <2>2, ContentQuiet
<1>40. CASE EditTree
  <2>1. Same
    BY <1>40, StillMoves
  <2>2. UNCHANGED <<job, pi>>
    BY <1>40 DEF EditTree
  <2>3. \A i \in Index : tree'[i] >= tree[i] /\ tree'[i] >= 1
    <3>1. PICK j \in Index : tree' = [tree EXCEPT ![j] = @ + 1]
      BY <1>40 DEF EditTree
    <3>2. tree \in [Index -> Nat] /\ \A i \in Index : tree[i] >= 1
      BY DEF ContentInv, Typed, Numbers
    <3> QED BY <3>1, <3>2
  <2>4. Members \in Index /\ tree[Members] \in Nat /\ tree'[Members] \in Nat
    <3>1. PICK j \in Index : tree' = [tree EXCEPT ![j] = @ + 1]
      BY <1>40 DEF EditTree
    <3>2. tree \in [Index -> Nat] /\ Members \in Index
      BY DeployerAssumption DEF Typed, Numbers, Index
    <3> QED BY <3>1, <3>2
  <2> QED BY <2>1, <2>2, <2>3, <2>4 DEF ContentInv, Past, On, Same
<1>41. CASE \E k \in Kinds : Press(k)
  <2>1. PICK k \in Kinds : Press(k)
    BY <1>41
  <2>2. UNCHANGED <<tree, pi>> /\ ((Idles /\ Same) \/ Fresh(k, form.pi))
    BY <2>1, PressMoves
  <2>3. CASE Idles /\ Same
    BY <2>2, <2>3, ContentQuiet DEF Idles, Moved
  <2> QED BY <2>2, <2>3, ContentFresh
<1>42. CASE \E k \in Kinds, opts \in SUBSET Options : CliRuns(k, opts)
  <2>1. PICK k \in Kinds, opts \in SUBSET Options : CliRuns(k, opts)
    BY <1>42
  <2>2. UNCHANGED <<tree, pi>> /\ \E p \in Passwords : Fresh(k, p)
    BY <2>1, CliRunsMoves
  <2> QED BY <2>2, ContentFresh
<1>43. CASE (\E k \in Kinds, opts \in SUBSET Options : CliRefused(k, opts)) \/ CliExits
  <2>1. UNCHANGED <<tree, pi>> /\ Off
    BY <1>43, CliEndMoves
  <2> QED BY <2>1, ContentIdle
<1>44. CASE Accept
  <2>1. UNCHANGED <<tree, pi>> /\ (Off \/ (Idles /\ Same) \/ Fresh(confirm, form.pi))
    BY <1>44, AcceptMoves
  <2>2. CASE Idles /\ Same
    BY <2>1, <2>2, ContentQuiet DEF Idles, Moved
  <2> QED BY <2>1, <2>2, ContentFresh, ContentIdle
<1>45. CASE Decline
  <2>1. UNCHANGED <<tree, pi.supported, pi.stage, pi.release, job.digest, job.member>>
    BY <1>45 DEF Decline, Others, view, workstation, Typed, Pis, JobStates
  <2>2. Moved({"build", "artifacts", "probe", "stage", "upload", "verify", "promote"})
    BY <1>45, StillMoves DEF Moved, StepNames
  <2> QED BY <2>1, <2>2, ContentQuiet
<1>46. CASE Quit
  <2>1. UNCHANGED <<tree, pi>> /\ (Off \/ (Idles /\ Same))
    BY <1>46, QuitMoves
  <2>2. CASE Idles /\ Same
    BY <2>1, <2>2, ContentQuiet DEF Idles, Moved
  <2> QED BY <2>1, <2>2, ContentIdle
<1>47. CASE Cancel
  <2>1. UNCHANGED <<tree, pi.supported, pi.stage, pi.release, job.digest, job.member>>
    BY <1>47 DEF Cancel, Others, view, workstation, Typed, Pis, JobStates
  <2>2. Moved({"build", "artifacts", "probe", "stage", "upload", "verify", "promote"})
    BY <1>47, StillMoves DEF Moved, StepNames
  <2> QED BY <2>1, <2>2, ContentQuiet
<1>48. CASE \E p \in Passwords, apply \in BOOLEAN : SetFields(p, apply)
  <2>1. UNCHANGED <<tree, pi.supported, pi.stage, pi.release, job.digest, job.member>>
    BY <1>48 DEF SetFields, Others, view, workstation, Typed, Pis, JobStates
  <2>2. Moved({"build", "artifacts", "probe", "stage", "upload", "verify", "promote"})
    BY <1>48, StillMoves DEF Moved, StepNames
  <2> QED BY <2>1, <2>2, ContentQuiet
<1>49. CASE PollWorker
  <2>1. UNCHANGED <<tree, pi>> /\ (Off \/ (job' = job /\ Same))
    BY <1>49, PollWorkerMoves
  <2>2. CASE job' = job /\ Same
    BY <2>1, <2>2, ContentQuiet DEF Moved
  <2> QED BY <2>1, <2>2, ContentIdle
<1>50. CASE AddNetwork \/ Associate
  <2>1. UNCHANGED <<tree, pi.supported, pi.stage, pi.release, job>> /\ Same
    BY <1>50, ScriptLeaves, StillMoves
  <2> QED BY <2>1, ContentQuiet DEF Moved
<1> QED BY <1>1, <1>2, <1>3, <1>4, <1>5, <1>6, <1>7, <1>8, <1>9, <1>10, <1>11, <1>12, <1>13,
           <1>14, <1>15, <1>16, <1>17, <1>18, <1>19, <1>20, <1>21, <1>22, <1>23, <1>24,
           <1>25, <1>26, <1>27, <1>28, <1>29, <1>30, <1>31, <1>32, <1>33, <1>34, <1>35,
           <1>36, <1>37, <1>38, <1>39, <1>40, <1>41, <1>42, <1>43, <1>44, <1>45, <1>46,
           <1>47, <1>48, <1>49, <1>50
       DEF DeployerNext, JobStep, PiStep, Operator

\* Only the steps from the first upload to the promotion have a stage.
LEMMA NotStaged ==
  ASSUME Typed, PlanInv, NEW s \in StepNames \ {"over", "unstage", "upload", "verify", "promote"}, At(s)
  PROVE  ~Staged
<1>1. Fits(job.req, s, Left) /\ Working
  BY AtPlace
<1>2. job.req.kind = "deploy" => Left \notin {8, 9}
  BY <1>1 DEF Fits, DeployPlan, RebuildPlan, RotatePlan, Known
<1> QED BY <1>1, <1>2 DEF Staged, Working

\* A job at its end has no stage.
LEMMA EndNotStaged ==
  ASSUME job.todo \in {<<>>, <<"over">>}
  PROVE  ~Staged
<1>1. job.todo \in Last /\ job.todo # <<"unstage">>
  BY LastLists
<1>2. Left \notin {8, 9}
  BY <1>1, ExtraIsNat DEF Left, Place
<1> QED BY <1>1, <1>2 DEF Staged

\* A step that leaves the stage alone.
LEMMA StagingQuiet ==
  ASSUME StagingInv, pi'.staging => pi.staging, hist.cut => hist'.cut, hist.fell => hist'.fell,
         hist.stray => hist'.stray, quit => quit', Staged => Staged'
  PROVE  StagingInv'
BY DEF StagingInv

\* A stage without a job on it is what a lost session, a Pi gone down or a quit leaves.
LEMMA StagingStep ==
  ASSUME Typed, PlanInv, FrontInv, StagingInv, DeployerNext
  PROVE  StagingInv'
<1>1. CASE Fails
  <2>1. UNCHANGED <<pi, hist, quit>> /\ worker.run = "running" /\ ~quit /\ job.todo # <<>>
    BY <1>1 DEF Fails, Failed, view
  <2>2. CASE Head(job.todo) \in {"upload", "verify", "promote"}
    <3>1. job'.todo = <<"unstage">> /\ UNCHANGED <<job.req, job.conn, worker>>
      BY <1>1, <2>2 DEF Fails, Failed, Typed, JobStates
    <3>2. Staged => Staged'
      BY <2>1, <3>1 DEF Staged, Connected
    <3> QED BY <2>1, <3>2, StagingQuiet
  <2>3. CASE Head(job.todo) \notin {"upload", "verify", "promote"}
    <3>1. Head(job.todo) \in StepNames \ {"over", "unstage", "upload", "verify", "promote"}
      BY <1>1, <2>3 DEF Fails, Failed, Typed, JobStates
    <3>2. At(Head(job.todo))
      BY <2>1 DEF At
    <3>3. ~Staged
      BY <3>1, <3>2, NotStaged, Zenon
    <3> QED BY <2>1, <3>3, StagingQuiet
  <2> QED BY <2>2, <2>3
<1>2. CASE Unstage
  <2>1. CASE pi' = [pi EXCEPT !.staging = FALSE, !.stage = Nothing]
    BY <2>1 DEF StagingInv, Typed, Pis
  <2>2. CASE pi' = pi /\ hist' = [hist EXCEPT !.stray = @ \/ Connected]
    <3>1. UNCHANGED <<hist.cut, hist.fell>> /\ hist'.stray = (hist.stray \/ Connected)
      BY <2>2 DEF Typed, Histories
    <3>2. quit' = quit
      BY <1>2 DEF Unstage, view
    <3> QED BY <2>2, <3>1, <3>2 DEF StagingInv, Staged
  <2> QED BY <1>2, <2>1, <2>2 DEF Unstage
<1>3. CASE Report
  <2>1. UNCHANGED <<pi, quit>> /\ UNCHANGED <<hist.cut, hist.fell, hist.stray>> /\ job.todo = <<>>
    BY <1>3 DEF Report, view, Typed, Histories
  <2> QED BY <2>1, EndNotStaged, StagingQuiet
<1>4. CASE Finish
  <2>1. UNCHANGED <<pi, quit, hist>> /\ job.todo # <<>> /\ Head(job.todo) = "over"
    BY <1>4 DEF Finish, view, At
  <2>2. job.todo = <<"over">>
    BY <2>1, SpecialLists
  <2> QED BY <2>1, <2>2, EndNotStaged, StagingQuiet
<1>5. CASE CheckCard
  <2>1. /\ pi'.staging = pi.staging /\ quit' = quit
        /\ UNCHANGED <<hist.cut, hist.fell, hist.stray>>
    BY <1>5 DEF CheckCard, Others, view, Typed, Pis, Histories
  <2>2. At("checks") /\ "checks" \in StepNames \ {"over", "unstage", "upload", "verify", "promote"}
    BY <1>5 DEF CheckCard, Does, StepNames
  <2>3. ~Staged
    BY <2>2, NotStaged, Zenon
  <2> QED BY <2>1, <2>3, StagingQuiet
<1>6. CASE Download
  <2>1. /\ pi'.staging = pi.staging /\ quit' = quit
        /\ UNCHANGED <<hist.cut, hist.fell, hist.stray>>
    BY <1>6 DEF Download, Others, view, Typed, Pis, Histories
  <2>2. At("download") /\ "download" \in StepNames \ {"over", "unstage", "upload", "verify", "promote"}
    BY <1>6 DEF Download, Does, StepNames
  <2>3. ~Staged
    BY <2>2, NotStaged, Zenon
  <2> QED BY <2>1, <2>3, StagingQuiet
<1>7. CASE Checksum
  <2>1. /\ pi'.staging = pi.staging /\ quit' = quit
        /\ UNCHANGED <<hist.cut, hist.fell, hist.stray>>
    BY <1>7 DEF Checksum, Others, view, Typed, Pis, Histories
  <2>2. At("checksum") /\ "checksum" \in StepNames \ {"over", "unstage", "upload", "verify", "promote"}
    BY <1>7 DEF Checksum, Does, StepNames
  <2>3. ~Staged
    BY <2>2, NotStaged, Zenon
  <2> QED BY <2>1, <2>3, StagingQuiet
<1>8. CASE WriteOverlay
  <2>1. /\ pi'.staging = pi.staging /\ quit' = quit
        /\ UNCHANGED <<hist.cut, hist.fell, hist.stray>>
    BY <1>8 DEF WriteOverlay, Others, view, Typed, Pis, Histories, Writes
  <2>2. At("overlay") /\ "overlay" \in StepNames \ {"over", "unstage", "upload", "verify", "promote"}
    BY <1>8 DEF WriteOverlay, Does, StepNames
  <2>3. ~Staged
    BY <2>2, NotStaged, Zenon
  <2> QED BY <2>1, <2>3, StagingQuiet
<1>9. CASE WriteWifi
  <2>1. /\ pi'.staging = pi.staging /\ quit' = quit
        /\ UNCHANGED <<hist.cut, hist.fell, hist.stray>>
    BY <1>9 DEF WriteWifi, Others, view, Typed, Pis, Histories, Writes
  <2>2. At("wifi_file") /\ "wifi_file" \in StepNames \ {"over", "unstage", "upload", "verify", "promote"}
    BY <1>9 DEF WriteWifi, Does, StepNames
  <2>3. ~Staged
    BY <2>2, NotStaged, Zenon
  <2> QED BY <2>1, <2>3, StagingQuiet
<1>10. CASE Emulate
  <2>1. /\ pi'.staging = pi.staging /\ quit' = quit
        /\ UNCHANGED <<hist.cut, hist.fell, hist.stray>>
    BY <1>10 DEF Emulate, Others, view, Typed, Pis, Histories
  <2>2. At("emulate") /\ "emulate" \in StepNames \ {"over", "unstage", "upload", "verify", "promote"}
    BY <1>10 DEF Emulate, Does, StepNames
  <2>3. ~Staged
    BY <2>2, NotStaged, Zenon
  <2> QED BY <2>1, <2>3, StagingQuiet
<1>11. CASE Build
  <2>1. /\ pi'.staging = pi.staging /\ quit' = quit
        /\ UNCHANGED <<hist.cut, hist.fell, hist.stray>>
    BY <1>11 DEF Build, Others, view, Typed, Pis, Histories
  <2>2. At("build") /\ "build" \in StepNames \ {"over", "unstage", "upload", "verify", "promote"}
    BY <1>11 DEF Build, Does, StepNames
  <2>3. ~Staged
    BY <2>2, NotStaged, Zenon
  <2> QED BY <2>1, <2>3, StagingQuiet
<1>12. CASE Connect
  <2>1. /\ pi'.staging = pi.staging /\ quit' = quit
        /\ UNCHANGED <<hist.cut, hist.fell, hist.stray>>
    BY <1>12 DEF Connect, Others, view, Typed, Pis, Histories
  <2>2. At("connect") /\ "connect" \in StepNames \ {"over", "unstage", "upload", "verify", "promote"}
    BY <1>12 DEF Connect, Does, StepNames
  <2>3. ~Staged
    BY <2>2, NotStaged, Zenon
  <2> QED BY <2>1, <2>3, StagingQuiet
<1>13. CASE Probe
  <2>1. /\ pi'.staging = pi.staging /\ quit' = quit
        /\ UNCHANGED <<hist.cut, hist.fell, hist.stray>>
    BY <1>13 DEF Probe, Others, view, Typed, Pis, Histories
  <2>2. At("probe") /\ "probe" \in StepNames \ {"over", "unstage", "upload", "verify", "promote"}
    BY <1>13 DEF Probe, Does, StepNames
  <2>3. ~Staged
    BY <2>2, NotStaged, Zenon
  <2> QED BY <2>1, <2>3, StagingQuiet
<1>14. CASE Run
  <2>1. /\ pi'.staging = pi.staging /\ quit' = quit
        /\ UNCHANGED <<hist.cut, hist.fell, hist.stray>>
    BY <1>14 DEF Run, Others, view, Typed, Pis, Histories
  <2>2. At("run") /\ "run" \in StepNames \ {"over", "unstage", "upload", "verify", "promote"}
    BY <1>14 DEF Run, Does, StepNames
  <2>3. ~Staged
    BY <2>2, NotStaged, Zenon
  <2> QED BY <2>1, <2>3, StagingQuiet
<1>15. CASE Bootstrap
  <2>1. /\ pi'.staging = pi.staging /\ quit' = quit
        /\ UNCHANGED <<hist.cut, hist.fell, hist.stray>>
    BY <1>15 DEF Bootstrap, Bootstrapped, Others, view, Typed, Pis, Histories
  <2>2. At("bootstrap") /\ "bootstrap" \in StepNames \ {"over", "unstage", "upload", "verify", "promote"}
    BY <1>15 DEF Bootstrap, Bootstrapped, Does, StepNames
  <2>3. ~Staged
    BY <2>2, NotStaged, Zenon
  <2> QED BY <2>1, <2>3, StagingQuiet
<1>16. CASE Setup
  <2>1. /\ pi'.staging = pi.staging /\ quit' = quit
        /\ UNCHANGED <<hist.cut, hist.fell, hist.stray>>
    BY <1>16 DEF Setup, SetUp, Others, view, Typed, Pis, Histories
  <2>2. At("setup") /\ "setup" \in StepNames \ {"over", "unstage", "upload", "verify", "promote"}
    BY <1>16 DEF Setup, SetUp, Does, StepNames
  <2>3. ~Staged
    BY <2>2, NotStaged, Zenon
  <2> QED BY <2>1, <2>3, StagingQuiet
<1>17. CASE Artifacts
  <2>1. /\ pi'.staging = pi.staging /\ quit' = quit
        /\ UNCHANGED <<hist.cut, hist.fell, hist.stray>>
    BY <1>17 DEF Artifacts, Others, view, Typed, Pis, Histories
  <2>2. At("artifacts") /\ "artifacts" \in StepNames \ {"over", "unstage", "upload", "verify", "promote"}
    BY <1>17 DEF Artifacts, Does, StepNames
  <2>3. ~Staged
    BY <2>2, NotStaged, Zenon
  <2> QED BY <2>1, <2>3, StagingQuiet
<1>18. CASE Stage
  <2>1. Forward("stage")
    BY <1>18, StageMoves
  <2>2. Left' = 9 /\ job'.req.kind = "deploy"
    BY <2>1, DeployPlaces DEF Forward
  <2>3. Connected' /\ worker'.run = "running"
    BY <1>18 DEF Stage, MadeStage, Does, At, Connected, Others, Typed, Pis, JobStates
  <2> QED BY <2>2, <2>3 DEF StagingInv, Staged
<1>19. CASE Upload
  <2>1. Same /\ On("deploy") /\ Left = 9
    BY <1>19, UploadMoves
  <2>2. Connected' /\ worker'.run = "running"
    BY <1>19 DEF Upload, Uploaded, Does, At, Connected, Others, Typed, Pis, JobStates
  <2> QED BY <2>1, <2>2 DEF StagingInv, Staged, Same, On
<1>20. CASE Verify
  <2>1. On("deploy") /\ Left = 9 /\ (Forward("verify") \/ Same)
    BY <1>20, VerifyMoves
  <2>2. Left' \in {8, 9} /\ job'.req.kind = "deploy"
    BY <2>1 DEF Forward, Same, On
  <2>3. Connected' /\ worker'.run = "running"
    BY <1>20 DEF Verify, Does, At, Connected, Others, Typed, Pis, JobStates
  <2> QED BY <2>2, <2>3 DEF StagingInv, Staged
<1>21. CASE PromoteStage
  <2>1. pi'.staging = FALSE
    BY <1>21 DEF PromoteStage, Promoted, Typed, Pis
  <2> QED BY <2>1 DEF StagingInv
<1>22. CASE Install
  <2>1. /\ pi'.staging = pi.staging /\ quit' = quit
        /\ UNCHANGED <<hist.cut, hist.fell, hist.stray>>
    BY <1>22 DEF Install, Installed, Others, view, Typed, Pis, Histories
  <2>2. At("install") /\ "install" \in StepNames \ {"over", "unstage", "upload", "verify", "promote"}
    BY <1>22 DEF Install, Installed, Does, StepNames
  <2>3. ~Staged
    BY <2>2, NotStaged, Zenon
  <2> QED BY <2>1, <2>3, StagingQuiet
<1>23. CASE ReadBanner
  <2>1. /\ pi'.staging = pi.staging /\ quit' = quit
        /\ UNCHANGED <<hist.cut, hist.fell, hist.stray>>
    BY <1>23 DEF ReadBanner, Told, Others, view, Typed, Pis, Histories
  <2>2. At("banner") /\ "banner" \in StepNames \ {"over", "unstage", "upload", "verify", "promote"}
    BY <1>23 DEF ReadBanner, Told, Does, StepNames
  <2>3. ~Staged
    BY <2>2, NotStaged, Zenon
  <2> QED BY <2>1, <2>3, StagingQuiet
<1>24. CASE NoBanner
  <2>1. /\ pi'.staging = pi.staging /\ quit' = quit
        /\ UNCHANGED <<hist.cut, hist.fell, hist.stray>>
    BY <1>24 DEF NoBanner, Told, Others, view, Typed, Pis, Histories
  <2>2. At("banner") /\ "banner" \in StepNames \ {"over", "unstage", "upload", "verify", "promote"}
    BY <1>24 DEF NoBanner, Told, Does, StepNames
  <2>3. ~Staged
    BY <2>2, NotStaged, Zenon
  <2> QED BY <2>1, <2>3, StagingQuiet
<1>25. CASE SkipBanner
  <2>1. /\ pi'.staging = pi.staging /\ quit' = quit
        /\ UNCHANGED <<hist.cut, hist.fell, hist.stray>>
    BY <1>25 DEF SkipBanner, Told, Others, view, Typed, Pis, Histories
  <2>2. At("banner") /\ "banner" \in StepNames \ {"over", "unstage", "upload", "verify", "promote"}
    BY <1>25 DEF SkipBanner, Told, Does, StepNames
  <2>3. ~Staged
    BY <2>2, NotStaged, Zenon
  <2> QED BY <2>1, <2>3, StagingQuiet
<1>26. CASE ReadBootId
  <2>1. /\ pi'.staging = pi.staging /\ quit' = quit
        /\ UNCHANGED <<hist.cut, hist.fell, hist.stray>>
    BY <1>26 DEF ReadBootId, Others, view, Typed, Pis, Histories
  <2>2. At("boot_id") /\ "boot_id" \in StepNames \ {"over", "unstage", "upload", "verify", "promote"}
    BY <1>26 DEF ReadBootId, Does, StepNames
  <2>3. ~Staged
    BY <2>2, NotStaged, Zenon
  <2> QED BY <2>1, <2>3, StagingQuiet
<1>27. CASE Reboot
  <2>1. /\ pi'.staging = pi.staging /\ quit' = quit
        /\ UNCHANGED <<hist.cut, hist.fell, hist.stray>>
    BY <1>27 DEF Reboot, Leaving, Others, view, Typed, Pis, Histories
  <2>2. At("reboot") /\ "reboot" \in StepNames \ {"over", "unstage", "upload", "verify", "promote"}
    BY <1>27 DEF Reboot, Leaving, Does, StepNames
  <2>3. ~Staged
    BY <2>2, NotStaged, Zenon
  <2> QED BY <2>1, <2>3, StagingQuiet
<1>28. CASE TryAccount
  <2>1. /\ pi'.staging = pi.staging /\ quit' = quit
        /\ UNCHANGED <<hist.cut, hist.fell, hist.stray>>
    BY <1>28 DEF TryAccount, Accepts, Others, view, Typed, Pis, Histories
  <2>2. At("wait") /\ "wait" \in StepNames \ {"over", "unstage", "upload", "verify", "promote"}
    BY <1>28 DEF TryAccount, Accepts, Does, StepNames
  <2>3. ~Staged
    BY <2>2, NotStaged, Zenon
  <2> QED BY <2>1, <2>3, StagingQuiet
<1>29. CASE AwaitAppliance
  <2>1. /\ pi'.staging = pi.staging /\ quit' = quit
        /\ UNCHANGED <<hist.cut, hist.fell, hist.stray>>
    BY <1>29 DEF AwaitAppliance, Others, view, Typed, Pis, Histories
  <2>2. At("appliance") /\ "appliance" \in StepNames \ {"over", "unstage", "upload", "verify", "promote"}
    BY <1>29 DEF AwaitAppliance, Does, StepNames
  <2>3. ~Staged
    BY <2>2, NotStaged, Zenon
  <2> QED BY <2>1, <2>3, StagingQuiet
<1>30. CASE NoAppliance
  <2>1. /\ pi'.staging = pi.staging /\ quit' = quit
        /\ UNCHANGED <<hist.cut, hist.fell, hist.stray>>
    BY <1>30 DEF NoAppliance, Others, view, Typed, Pis, Histories
  <2>2. At("appliance") /\ "appliance" \in StepNames \ {"over", "unstage", "upload", "verify", "promote"}
    BY <1>30 DEF NoAppliance, Does, StepNames
  <2>3. ~Staged
    BY <2>2, NotStaged, Zenon
  <2> QED BY <2>1, <2>3, StagingQuiet
<1>31. CASE Restart
  <2>1. /\ pi'.staging = pi.staging /\ quit' = quit
        /\ UNCHANGED <<hist.cut, hist.fell, hist.stray>>
    BY <1>31 DEF Restart, Served, Restarted, Others, view, Typed, Pis, Histories, Restarted
  <2>2. At("restart") /\ "restart" \in StepNames \ {"over", "unstage", "upload", "verify", "promote"}
    BY <1>31 DEF Restart, Served, Restarted, Does, StepNames
  <2>3. ~Staged
    BY <2>2, NotStaged, Zenon
  <2> QED BY <2>1, <2>3, StagingQuiet
<1>32. CASE SetPassword
  <2>1. /\ pi'.staging = pi.staging /\ quit' = quit
        /\ UNCHANGED <<hist.cut, hist.fell, hist.stray>>
    BY <1>32 DEF SetPassword, Secured, Others, view, Typed, Pis, Histories
  <2>2. At("set_password") /\ "set_password" \in StepNames \ {"over", "unstage", "upload", "verify", "promote"}
    BY <1>32 DEF SetPassword, Secured, Does, StepNames
  <2>3. ~Staged
    BY <2>2, NotStaged, Zenon
  <2> QED BY <2>1, <2>3, StagingQuiet
<1>33. CASE StartScript
  <2>1. /\ pi'.staging = pi.staging /\ quit' = quit
        /\ UNCHANGED <<hist.cut, hist.fell, hist.stray>>
    BY <1>33 DEF StartScript, Others, view, Typed, Pis, Histories
  <2>2. At("wifi") /\ "wifi" \in StepNames \ {"over", "unstage", "upload", "verify", "promote"}
    BY <1>33 DEF StartScript, Does, StepNames
  <2>3. ~Staged
    BY <2>2, NotStaged, Zenon
  <2> QED BY <2>1, <2>3, StagingQuiet
<1>34. CASE ReadExit
  <2>1. /\ pi'.staging = pi.staging /\ quit' = quit
        /\ UNCHANGED <<hist.cut, hist.fell, hist.stray>>
    BY <1>34 DEF ReadExit, Others, view, Typed, Pis, Histories
  <2>2. At("exit") /\ "exit" \in StepNames \ {"over", "unstage", "upload", "verify", "promote"}
    BY <1>34 DEF ReadExit, Does, StepNames
  <2>3. ~Staged
    BY <2>2, NotStaged, Zenon
  <2> QED BY <2>1, <2>3, StagingQuiet
<1>35. CASE Unanswered
  <2>1. /\ Failed /\ At(Head(job.todo)) /\ Head(job.todo) \in Commands /\ Connected
        /\ UNCHANGED <<quit, hist.cut, hist.fell, pi.boot, pi.sshd>>
        /\ hist' = [hist EXCEPT !.stray = @ \/ At("stage")]
    BY <1>35, UnansweredAt, UnansweredLeaves
  <2>2. hist'.stray = (hist.stray \/ At("stage"))
    BY <2>1 DEF Typed, Histories
  <2>3. CASE At("stage")
    BY <2>2, <2>3 DEF StagingInv
  <2>4. CASE Head(job.todo) \in {"upload", "promote"}
    <3>1. Head(job.todo) \in StepNames \ {"over", "unstage"}
      BY <2>4 DEF StepNames
    <3>2. Fits(job.req, Head(job.todo), Left) /\ worker.run = "running"
      BY <2>1, <3>1, AtPlace, Zenon
    <3>3. job.req.kind = "deploy"
      BY <2>4, <3>2, DeployPlaces
    <3>4. job'.todo = <<"unstage">> /\ UNCHANGED <<job.req, job.conn, worker>>
      BY <2>1, <2>4 DEF Failed, Typed, JobStates
    <3> QED BY <2>1, <3>2, <3>3, <3>4 DEF StagingInv, Staged, Connected
  <2>5. CASE Head(job.todo) \notin {"stage", "upload", "promote"}
    <3>1. Head(job.todo) \in StepNames \ {"over", "unstage", "upload", "verify", "promote"}
      BY <2>1, <2>5 DEF Commands, StepNames
    <3>2. ~Staged
      BY <2>1, <3>1, NotStaged, Zenon
    <3>3. pi'.staging = pi.staging
      BY <1>35, <2>5, UnansweredLeaves DEF At
    <3> QED BY <2>1, <2>2, <3>2, <3>3, StagingQuiet
  <2> QED BY <2>1, <2>3, <2>4, <2>5 DEF At
<1>36. CASE PiStops
  <2>1. /\ pi'.staging = pi.staging /\ quit' = quit /\ UNCHANGED <<hist.cut, hist.stray>>
        /\ hist'.fell = (hist.fell \/ (job.conn = pi.boot /\ pi.staging))
    BY <1>36 DEF PiStops, view, Typed, Pis, Histories
  <2> QED BY <2>1 DEF StagingInv, Staged, Connected
<1>37. CASE PiBoots
  <2>1. pi'.staging = pi.staging /\ quit' = quit /\ hist' = hist /\ ~Staged
    BY <1>37 DEF PiBoots, view, Typed, Pis, Staged, Connected
  <2> QED BY <2>1, StagingQuiet
<1>38. CASE ContainerPrints
  <2>1. /\ UNCHANGED <<pi.staging, pi.sshd, pi.boot, job>> /\ quit' = quit
        /\ UNCHANGED <<hist.cut, hist.fell, hist.stray>> /\ worker'.run = worker.run
    BY <1>38 DEF ContainerPrints, view, Typed, Pis, Histories, Workers
  <2>2. Left' = Left
    BY <1>38, StillMoves DEF Same
  <2> QED BY <2>1, <2>2, StagingQuiet DEF Staged, Connected
<1>39. CASE LosesSession
  <2>1. hist'.cut = TRUE
    BY <1>39 DEF LosesSession, Typed, Histories
  <2> QED BY <2>1 DEF StagingInv
<1>40. CASE EditTree
  <2>1. /\ UNCHANGED <<pi.staging, pi.sshd, pi.boot, job>> /\ quit' = quit
        /\ UNCHANGED <<hist.cut, hist.fell, hist.stray>> /\ worker'.run = worker.run
    BY <1>40 DEF EditTree, view, Typed, Pis, Histories, Workers
  <2>2. Left' = Left
    BY <1>40, StillMoves DEF Same
  <2> QED BY <2>1, <2>2, StagingQuiet DEF Staged, Connected
<1>41. CASE \E k \in Kinds : Press(k)
  <2>1. PICK k \in Kinds : Press(k)
    BY <1>41
  <2>2. UNCHANGED <<pi, quit, hist>> /\ ((Idles /\ Same) \/ Fresh(k, form.pi))
    BY <2>1, PressMoves
  <2>3. CASE Idles /\ Same
    BY <2>2, <2>3, StagingQuiet DEF Idles, Same, Staged, Connected
  <2>4. CASE Fresh(k, form.pi)
    <3>1. ~Staged
      BY <2>4 DEF Fresh, Staged
    <3> QED BY <2>2, <2>4, <3>1, StagingQuiet
  <2> QED BY <2>2, <2>3, <2>4
<1>42. CASE \E k \in Kinds, opts \in SUBSET Options : CliRuns(k, opts)
  <2>1. PICK k \in Kinds, opts \in SUBSET Options : CliRuns(k, opts)
    BY <1>42
  <2>2. UNCHANGED <<pi, quit>> /\ hist' = [hist EXCEPT !.agreed = k] /\ \E p \in Passwords : Fresh(k, p)
    BY <2>1, CliRunsMoves
  <2>3. UNCHANGED <<hist.cut, hist.fell, hist.stray>>
    BY <2>2 DEF Typed, Histories
  <2>4. ~Staged
    BY <2>2 DEF Fresh, Staged
  <2> QED BY <2>2, <2>3, <2>4, StagingQuiet
<1>43. CASE (\E k \in Kinds, opts \in SUBSET Options : CliRefused(k, opts)) \/ CliExits
  <2>1. quit' = TRUE
    BY <1>43, CliEndMoves DEF Exits
  <2> QED BY <2>1 DEF StagingInv
<1>44. CASE Accept
  <2>0. UNCHANGED pi
    BY <1>44, AcceptMoves
  <2>1. ASSUME Exits PROVE StagingInv'
    BY <2>1 DEF Exits, StagingInv
  <2>2. ASSUME Idles, Same, UNCHANGED quit PROVE StagingInv'
    BY <2>0, <2>2, StagingQuiet DEF Idles, Same, Staged, Connected
  <2>3. ASSUME Fresh(confirm, form.pi), UNCHANGED quit,
               hist' = [hist EXCEPT !.agreed = confirm, !.auto = @ /\ confirm # "alpine"]
        PROVE  StagingInv'
    <3>1. UNCHANGED <<hist.cut, hist.fell, hist.stray>>
      BY <2>3 DEF Typed, Histories
    <3>2. ~Staged
      BY <2>3 DEF Fresh, Staged
    <3> QED BY <2>0, <2>3, <3>1, <3>2, StagingQuiet
  <2> QED BY <1>44, <2>1, <2>2, <2>3, AcceptMoves
<1>45. CASE Decline
  <2>1. /\ UNCHANGED <<pi.staging, pi.sshd, pi.boot, job>> /\ quit' = quit
        /\ UNCHANGED <<hist.cut, hist.fell, hist.stray>> /\ worker'.run = worker.run
    BY <1>45 DEF Decline, view, Typed, Pis, Histories, Workers
  <2>2. Left' = Left
    BY <1>45, StillMoves DEF Same
  <2> QED BY <2>1, <2>2, StagingQuiet DEF Staged, Connected
<1>46. CASE Quit
  <2>0. UNCHANGED pi
    BY <1>46, QuitMoves
  <2>1. ASSUME Exits PROVE StagingInv'
    BY <2>1 DEF Exits, StagingInv
  <2>2. ASSUME Idles, Same, UNCHANGED quit PROVE StagingInv'
    BY <2>0, <2>2, StagingQuiet DEF Idles, Same, Staged, Connected
  <2> QED BY <1>46, <2>1, <2>2, QuitMoves
<1>47. CASE Cancel
  <2>1. /\ UNCHANGED <<pi.staging, pi.sshd, pi.boot, job>> /\ quit' = quit
        /\ UNCHANGED <<hist.cut, hist.fell, hist.stray>> /\ worker'.run = worker.run
    BY <1>47 DEF Cancel, view, Typed, Pis, Histories, Workers
  <2>2. Left' = Left
    BY <1>47, StillMoves DEF Same
  <2> QED BY <2>1, <2>2, StagingQuiet DEF Staged, Connected
<1>48. CASE \E p \in Passwords, apply \in BOOLEAN : SetFields(p, apply)
  <2>1. UNCHANGED <<pi, quit, hist, worker, job>>
    BY <1>48 DEF SetFields
  <2>2. Left' = Left
    BY <1>48, StillMoves DEF Same
  <2> QED BY <2>1, <2>2, StagingQuiet DEF Staged, Connected
<1>49. CASE PollWorker
  <2>0. UNCHANGED <<pi, quit>>
    BY <1>49, PollWorkerMoves
  <2>1. ASSUME Same, UNCHANGED <<job, hist>>, worker' = [worker EXCEPT !.lines = 0] PROVE StagingInv'
    <3>1. worker'.run = worker.run
      BY <2>1 DEF Typed, Workers
    <3> QED BY <2>0, <2>1, <3>1, StagingQuiet DEF Same, Staged, Connected
  <2>2. ASSUME worker.run # "running",
               hist' = [Forgotten EXCEPT !.auto = @ \/ Switches, !.said = hist.said]
        PROVE  StagingInv'
    <3>1. UNCHANGED <<hist.cut, hist.fell, hist.stray>>
      BY <2>2 DEF Forgotten, Typed, Histories
    <3>2. ~Staged
      BY <2>2 DEF Staged
    <3> QED BY <2>0, <3>1, <3>2, StagingQuiet
  <2> QED BY <1>49, <2>1, <2>2, PollWorkerMoves
<1>50. CASE AddNetwork \/ Associate
  <2>1. /\ UNCHANGED <<pi.staging, pi.sshd, pi.boot, job, quit, worker>> /\ Same
        /\ UNCHANGED <<hist.cut, hist.fell, hist.stray>>
    BY <1>50, ScriptLeaves, StillMoves
  <2> QED BY <2>1, StagingQuiet DEF Staged, Connected, Same
<1> QED BY <1>1, <1>2, <1>3, <1>4, <1>5, <1>6, <1>7, <1>8, <1>9, <1>10, <1>11, <1>12, <1>13,
           <1>14, <1>15, <1>16, <1>17, <1>18, <1>19, <1>20, <1>21, <1>22, <1>23, <1>24,
           <1>25, <1>26, <1>27, <1>28, <1>29, <1>30, <1>31, <1>32, <1>33, <1>34, <1>35,
           <1>36, <1>37, <1>38, <1>39, <1>40, <1>41, <1>42, <1>43, <1>44, <1>45, <1>46,
           <1>47, <1>48, <1>49, <1>50
       DEF DeployerNext, JobStep, PiStep, Operator

\* No deployment goes on.
LEMMA BannerOther ==
  ASSUME Off \/ job'.req.kind # "deploy"
  PROVE  BannerInv'
BY DEF BannerInv, On, Off

\* A step that leaves the container and its log alone.
LEMMA BannerQuiet ==
  ASSUME BannerInv, PlanInv,
         Moved({"install", "banner", "boot_id", "reboot", "wait", "appliance"}),
         UNCHANGED <<job.boot, job.conn, job.read, job.shown, job.live, pi.boot, pi.going, pi.container,
                     pi.log, pi.hash, hist.made, hist.late>>
  PROVE  BannerInv'
<1>1. CASE Same
  BY <1>1 DEF BannerInv, On, Same, Settled, Printed, Deferred
<1>2. CASE Off
  BY <1>2, BannerOther
<1>3. ASSUME NEW s \in StepNames \ {"install", "banner", "boot_id", "reboot", "wait", "appliance"},
             Forward(s)
      PROVE  BannerInv'
  <2>1. job.req.kind = "deploy" => Left \notin 1..7
    BY <1>3 DEF Forward, Fits, DeployPlan, RebuildPlan, RotatePlan, Known
  <2>2. job'.req = job.req /\ Working /\ Working' /\ Left' = Left - 1 /\ Left \in Int
    BY <1>3 DEF Forward
  <2>3. CASE Left >= 8
    BY <2>2, <2>3 DEF BannerInv, On
  <2>4. CASE Left <= 0
    BY <2>2, <2>4 DEF BannerInv, On, Settled
  <2>5. CASE job.req.kind # "deploy"
    BY <2>2, <2>5, BannerOther
  <2> QED BY <2>1, <2>2, <2>3, <2>4, <2>5
<1> QED BY <1>1, <1>2, <1>3 DEF Moved

\* A new job has read nothing.
LEMMA BannerFresh ==
  ASSUME NEW kind, NEW p, Fresh(kind, p)
  PROVE  BannerInv'
<1>1. kind = "deploy" => Left' >= 15
  BY DEF Fresh, Begun
<1>2. Left' \in Int
  BY ExtraIsNat DEF Fresh, Begun, Place
<1>3. job'.boot = 0 /\ job'.read = FALSE /\ job'.req.kind = kind
  BY DEF Fresh
<1> QED BY <1>1, <1>2, <1>3 DEF BannerInv, On

\* What the log says of the password, once it says anything.
LEMMA PrintedSettles ==
  ASSUME Printed, pi.log # "none", hist.made \in BOOLEAN, UNCHANGED <<pi, hist>>,
         job'.read = FirstWebPassword
  PROVE  Settled'
<1>1. pi.hash /\ pi.log = IF hist.made THEN "banner" ELSE "listening"
  BY DEF Printed
<1>2. CASE hist.made
  BY <1>1, <1>2 DEF Settled, FirstWebPassword
<1>3. CASE ~hist.made
  BY <1>1, <1>3 DEF Settled
<1> QED BY <1>2, <1>3

\* The first look at the log is over: a container that runs has been read.
LEMMA BannerRead ==
  ASSUME On("deploy"), Left = 6, Left' = 5, job'.req = job.req, BannerInv,
         job.live, UNCHANGED <<job.boot, job.live>>, Settled'
  PROVE  BannerInv'
BY DEF BannerInv, On

\* Doing a step changes the list.
LEMMA RestShorter ==
  ASSUME Typed, job.todo # <<>>
  PROVE  Rest # job.todo
<1>1. job.todo \in Seq(StepNames)
  BY DEF Typed, JobStates
<1>2. Len(Rest) = Len(job.todo) - 1 /\ Len(job.todo) \in Nat
  BY <1>1 DEF Rest
<1> QED BY <1>2

\* At the end of a deployment a password that was read is reported.
LEMMA TellsAll ==
  ASSUME Typed, job.boot # 0, NEW password \in BOOLEAN, job' = Told(password)
  PROVE  job'.shown = job'.read
BY DEF Told, Typed, JobStates

\* The wait for the appliance ends well only when its container is there.
LEMMA AwaitEnds ==
  ASSUME Typed, AwaitAppliance, Forward("appliance")
  PROVE  pi.container \in {"starting", "running"}
<1> SUFFICES ASSUME pi.container \notin {"starting", "running"} PROVE FALSE
  OBVIOUS
<1>1. job'.todo = job.todo /\ UNCHANGED <<worker, job.req>>
  BY DEF AwaitAppliance, Others, Typed, JobStates
<1>2. Left' = Left
  BY <1>1 DEF Left
<1> QED BY <1>2 DEF Forward

\* A password the appliance makes during a deployment is read, before the reboot that
\* replaces the log or after it, and reported at the end.
LEMMA BannerStep ==
  ASSUME Typed, PlanInv, FrontInv, BootInv, BannerInv, DeployerNext
  PROVE  BannerInv'
<1>1. CASE Fails
  BY <1>1, FailsMoves, BannerOther
<1>2. CASE Unstage
  BY <1>2, UnstageMoves, BannerOther
<1>3. CASE Report
  <2>1. UNCHANGED <<job.boot, job.conn, job.read, job.shown, job.live, pi.boot, pi.going, pi.container,
                     pi.log, pi.hash, hist.made, hist.late>>
    BY <1>3 DEF Report, Others, view, Typed, Pis, JobStates, Histories
  <2>2. Moved({"install", "banner", "boot_id", "reboot", "wait", "appliance"})
    BY <1>3, ReportMoves DEF Moved, StepNames
  <2> QED BY <2>1, <2>2, BannerQuiet
<1>4. CASE Finish
  <2>1. UNCHANGED <<job.boot, job.conn, job.read, job.shown, job.live, pi.boot, pi.going, pi.container,
                     pi.log, pi.hash, hist.made, hist.late>>
    BY <1>4 DEF Finish, Others, view, Typed, Pis, JobStates, Histories
  <2>2. Moved({"install", "banner", "boot_id", "reboot", "wait", "appliance"})
    BY <1>4, FinishMoves DEF Moved, StepNames
  <2> QED BY <2>1, <2>2, BannerQuiet
<1>5. CASE CheckCard
  <2>1. UNCHANGED <<job.boot, job.conn, job.read, job.shown, job.live, pi.boot, pi.going, pi.container,
                     pi.log, pi.hash, hist.made, hist.late>>
    BY <1>5 DEF CheckCard, Others, view, Typed, Pis, JobStates, Histories
  <2>2. Moved({"install", "banner", "boot_id", "reboot", "wait", "appliance"})
    BY <1>5, CheckCardMoves DEF Moved, StepNames
  <2> QED BY <2>1, <2>2, BannerQuiet
<1>6. CASE Download
  <2>1. UNCHANGED <<job.boot, job.conn, job.read, job.shown, job.live, pi.boot, pi.going, pi.container,
                     pi.log, pi.hash, hist.made, hist.late>>
    BY <1>6 DEF Download, Others, view, Typed, Pis, JobStates, Histories
  <2>2. Moved({"install", "banner", "boot_id", "reboot", "wait", "appliance"})
    BY <1>6, DownloadMoves DEF Moved, StepNames
  <2> QED BY <2>1, <2>2, BannerQuiet
<1>7. CASE Checksum
  <2>1. UNCHANGED <<job.boot, job.conn, job.read, job.shown, job.live, pi.boot, pi.going, pi.container,
                     pi.log, pi.hash, hist.made, hist.late>>
    BY <1>7 DEF Checksum, Others, view, Typed, Pis, JobStates, Histories
  <2>2. Moved({"install", "banner", "boot_id", "reboot", "wait", "appliance"})
    BY <1>7, ChecksumMoves DEF Moved, StepNames
  <2> QED BY <2>1, <2>2, BannerQuiet
<1>8. CASE WriteOverlay
  <2>1. UNCHANGED <<job.boot, job.conn, job.read, job.shown, job.live, pi.boot, pi.going, pi.container,
                     pi.log, pi.hash, hist.made, hist.late>>
    BY <1>8 DEF WriteOverlay, Others, view, Typed, Pis, JobStates, Histories, Writes
  <2>2. Moved({"install", "banner", "boot_id", "reboot", "wait", "appliance"})
    BY <1>8, WriteOverlayMoves DEF Moved, StepNames
  <2> QED BY <2>1, <2>2, BannerQuiet
<1>9. CASE WriteWifi
  <2>1. UNCHANGED <<job.boot, job.conn, job.read, job.shown, job.live, pi.boot, pi.going, pi.container,
                     pi.log, pi.hash, hist.made, hist.late>>
    BY <1>9 DEF WriteWifi, Others, view, Typed, Pis, JobStates, Histories, Writes
  <2>2. Moved({"install", "banner", "boot_id", "reboot", "wait", "appliance"})
    BY <1>9, WriteWifiMoves DEF Moved, StepNames
  <2> QED BY <2>1, <2>2, BannerQuiet
<1>10. CASE Emulate
  <2>1. UNCHANGED <<job.boot, job.conn, job.read, job.shown, job.live, pi.boot, pi.going, pi.container,
                     pi.log, pi.hash, hist.made, hist.late>>
    BY <1>10 DEF Emulate, Others, view, Typed, Pis, JobStates, Histories
  <2>2. Moved({"install", "banner", "boot_id", "reboot", "wait", "appliance"})
    BY <1>10, EmulateMoves DEF Moved, StepNames
  <2> QED BY <2>1, <2>2, BannerQuiet
<1>11. CASE Build
  <2>1. UNCHANGED <<job.boot, job.conn, job.read, job.shown, job.live, pi.boot, pi.going, pi.container,
                     pi.log, pi.hash, hist.made, hist.late>>
    BY <1>11 DEF Build, Others, view, Typed, Pis, JobStates, Histories
  <2>2. Moved({"install", "banner", "boot_id", "reboot", "wait", "appliance"})
    BY <1>11, BuildMoves DEF Moved, StepNames
  <2> QED BY <2>1, <2>2, BannerQuiet
<1>12. CASE Connect
  <2>1. Forward("connect")
    BY <1>12, ConnectMoves
  <2>2. UNCHANGED <<job.boot, job.read, job.shown, pi, hist>>
    BY <1>12 DEF Connect, Others, Typed, JobStates
  <2>3. CASE job.req.kind = "deploy"
    <3>1. (Left = 14 /\ Left' = 13) \/ (Left = 0 /\ Left' = 0 - 1)
      BY <2>1, <2>3, SharedPlaces DEF Forward
    <3>2. On("deploy") /\ job'.req = job.req
      BY <2>1, <2>3 DEF Forward, On
    <3>3. CASE Left = 14 /\ Left' = 13
      BY <2>2, <3>2, <3>3 DEF BannerInv, On
    <3>4. CASE Left = 0 /\ Left' = 0 - 1
      BY <2>2, <3>2, <3>4 DEF BannerInv, On, Settled
    <3> QED BY <3>1, <3>3, <3>4
  <2>4. CASE job.req.kind # "deploy"
    BY <2>1, <2>4, BannerOther DEF Forward
  <2> QED BY <2>3, <2>4
<1>13. CASE Probe
  <2>1. UNCHANGED <<job.boot, job.conn, job.read, job.shown, job.live, pi.boot, pi.going, pi.container,
                     pi.log, pi.hash, hist.made, hist.late>>
    BY <1>13 DEF Probe, Others, view, Typed, Pis, JobStates, Histories
  <2>2. Moved({"install", "banner", "boot_id", "reboot", "wait", "appliance"})
    BY <1>13, ProbeMoves DEF Moved, StepNames
  <2> QED BY <2>1, <2>2, BannerQuiet
<1>14. CASE Run
  <2>1. UNCHANGED <<job.boot, job.conn, job.read, job.shown, job.live, pi.boot, pi.going, pi.container,
                     pi.log, pi.hash, hist.made, hist.late>>
    BY <1>14 DEF Run, Others, view, Typed, Pis, JobStates, Histories
  <2>2. Moved({"install", "banner", "boot_id", "reboot", "wait", "appliance"})
    BY <1>14, RunMoves DEF Moved, StepNames
  <2> QED BY <2>1, <2>2, BannerQuiet
<1>15. CASE Bootstrap
  <2>1. UNCHANGED <<job.boot, job.conn, job.read, job.shown, job.live, pi.boot, pi.going, pi.container,
                     pi.log, pi.hash, hist.made, hist.late>>
    BY <1>15 DEF Bootstrap, Bootstrapped, Others, view, Typed, Pis, JobStates, Histories
  <2>2. Moved({"install", "banner", "boot_id", "reboot", "wait", "appliance"})
    BY <1>15, BootstrapMoves DEF Moved, StepNames
  <2> QED BY <2>1, <2>2, BannerQuiet
<1>16. CASE Setup
  <2>1. UNCHANGED <<job.boot, job.conn, job.read, job.shown, job.live, pi.boot, pi.going, pi.container,
                     pi.log, pi.hash, hist.made, hist.late>>
    BY <1>16 DEF Setup, SetUp, Others, view, Typed, Pis, JobStates, Histories
  <2>2. Moved({"install", "banner", "boot_id", "reboot", "wait", "appliance"})
    BY <1>16, SetupMoves DEF Moved, StepNames
  <2> QED BY <2>1, <2>2, BannerQuiet
<1>17. CASE Artifacts
  <2>1. UNCHANGED <<job.boot, job.conn, job.read, job.shown, job.live, pi.boot, pi.going, pi.container,
                     pi.log, pi.hash, hist.made, hist.late>>
    BY <1>17 DEF Artifacts, Others, view, Typed, Pis, JobStates, Histories
  <2>2. Moved({"install", "banner", "boot_id", "reboot", "wait", "appliance"})
    BY <1>17, ArtifactsMoves DEF Moved, StepNames
  <2> QED BY <2>1, <2>2, BannerQuiet
<1>18. CASE Stage
  <2>1. UNCHANGED <<job.boot, job.conn, job.read, job.shown, job.live, pi.boot, pi.going, pi.container,
                     pi.log, pi.hash, hist.made, hist.late>>
    BY <1>18 DEF Stage, MadeStage, Others, view, Typed, Pis, JobStates, Histories
  <2>2. Moved({"install", "banner", "boot_id", "reboot", "wait", "appliance"})
    BY <1>18, StageMoves DEF Moved, StepNames
  <2> QED BY <2>1, <2>2, BannerQuiet
<1>19. CASE Upload
  <2>1. UNCHANGED <<job.boot, job.conn, job.read, job.shown, job.live, pi.boot, pi.going, pi.container,
                     pi.log, pi.hash, hist.made, hist.late>>
    BY <1>19 DEF Upload, Uploaded, Others, view, Typed, Pis, JobStates, Histories
  <2>2. Moved({"install", "banner", "boot_id", "reboot", "wait", "appliance"})
    BY <1>19, UploadMoves DEF Moved, StepNames
  <2> QED BY <2>1, <2>2, BannerQuiet
<1>20. CASE Verify
  <2>1. UNCHANGED <<job.boot, job.conn, job.read, job.shown, job.live, pi.boot, pi.going, pi.container,
                     pi.log, pi.hash, hist.made, hist.late>>
    BY <1>20 DEF Verify, Others, view, Typed, Pis, JobStates, Histories
  <2>2. Moved({"install", "banner", "boot_id", "reboot", "wait", "appliance"})
    BY <1>20, VerifyMoves DEF Moved, StepNames
  <2> QED BY <2>1, <2>2, BannerQuiet
<1>21. CASE PromoteStage
  <2>1. UNCHANGED <<job.boot, job.conn, job.read, job.shown, job.live, pi.boot, pi.going, pi.container,
                     pi.log, pi.hash, hist.made, hist.late>>
    BY <1>21 DEF PromoteStage, Promoted, Others, view, Typed, Pis, JobStates, Histories
  <2>2. Moved({"install", "banner", "boot_id", "reboot", "wait", "appliance"})
    BY <1>21, PromoteStageMoves DEF Moved, StepNames
  <2> QED BY <2>1, <2>2, BannerQuiet
<1>22. CASE Install
  <2>1. Forward("install")
    BY <1>22, InstallMoves
  <2>2. On("deploy") /\ Left = 7 /\ Left' = 6 /\ job'.req = job.req
    BY <2>1, DeployPlaces DEF Forward, On
  <2>3. PICK live \in BOOLEAN, kept \in BOOLEAN :
          /\ job' = [job EXCEPT !.todo = Rest, !.live = live, !.left = Patience]
          /\ pi' = [pi EXCEPT !.container = IF live THEN "starting" ELSE "deferred",
                             !.log = "none", !.hash = @ \/ kept]
    BY <1>22 DEF Install, Installed
  <2>4. UNCHANGED <<job.boot, job.read, job.conn>> /\ job'.live = live
    BY <2>3 DEF Typed, JobStates
  <2>5. pi'.log = "none" /\ pi'.container = IF live THEN "starting" ELSE "deferred"
    BY <2>3 DEF Installed, Typed, Pis
  <2>6. hist'.made = FALSE
    BY <1>22 DEF Install, Installed, Typed, Histories
  <2>7. IF live THEN Printed' ELSE Deferred'
    BY <2>5, <2>6 DEF Printed, Deferred
  <2> QED BY <2>2, <2>4, <2>7 DEF BannerInv, On
<1>23. CASE ReadBanner
  <2>1. At("banner") /\ job.conn = pi.boot /\ NeedsBanner /\ UNCHANGED pi
    BY <1>23 DEF ReadBanner, Told, Does, Connected
  <2>2. Fits(job.req, "banner", Left) /\ Working
    <3>1. "banner" \in StepNames \ {"over", "unstage"}
      BY DEF StepNames
    <3> QED BY <2>1, <3>1, AtPlace, Zenon
  <2>3. On("deploy") /\ Left \in {1, 6}
    BY <2>2, DeployPlaces DEF On
  <2>4. Left = 6 => job.live
    BY <2>1, <2>3 DEF NeedsBanner, BannerInv
  <2>5. UNCHANGED <<job.boot, job.live, job.req, job.conn>>
    BY <1>23 DEF ReadBanner, Told, Typed, JobStates
  <2>6. CASE pi.log = "none" /\ job.left > 0
    <3>1. UNCHANGED <<job.boot, job.conn, job.read, job.shown, job.live, pi, hist>>
      BY <1>23, <2>6 DEF ReadBanner, Told, Typed, JobStates
    <3>2. job'.todo = job.todo
      BY <1>23, <2>6 DEF ReadBanner, Told, Typed, JobStates
    <3>3. worker' = worker
      BY <1>23 DEF ReadBanner, Told
    <3>4. Same
      BY <2>5, <3>2, <3>3, SameStep
    <3> QED BY <3>1, <3>4, BannerQuiet DEF Moved
  <2>7. CASE ~(pi.log = "none" /\ job.left > 0)
    <3>1. Forward("banner")
      <4>1. job'.todo = Tail(job.todo) /\ worker' = worker
        BY <1>23, <2>7 DEF ReadBanner, Told, Rest, Typed, JobStates
      <4>2. "banner" \in StepNames \ {"over", "unstage"}
        BY DEF StepNames
      <4> QED BY <2>1, <2>5, <4>1, <4>2, ForwardStep, Zenon
    <3>2. Left' = Left - 1
      BY <3>1 DEF Forward
    <3>3. Settled'
      <4>1. CASE pi.log = "none"
        <5>1. hist'.late = TRUE
          BY <1>23, <2>7, <4>1 DEF ReadBanner, Told, Typed, Histories
        <5> QED BY <5>1 DEF Settled
      <4>2. CASE pi.log # "none"
        <5>1. hist' = hist /\ job'.read = FirstWebPassword /\ ~job.read
          BY <1>23, <4>2 DEF ReadBanner, Told, NeedsBanner, FirstWebPassword, Typed, JobStates
        <5>2. CASE Printed
          BY <2>1, <4>2, <5>1, <5>2, PrintedSettles, FieldTypes
        <5>3. CASE ~Printed
          <6>1. Left = 1
            BY <2>1, <2>3, <2>4, <5>3 DEF BannerInv
          <6>2. pi.boot > job.boot => pi.boot # job.boot
            BY FieldTypes
          <6>3. job.live
            BY <2>3, <5>3, <6>1, <6>2 DEF BannerInv
          <6>4. Settled
            BY <2>3, <6>1, <6>3 DEF BannerInv
          <6> QED BY <2>1, <5>1, <6>4 DEF Settled
        <5> QED BY <5>2, <5>3
      <4> QED BY <4>1, <4>2
    <3>4. CASE Left = 6
      BY <2>3, <2>4, <2>5, <3>2, <3>3, <3>4, BannerRead
    <3>5. CASE Left = 1
      <4>1. job.boot # 0
        BY <2>3, <3>5, FieldTypes DEF BannerInv
      <4>3. FirstWebPassword \in BOOLEAN
        BY DEF FirstWebPassword
      <4>4. job' = Told(FirstWebPassword) \/ job' = Told(FALSE)
        BY <1>23, <2>7 DEF ReadBanner
      <4>2. job'.shown = job'.read
        BY <4>1, <4>3, <4>4, TellsAll
      <4> QED BY <2>3, <2>5, <3>2, <3>3, <3>5, <4>2 DEF BannerInv, On
    <3> QED BY <2>3, <3>4, <3>5
  <2> QED BY <2>6, <2>7
<1>24. CASE NoBanner
  <2>1. Forward("banner")
    BY <1>24, NoBannerMoves
  <2>2. On("deploy") /\ Left \in {1, 6} /\ Left' = Left - 1 /\ job'.req = job.req
    BY <2>1, DeployPlaces DEF Forward, On
  <2>3. UNCHANGED <<job.boot, job.live>> /\ NeedsBanner
    BY <1>24 DEF NoBanner, Told, Typed, JobStates
  <2>4. Settled'
    BY <1>24 DEF NoBanner, Told, Settled, Typed, Histories
  <2>5. CASE Left = 6
    <3>1. job.live
      BY <2>2, <2>3, <2>5 DEF NeedsBanner, BannerInv
    <3> QED BY <2>2, <2>3, <2>4, <2>5, <3>1, BannerRead
  <2>6. CASE Left = 1
    <3>1. hist'.late = TRUE
      BY <1>24 DEF NoBanner, Typed, Histories
    <3> QED BY <2>2, <2>4, <2>6, <3>1 DEF BannerInv, On
  <2> QED BY <2>2, <2>5, <2>6
<1>25. CASE SkipBanner
  <2>1. Forward("banner")
    BY <1>25, SkipBannerMoves
  <2>2. On("deploy") /\ Left \in {1, 6} /\ Left' = Left - 1 /\ job'.req = job.req
    BY <2>1, DeployPlaces DEF Forward, On
  <2>3. UNCHANGED <<job.boot, job.live, job.read, job.conn, pi, hist>> /\ ~NeedsBanner
    BY <1>25 DEF SkipBanner, Told, Others, Typed, JobStates
  <2>5. CASE Left = 6
    <3>1. ~job.live /\ ~job.read /\ job.boot = 0
      BY <2>2, <2>3, <2>5 DEF NeedsBanner, BannerInv
    <3> QED BY <2>2, <2>3, <2>5, <3>1 DEF BannerInv, On, Deferred
  <2>6. CASE Left = 1
    <3>1. job.boot # 0
      BY <2>2, <2>6, FieldTypes DEF BannerInv
    <3>2. job.read
      BY <2>3, <3>1 DEF NeedsBanner
    <3>3. Settled'
      BY <2>3, <3>2 DEF Settled
    <3>4. job'.shown = job'.read
      <4>1. job.read \in BOOLEAN
        BY DEF Typed, JobStates
      <4>2. job' = Told(job.read)
        BY <1>25 DEF SkipBanner
      <4> QED BY <3>1, <4>1, <4>2, TellsAll
    <3> QED BY <2>2, <2>6, <3>3, <3>4 DEF BannerInv, On
  <2> QED BY <2>2, <2>5, <2>6
<1>26. CASE ReadBootId
  <2>1. Forward("boot_id")
    BY <1>26, ReadBootIdMoves
  <2>2. UNCHANGED <<job.live, job.read, job.shown, job.conn, pi, hist>> /\ job'.boot = pi.boot /\ job.conn = pi.boot
    BY <1>26 DEF ReadBootId, Does, Connected, Others, Typed, JobStates
  <2>3. CASE job.req.kind = "deploy"
    <3>1. On("deploy") /\ Left = 5 /\ Left' = 4 /\ job'.req = job.req
      BY <2>1, <2>3, SharedPlaces DEF Forward, On
    <3>2. pi.boot >= 1
      BY DEF BootInv
    <3> QED BY <2>2, <3>1, <3>2 DEF BannerInv, On, Settled, Deferred
  <2>4. CASE job.req.kind # "deploy"
    BY <2>1, <2>4, BannerOther DEF Forward
  <2> QED BY <2>3, <2>4
<1>27. CASE Reboot
  <2>1. Forward("reboot")
    BY <1>27, RebootMoves
  <2>2. /\ UNCHANGED <<job.live, job.read, job.boot, pi.boot, pi.container, pi.log, pi.hash, hist>>
        /\ pi'.going /\ job.conn = pi.boot
    BY <1>27 DEF Reboot, Leaving, Does, Connected, Others, Typed, JobStates, Pis
  <2>3. CASE job.req.kind = "deploy"
    <3>1. On("deploy") /\ Left = 4 /\ Left' = 3 /\ job'.req = job.req
      BY <2>1, <2>3, SharedPlaces DEF Forward, On
    <3>2. job.boot >= 1 /\ pi.boot = job.boot
      BY <2>2, <3>1, FieldTypes DEF BannerInv, BootInv
    <3> QED BY <2>2, <3>1, <3>2 DEF BannerInv, On, Settled, Deferred
  <2>4. CASE job.req.kind # "deploy"
    BY <2>1, <2>4, BannerOther DEF Forward
  <2> QED BY <2>3, <2>4
<1>28. CASE TryAccount
  <2>1. UNCHANGED <<job.live, job.read, job.shown, job.boot, pi, hist>>
    BY <1>28 DEF TryAccount, Accepts, Others, Typed, JobStates
  <2>2. CASE Forward("wait") /\ job'.todo = Tail(job.todo)
    <3>1. CASE job.req.kind = "deploy"
      <4>1. On("deploy") /\ Left = 3 /\ Left' = 2 /\ job'.req = job.req /\ Waiting
        BY <2>2, <3>1, SharedPlaces DEF Forward, On, Waiting
      <4> QED BY <2>1, <4>1 DEF BannerInv, On, Settled, Printed, Deferred
    <3>2. CASE job.req.kind # "deploy"
      BY <2>2, <3>2, BannerOther DEF Forward
    <3> QED BY <3>1, <3>2
  <2>3. CASE Same /\ job'.todo = job.todo
    <3>1. Rest # job.todo
      BY <1>28, RestShorter DEF TryAccount, Accepts, At
    <3>2. job'.conn = job.conn
      BY <1>28, <2>3, <3>1 DEF TryAccount, Accepts, Typed, JobStates
    <3> QED BY <2>1, <2>3, <3>2, BannerQuiet DEF Moved
  <2> QED BY <1>28, <2>2, <2>3, TryAccountMoves
<1>29. CASE AwaitAppliance
  <2>1. UNCHANGED <<job.boot, job.conn, job.read, job.shown, job.live, pi, hist>>
    BY <1>29 DEF AwaitAppliance, Others, Typed, JobStates
  <2>2. CASE Forward("appliance")
    <3>1. On("deploy") /\ Left = 2 /\ Left' = 1 /\ job'.req = job.req
      BY <2>2, DeployPlaces DEF Forward, On
    <3>2. pi.container \in {"starting", "running"}
      BY <1>29, <2>2, AwaitEnds
    <3> QED BY <2>1, <3>1, <3>2 DEF BannerInv, On, Settled, Printed, Deferred
  <2>3. CASE Same
    BY <2>1, <2>3, BannerQuiet DEF Moved
  <2> QED BY <1>29, <2>2, <2>3, AwaitApplianceMoves
<1>30. CASE NoAppliance
  <2>1. hist'.late = TRUE
    BY <1>30 DEF NoAppliance, Typed, Histories
  <2>2. Left' = 0
    BY <1>30, NoApplianceMoves
  <2> QED BY <2>1, <2>2 DEF BannerInv, Settled
<1>31. CASE Restart
  <2>1. Forward("restart")
    BY <1>31, RestartMoves
  <2>2. job'.req.kind # "deploy"
    BY <2>1, SharedPlaces DEF Forward
  <2> QED BY <2>2, BannerOther
<1>32. CASE SetPassword
  <2>1. Forward("set_password")
    BY <1>32, SetPasswordMoves
  <2>2. UNCHANGED <<job.read, job.shown, hist>> /\ pi'.hash = TRUE
    BY <1>32 DEF SetPassword, Secured, Others, Typed, JobStates, Pis
  <2>3. CASE job.req.kind = "deploy"
    <3>1. On("deploy") /\ Left = 0 - 1 /\ Left' = 0 - 2
      BY <2>1, <2>3, SharedPlaces DEF Forward, On
    <3> QED BY <2>2, <3>1 DEF BannerInv, Settled
  <2>4. CASE job.req.kind # "deploy"
    BY <2>1, <2>4, BannerOther DEF Forward
  <2> QED BY <2>3, <2>4
<1>33. CASE StartScript
  <2>1. UNCHANGED <<job.boot, job.conn, job.read, job.shown, job.live, pi.boot, pi.going, pi.container,
                     pi.log, pi.hash, hist.made, hist.late>>
    BY <1>33 DEF StartScript, Others, view, Typed, Pis, JobStates, Histories
  <2>2. Moved({"install", "banner", "boot_id", "reboot", "wait", "appliance"})
    BY <1>33, StartScriptMoves DEF Moved, StepNames
  <2> QED BY <2>1, <2>2, BannerQuiet
<1>34. CASE ReadExit
  <2>1. UNCHANGED <<job.boot, job.conn, job.read, job.shown, job.live, pi.boot, pi.going, pi.container,
                     pi.log, pi.hash, hist.made, hist.late>>
    BY <1>34 DEF ReadExit, Others, view, Typed, Pis, JobStates, Histories
  <2>2. Moved({"install", "banner", "boot_id", "reboot", "wait", "appliance"})
    BY <1>34, ReadExitMoves DEF Moved, StepNames
  <2> QED BY <2>1, <2>2, BannerQuiet
<1>35. CASE Unanswered
  BY <1>35, UnansweredMoves, BannerOther
<1>36. CASE PiStops
  <2>1. UNCHANGED <<job.boot, job.conn, job.read, job.shown, job.live, pi.boot, pi.going, pi.container,
                     pi.log, pi.hash, hist.made, hist.late>>
    BY <1>36 DEF PiStops, Others, view, Typed, Pis, JobStates, Histories
  <2>2. Moved({"install", "banner", "boot_id", "reboot", "wait", "appliance"})
    BY <1>36, StillMoves DEF Moved, StepNames
  <2> QED BY <2>1, <2>2, BannerQuiet
<1>37. CASE PiBoots
  <2>1. /\ UNCHANGED <<job, hist, pi.hash>> /\ pi'.boot = pi.boot + 1 /\ pi'.going = FALSE
        /\ pi'.log = "none" /\ (pi.container = "deferred" => pi'.container = "starting") /\ ~pi.sshd
    BY <1>37 DEF PiBoots, Restarted, Typed, Pis
  <2>2. Same
    BY <1>37, StillMoves
  <2>3. job.conn # pi'.boot /\ pi.going /\ job.boot <= pi.boot
    BY SMTT(30), <2>1, FieldTypes DEF BootInv, Typed, JobStates
  <2>4. (Settled => Settled') /\ (Deferred => Printed')
    BY <2>1 DEF Settled, Deferred, Printed
  <2>5. pi'.boot > job.boot
    BY SMTT(30), <2>1, <2>3, FieldTypes DEF Typed, JobStates
  <2> QED BY <2>1, <2>2, <2>3, <2>4, <2>5 DEF BannerInv, On, Same
<1>38. CASE ContainerPrints
  <2>1. /\ UNCHANGED <<job, pi.boot, pi.going, hist.late>> /\ pi.container = "starting"
        /\ pi'.container = "running" /\ pi'.hash = TRUE
        /\ pi'.log = IF pi.hash THEN "listening" ELSE "banner"
        /\ hist'.made = (hist.made \/ ~pi.hash)
    BY <1>38 DEF ContainerPrints, Typed, Pis, Histories
  <2>2. Same
    BY <1>38, StillMoves
  <2>3. ~Deferred /\ (Settled => Settled')
    BY <2>1 DEF Settled, Deferred
  <2>4. Printed => Printed'
    <3>1. CASE pi.hash
      BY <2>1, <3>1 DEF Printed
    <3>2. CASE ~pi.hash
      BY <2>1, <3>2 DEF Printed
    <3> QED BY <3>1, <3>2
  <2> QED BY <2>1, <2>2, <2>3, <2>4 DEF BannerInv, On, Same
<1>39. CASE LosesSession
  <2>1. /\ UNCHANGED <<job.boot, job.read, job.shown, job.live, pi, hist.made, hist.late>> /\ job'.conn = 0
    BY <1>39 DEF LosesSession, Typed, JobStates, Histories
  <2>2. Same
    BY <1>39, StillMoves
  <2>3. pi.boot >= 1
    BY DEF BootInv
  <2>4. Settled => Settled'
    BY <2>1 DEF Settled
  <2>5. (Printed => Printed') /\ (Deferred => Deferred')
    BY <2>1 DEF Printed, Deferred
  <2> QED BY <2>1, <2>2, <2>3, <2>4, <2>5 DEF BannerInv, On, Same
<1>40. CASE EditTree
  <2>1. UNCHANGED <<job.boot, job.conn, job.read, job.shown, job.live, pi.boot, pi.going, pi.container,
                     pi.log, pi.hash, hist.made, hist.late>>
    BY <1>40 DEF EditTree, Others, view, Typed, Pis, JobStates, Histories
  <2>2. Moved({"install", "banner", "boot_id", "reboot", "wait", "appliance"})
    BY <1>40, StillMoves DEF Moved, StepNames
  <2> QED BY <2>1, <2>2, BannerQuiet
<1>41. CASE \E k \in Kinds : Press(k)
  <2>1. PICK k \in Kinds : Press(k)
    BY <1>41
  <2>2. UNCHANGED <<hist, pi>> /\ ((Idles /\ Same) \/ Fresh(k, form.pi))
    BY <2>1, PressMoves
  <2>3. CASE Idles /\ Same
    BY <2>2, <2>3, BannerQuiet DEF Idles, Moved
  <2> QED BY <2>2, <2>3, BannerFresh
<1>42. CASE \E k \in Kinds, opts \in SUBSET Options : CliRuns(k, opts)
  <2>1. PICK k \in Kinds, opts \in SUBSET Options : CliRuns(k, opts)
    BY <1>42
  <2>2. \E p \in Passwords : Fresh(k, p)
    BY <2>1, CliRunsMoves
  <2> QED BY <2>2, BannerFresh
<1>43. CASE (\E k \in Kinds, opts \in SUBSET Options : CliRefused(k, opts)) \/ CliExits
  BY <1>43, CliEndMoves, BannerOther
<1>44. CASE Accept
  <2>1. UNCHANGED pi /\ (Off \/ (Idles /\ Same) \/ Fresh(confirm, form.pi))
    BY <1>44, AcceptMoves
  <2>2. CASE Idles /\ Same
    BY <2>1, <2>2, BannerQuiet DEF Idles, Moved
  <2> QED BY <2>1, <2>2, BannerFresh, BannerOther
<1>45. CASE Decline
  <2>1. UNCHANGED <<job.boot, job.conn, job.read, job.shown, job.live, pi.boot, pi.going, pi.container,
                     pi.log, pi.hash, hist.made, hist.late>>
    BY <1>45 DEF Decline, Others, view, Typed, Pis, JobStates, Histories
  <2>2. Moved({"install", "banner", "boot_id", "reboot", "wait", "appliance"})
    BY <1>45, StillMoves DEF Moved, StepNames
  <2> QED BY <2>1, <2>2, BannerQuiet
<1>46. CASE Quit
  <2>1. UNCHANGED pi /\ (Off \/ (Idles /\ Same))
    BY <1>46, QuitMoves
  <2>2. CASE Idles /\ Same
    BY <2>1, <2>2, BannerQuiet DEF Idles, Moved
  <2> QED BY <2>1, <2>2, BannerOther
<1>47. CASE Cancel
  <2>1. UNCHANGED <<job.boot, job.conn, job.read, job.shown, job.live, pi.boot, pi.going, pi.container,
                     pi.log, pi.hash, hist.made, hist.late>>
    BY <1>47 DEF Cancel, Others, view, Typed, Pis, JobStates, Histories
  <2>2. Moved({"install", "banner", "boot_id", "reboot", "wait", "appliance"})
    BY <1>47, StillMoves DEF Moved, StepNames
  <2> QED BY <2>1, <2>2, BannerQuiet
<1>48. CASE \E p \in Passwords, apply \in BOOLEAN : SetFields(p, apply)
  <2>1. UNCHANGED <<job.boot, job.conn, job.read, job.shown, job.live, pi.boot, pi.going, pi.container,
                     pi.log, pi.hash, hist.made, hist.late>>
    BY <1>48 DEF SetFields, Others, view, Typed, Pis, JobStates, Histories
  <2>2. Moved({"install", "banner", "boot_id", "reboot", "wait", "appliance"})
    BY <1>48, StillMoves DEF Moved, StepNames
  <2> QED BY <2>1, <2>2, BannerQuiet
<1>49. CASE PollWorker
  <2>1. UNCHANGED pi /\ (Off \/ (UNCHANGED <<job, hist>> /\ Same))
    BY <1>49, PollWorkerMoves
  <2>2. CASE UNCHANGED <<job, hist>> /\ Same
    BY <2>1, <2>2, BannerQuiet DEF Moved
  <2> QED BY <2>1, <2>2, BannerOther
<1>50. CASE AddNetwork \/ Associate
  <2>1. /\ UNCHANGED <<pi.boot, pi.going, pi.container, pi.log, pi.hash, hist.made, hist.late, job>>
        /\ Same
    BY <1>50, ScriptLeaves, StillMoves
  <2> QED BY <2>1, BannerQuiet DEF Moved
<1> QED BY <1>1, <1>2, <1>3, <1>4, <1>5, <1>6, <1>7, <1>8, <1>9, <1>10, <1>11, <1>12, <1>13,
           <1>14, <1>15, <1>16, <1>17, <1>18, <1>19, <1>20, <1>21, <1>22, <1>23, <1>24,
           <1>25, <1>26, <1>27, <1>28, <1>29, <1>30, <1>31, <1>32, <1>33, <1>34, <1>35,
           <1>36, <1>37, <1>38, <1>39, <1>40, <1>41, <1>42, <1>43, <1>44, <1>45, <1>46,
           <1>47, <1>48, <1>49, <1>50
       DEF DeployerNext, JobStep, PiStep, Operator

\* The invariant holds at the start,
LEMMA DeployerStarts ==
  ASSUME DeployerInit
  PROVE  DeployerInv
<1>1. /\ worker.run = "none" /\ worker = Free /\ job = Idle /\ log = 0 /\ quit = FALSE /\ started = 0
      /\ worker.lines = 0
  BY DEF DeployerInit, Free
<1>2. APassword \in Passwords \ Weak
  BY DeployerAssumption DEF APassword
<1>3. job.account = 1 /\ job.todo = <<>> /\ job.req.kind = "test" /\ job.conn = 0 /\ job.boot = 0
  BY <1>1, IdleFields, IdleTyped
<1>4. ~Working /\ ~busy
  BY <1>1 DEF Working, busy
<1>5. PICK supported \in BOOLEAN, has \in Hosts :
        pi = [boot |-> 1, sshd |-> TRUE, going |-> FALSE, accounts |-> {"login"},
              password |-> "factory", has |-> has, staging |-> FALSE, stage |-> Nothing,
              release |-> Nothing, container |-> "none", hash |-> FALSE, log |-> "none",
              scripts |-> {}, wifi |-> {0}, saved |-> {0}, works |-> {0}, supported |-> supported]
  BY DEF DeployerInit
<1>6. /\ pi.boot = 1 /\ pi.sshd = TRUE /\ pi.password = "factory" /\ pi.staging = FALSE
      /\ pi.release = Nothing /\ pi.wifi = {0} /\ pi.saved = {0} /\ pi.works = {0}
  BY <1>5
<1>7. Typed
  <2>1. pi \in Pis
    <3>1. has \in SUBSET {"root", "bash", "sudo", "doas", "su"} /\ Nothing \in Numbers
      BY <1>5, DeployerAssumption, PlaceOfNothing
    <3>2. {"login"} \in SUBSET AccountNames /\ "factory" \in Logins /\ {0} \in SUBSET Nat /\ 1 \in Nat
          /\ {} \in SUBSET Scripts
      BY DEF AccountNames, Logins
    <3> QED BY <1>5, <3>1, <3>2 DEF Pis
  <2>2. form \in Forms /\ card \in Cards /\ engine \in Engines /\ hist \in Histories
    BY <1>2 DEF DeployerInit, Forms, Logins, Cards, Engines, Histories
  <2>3. tree \in Numbers
    BY DEF DeployerInit, Numbers
  <2> QED BY <1>1, <1>3, <2>1, <2>2, <2>3, IdleTyped DEF Typed
<1>8. FrontInv
  BY <1>1 DEF FrontInv, DeployerInit
<1>9. PlanInv
  BY <1>1, <1>3, LastLists DEF PlanInv, Planned
<1>10. PageInv
  BY <1>4, <1>6, DeployerAssumption DEF PageInv, Past, On, DeployerInit
<1>11. WifiInv
  BY <1>6 DEF WifiInv
<1>12. CardInv
  BY <1>4 DEF CardInv, Past, On, DeployerInit
<1>13. ContentInv
  BY <1>4, <1>6 DEF ContentInv, Past, On, DeployerInit
<1>14. StagingInv
  BY <1>6 DEF StagingInv
<1>15. BootInv
  BY <1>3, <1>4, <1>6 DEF BootInv, Waiting, On
<1>16. BannerInv
  BY <1>4 DEF BannerInv, On
<1> QED BY <1>7, <1>8, <1>9, <1>10, <1>11, <1>12, <1>13, <1>14, <1>15, <1>16 DEF DeployerInv

\* and while nothing happens.
LEMMA DeployerStutters ==
  ASSUME DeployerInv, UNCHANGED deployerVars
  PROVE  DeployerInv'
<1>1. UNCHANGED <<front, form, confirm, log, quit, worker, job, tree, engine, card, pi, started, hist>>
  BY DEF deployerVars, view, workstation
<1>2. Typed'
  BY <1>1 DEF DeployerInv, Typed
<1>3. FrontInv'
  BY <1>1 DEF DeployerInv, FrontInv
<1>4. PlanInv' /\ Same
  BY <1>1, SameStep DEF DeployerInv
<1>5. Moved({"setup"}) /\ Moved({"checksum", "overlay", "wifi_file"})
  BY <1>4 DEF Moved
<1>6. PageInv'
  BY <1>1, <1>5, PageQuiet DEF DeployerInv, busy
<1>7. WifiInv' /\ CardInv'
  BY <1>1, <1>5, WifiQuiet, CardQuiet DEF DeployerInv
<1>8. ContentInv'
  BY <1>1, <1>4, ContentQuiet DEF DeployerInv, Moved
<1>9. StagingInv'
  BY <1>1, <1>4, StagingQuiet DEF DeployerInv, Same, Staged, Connected
<1>10. BootInv'
  BY <1>1, <1>4, BootQuiet DEF DeployerInv, Moved
<1>11. BannerInv'
  BY <1>1, <1>4, BannerQuiet DEF DeployerInv, Moved
<1> QED BY <1>2, <1>3, <1>4, <1>6, <1>7, <1>8, <1>9, <1>10, <1>11 DEF DeployerInv

\* What every job has behind it, on the Pi, on the card, in the working tree and
\* on the page, holds in every state.
THEOREM DeployerInvariant == DeployerSpec => []DeployerInv
<1>1. DeployerInit => DeployerInv
  BY DeployerStarts
<1>2. DeployerInv /\ [DeployerNext]_deployerVars => DeployerInv'
  <2> SUFFICES ASSUME DeployerInv, [DeployerNext]_deployerVars PROVE DeployerInv'
    OBVIOUS
  <2>1. CASE DeployerNext
    <3>1. Typed /\ FrontInv /\ PlanInv /\ PageInv /\ WifiInv /\ CardInv /\ ContentInv /\ StagingInv
          /\ BootInv /\ BannerInv
      BY DEF DeployerInv
    <3>2. Typed' /\ PlanInv' /\ FrontInv'
      BY <2>1, <3>1, TypedStep, FrontStep, Zenon
    <3>3. PageInv' /\ WifiInv' /\ CardInv'
      BY <2>1, <3>1, PageStep, WifiStep, CardStep, Zenon
    <3>4. ContentInv' /\ StagingInv'
      BY <2>1, <3>1, ContentStep, StagingStep, Zenon
    <3>5. BootInv' /\ BannerInv'
      BY <2>1, <3>1, BootStep, BannerStep, Zenon
    <3> QED BY <3>2, <3>3, <3>4, <3>5 DEF DeployerInv
  <2>2. CASE UNCHANGED deployerVars
    BY <2>2, DeployerStutters
  <2> QED BY <2>1, <2>2
<1> QED BY <1>1, <1>2, PTL DEF DeployerSpec

\* The Pi always keeps a saved Wi-Fi profile that connects, unless the operator
\* asked to replace them all untested, or to keep them and gave a new key for one.
THEOREM WifiIsNeverStranded == DeployerSpec => []WifiNeverStrands
<1>1. DeployerInv => WifiNeverStrands
  BY DEF DeployerInv, WifiInv, WifiNeverStrands
<1> QED BY <1>1, DeployerInvariant, PTL

\* What the operator sees of a job is true.
THEOREM PageIsHonest == DeployerSpec => []PageHonest
<1>1. DeployerInv => PageHonest
  <2> SUFFICES ASSUME DeployerInv PROVE PageHonest
    OBVIOUS
  <2>1. worker.run = "none" => log = hist.said
    <3>1. worker.run = "none" => worker.lines = 0
      BY DEF DeployerInv, FrontInv, Free
    <3> QED BY <3>1 DEF DeployerInv, FrontInv, Typed
  <2>2. hist.auto => form.login = pi.password
    BY DEF DeployerInv, PageInv
  <2>3. pi.password \notin Weak
    BY DEF DeployerInv, PageInv
  <2>4. (worker.run = "running" /\ job.req.kind \in Asks) => hist.agreed = job.req.kind
    BY DEF DeployerInv, PageInv, busy
  <2> QED BY <2>1, <2>2, <2>3, <2>4 DEF PageHonest
<1> QED BY <1>1, DeployerInvariant, PTL

\* What is promoted is what the digests were taken of, on a board that is
\* supported; what a card holds is the pinned overlay, and all of it when the
\* job has succeeded; and no stage is left behind by a job that could remove it.
THEOREM StagingIsSound == DeployerSpec => []StagingSound
<1>1. DeployerInv => StagingSound
  <2> SUFFICES ASSUME DeployerInv PROVE StagingSound
    OBVIOUS
  <2>0. Typed /\ PlanInv /\ FrontInv /\ ContentInv /\ CardInv /\ StagingInv
    BY DEF DeployerInv
  <2>1. pi.release # Nothing => pi.supported /\ \A i \in Index : pi.release[i] # 0
    BY <2>0 DEF ContentInv
  <2>2. At("install") => /\ pi.release = job.digest
                         /\ job.req.flag = "rebuild" => pi.release[Members] > 1
    <3> SUFFICES ASSUME At("install")
                 PROVE  pi.release = job.digest /\ (job.req.flag = "rebuild" => pi.release[Members] > 1)
      OBVIOUS
    <3>1. "install" \in StepNames \ {"over", "unstage"}
      BY DEF StepNames
    <3>2. Fits(job.req, "install", Left) /\ Working
      BY <2>0, <3>1, AtPlace, Zenon
    <3>3. On("deploy") /\ Left = 7
      BY <3>2, DeployPlaces DEF On
    <3> QED BY <2>0, <3>3 DEF ContentInv, Past
  <2>3. card.overlay # "other"
    BY <2>0 DEF CardInv
  <2>4. (worker.run = "ok" /\ job.req.kind = "prepare_sd") => card = [overlay |-> "pinned", wifi |-> "psk"]
    <3> SUFFICES ASSUME worker.run = "ok", job.req.kind = "prepare_sd"
                 PROVE  card = [overlay |-> "pinned", wifi |-> "psk"]
      OBVIOUS
    <3>1. job.todo = <<>>
      BY <2>0 DEF FrontInv
    <3>2. Left = 0 /\ Working
      BY <3>1, LastLists DEF Left, Place, Extra, Working
    <3>3. card.overlay = "pinned" /\ card.wifi = "psk"
      BY <2>0, <3>2 DEF CardInv, Past, On
    <3> QED BY <2>0, <3>3 DEF Typed, Cards
  <2>5. (worker.run \in {"ok", "failed"} /\ pi.staging) => (hist.cut \/ hist.fell \/ hist.stray)
    BY <2>0 DEF StagingInv, Staged, FrontInv
  <2> QED BY <2>1, <2>2, <2>3, <2>4, <2>5 DEF StagingSound
<1> QED BY <1>1, DeployerInvariant, PTL

\* A deployment that completes has reported the web password the appliance made
\* during it, unless the log was not to be read in time or the wait for the
\* appliance ended badly.
THEOREM PasswordIsShown == DeployerSpec => []PasswordShown
<1>1. DeployerInv => PasswordShown
  <2> SUFFICES ASSUME DeployerInv, worker.run = "ok", job.req.kind = "deploy", hist.made, ~hist.late
               PROVE  job.shown
    BY DEF PasswordShown
  <2>1. job.todo = <<>>
    BY DEF DeployerInv, FrontInv
  <2>2. Left <= 0 /\ Working
    BY <2>1, LastLists, ExtraIsNat DEF Left, Place, Working
  <2> QED BY <2>2 DEF DeployerInv, BannerInv, On, Settled
<1> QED BY <1>1, DeployerInvariant, PTL

\* A job that waits for a reboot gets its session from the wait alone.
LEMMA WaitKept ==
  ASSUME Typed, PlanInv, FrontInv, At("wait"), job.conn = 0, DeployerNext
  PROVE  job'.conn = 0 \/ TryAccount
<1>1. CASE Fails
  BY <1>1 DEF Fails, Failed, Typed, JobStates
<1>2. CASE Unstage
  BY <1>2 DEF Unstage, Typed, JobStates
<1>3. CASE Report
  BY <1>3 DEF Report, Typed, JobStates
<1>4. CASE Finish
  BY <1>4 DEF Finish, Typed, JobStates
<1>5. CASE CheckCard
  BY <1>5 DEF CheckCard, Does, At
<1>6. CASE Download
  BY <1>6 DEF Download, Does, At
<1>7. CASE Checksum
  BY <1>7 DEF Checksum, Does, At
<1>8. CASE WriteOverlay
  BY <1>8 DEF WriteOverlay, Does, At
<1>9. CASE WriteWifi
  BY <1>9 DEF WriteWifi, Does, At
<1>10. CASE Emulate
  BY <1>10 DEF Emulate, Does, At
<1>11. CASE Build
  BY <1>11 DEF Build, Does, At
<1>12. CASE Connect
  BY <1>12 DEF Connect, Does, At
<1>13. CASE Probe
  BY <1>13 DEF Probe, Does, At
<1>14. CASE Run
  BY <1>14 DEF Run, Does, At
<1>15. CASE Bootstrap
  BY <1>15 DEF Bootstrap, Bootstrapped, Does, At
<1>16. CASE Setup
  BY <1>16 DEF Setup, SetUp, Does, At
<1>17. CASE Artifacts
  BY <1>17 DEF Artifacts, Does, At
<1>18. CASE Stage
  BY <1>18 DEF Stage, MadeStage, Does, At
<1>19. CASE Upload
  BY <1>19 DEF Upload, Uploaded, Does, At
<1>20. CASE Verify
  BY <1>20 DEF Verify, Does, At
<1>21. CASE PromoteStage
  BY <1>21 DEF PromoteStage, Promoted, Does, At
<1>22. CASE Install
  BY <1>22 DEF Install, Installed, Does, At
<1>23. CASE ReadBanner
  BY <1>23 DEF ReadBanner, Told, Does, At
<1>24. CASE NoBanner
  BY <1>24 DEF NoBanner, Told, Does, At
<1>25. CASE SkipBanner
  BY <1>25 DEF SkipBanner, Told, Does, At
<1>26. CASE ReadBootId
  BY <1>26 DEF ReadBootId, Does, At
<1>27. CASE Reboot
  BY <1>27 DEF Reboot, Leaving, Does, At
<1>28. CASE TryAccount
  BY <1>28
<1>29. CASE AwaitAppliance
  BY <1>29 DEF AwaitAppliance, Does, At
<1>30. CASE NoAppliance
  BY <1>30 DEF NoAppliance, Does, At
<1>31. CASE Restart
  BY <1>31 DEF Restart, Served, Restarted, Does, At
<1>32. CASE SetPassword
  BY <1>32 DEF SetPassword, Secured, Does, At
<1>33. CASE StartScript
  BY <1>33 DEF StartScript, Does, At
<1>34. CASE ReadExit
  BY <1>34 DEF ReadExit, Does, At
<1>35. CASE Unanswered
  BY <1>35, UnansweredAt DEF At, Commands
<1>36. CASE PiStops
  BY <1>36 DEF PiStops, Typed, JobStates
<1>37. CASE PiBoots
  BY <1>37 DEF PiBoots, Typed, JobStates
<1>38. CASE ContainerPrints
  BY <1>38 DEF ContainerPrints, Typed, JobStates
<1>39. CASE LosesSession
  BY <1>39 DEF LosesSession, Typed, JobStates
<1>40. CASE EditTree
  BY <1>40 DEF EditTree, Typed, JobStates
<1>41. CASE \E k \in Kinds : Press(k)
  BY <1>41, PressMoves DEF Idles, Fresh
<1>42. CASE \E k \in Kinds, opts \in SUBSET Options : CliRuns(k, opts)
  BY <1>42, CliRunsMoves DEF Fresh
<1>43. CASE (\E k \in Kinds, opts \in SUBSET Options : CliRefused(k, opts)) \/ CliExits
  BY <1>43, CliEndMoves, IdleFields DEF Exits
<1>44. CASE Accept
  BY <1>44, AcceptMoves, IdleFields DEF Exits, Idles, Fresh
<1>45. CASE Decline
  BY <1>45 DEF Decline, Typed, JobStates
<1>46. CASE Quit
  BY <1>46, QuitMoves, IdleFields DEF Exits, Idles
<1>47. CASE Cancel
  BY <1>47 DEF Cancel, Typed, JobStates
<1>48. CASE \E p \in Passwords, apply \in BOOLEAN : SetFields(p, apply)
  BY <1>48 DEF SetFields, Typed, JobStates
<1>49. CASE PollWorker
  BY <1>49, PollWorkerMoves, IdleFields
<1>50. CASE AddNetwork \/ Associate
  BY <1>50, ScriptLeaves
<1> QED BY <1>1, <1>2, <1>3, <1>4, <1>5, <1>6, <1>7, <1>8, <1>9, <1>10, <1>11, <1>12, <1>13,
           <1>14, <1>15, <1>16, <1>17, <1>18, <1>19, <1>20, <1>21, <1>22, <1>23, <1>24,
           <1>25, <1>26, <1>27, <1>28, <1>29, <1>30, <1>31, <1>32, <1>33, <1>34, <1>35,
           <1>36, <1>37, <1>38, <1>39, <1>40, <1>41, <1>42, <1>43, <1>44, <1>45, <1>46,
           <1>47, <1>48, <1>49, <1>50
       DEF DeployerNext, JobStep, PiStep, Operator

\* The wait ends on the system that came up, which the boot id tells; or, where no
\* boot id is to be had, because the account was refused before, which the system
\* that was to go down never undoes.
LEMMA WaitEnds ==
  ASSUME Typed, BootInv, TryAccount, Waiting, job'.conn # job.conn
  PROVE  job'.conn > job.boot \/ Accounts[job.account] \in job.lost
<1> DEFINE account == Accounts[job.account]
           lost == IF Accepts(account) THEN job.lost \cup {account} ELSE job.lost
<1>1. \/ job' = [job EXCEPT !.saw = @ \cup {account}, !.lost = lost, !.account = NextAccount,
                            !.left = Round]
      \/ /\ Accepts(account) /\ (pi.boot # job.boot \/ SawDown(account))
         /\ job' = [job EXCEPT !.todo = Rest, !.conn = pi.boot, !.left = Patience]
      \/ job' = [job EXCEPT !.account = NextAccount, !.left = Round]
  BY DEF TryAccount
<1> SUFFICES job'.conn > job.boot \/ account \in job.lost
  OBVIOUS
<1> HIDE DEF account, lost
<1>2. /\ Accepts(account) /\ (pi.boot # job.boot \/ SawDown(account))
      /\ job' = [job EXCEPT !.todo = Rest, !.conn = pi.boot, !.left = Patience]
  BY <1>1 DEF Typed, JobStates
<1>3. job'.conn = pi.boot
  BY <1>2 DEF Typed, JobStates
<1>4. pi.boot \in Nat /\ job.boot \in Nat /\ job.boot <= pi.boot
  BY DEF BootInv, Typed, JobStates, Pis
<1>5. pi.boot > job.boot \/ account \in job.lost
  BY <1>2, <1>4 DEF BootInv, SawDown, Accepts
<1> QED BY <1>3, <1>5

\* A job goes on after a reboot only over a session to the system that came up,
\* unless a connection it lost on the network made the old one look down.
THEOREM SessionsAreNew == DeployerSpec => SessionIsNew
<1>1. /\ DeployerInv
      /\ [DeployerNext]_deployerVars
      => [(At("wait") /\ job'.conn # job.conn) =>
            job'.conn > job.boot \/ Accounts[job.account] \in job.lost]_deployerVars
  <2> SUFFICES ASSUME DeployerInv, DeployerNext, At("wait"), job'.conn # job.conn
               PROVE  job'.conn > job.boot \/ Accounts[job.account] \in job.lost
    BY DEF deployerVars
  <2>1. Typed /\ PlanInv /\ BootInv /\ FrontInv
    BY DEF DeployerInv
  <2>2. Fits(job.req, "wait", Left) /\ Working
    <3>1. "wait" \in StepNames \ {"over", "unstage"}
      BY DEF StepNames
    <3> QED BY <2>1, <3>1, AtPlace, Zenon
  <2>3. Waiting
    BY <2>2, SharedPlaces DEF Waiting, On
  <2>4. job.conn = 0
    BY <2>1, <2>3 DEF BootInv
  <2>5. TryAccount
    BY <2>1, <2>4, WaitKept, Zenon
  <2> QED BY <2>1, <2>3, <2>5, WaitEnds
<1> QED BY <1>1, DeployerInvariant, PTL DEF DeployerSpec, SessionIsNew
================================================================================
