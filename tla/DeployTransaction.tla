--------------------------- MODULE DeployTransaction ---------------------------
(***************************************************************************)
(* deploy/transaction.sh: promote a staged manifest into the deployment    *)
(* directory under a journal, and recover one a crash interrupted.         *)
(*                                                                         *)
(* One invocation runs at a time (the script holds an exclusive lock), and *)
(* it may be interrupted by a signal or a failing command, which runs its  *)
(* trap, killed outright, or cut off by a power loss, between any two      *)
(* commands.  `disk` is the file system as the script sees it and `saved`  *)
(* the part of it a power loss leaves: metadata reaches the medium in the  *)
(* order it was written, at the latest when the script syncs, while bytes  *)
(* of a file written since the last `sync -f` may be missing.              *)
(*                                                                         *)
(* A file is the version it holds.  Whatever order the manifest lists its  *)
(* names in is covered by taking them in any order.                        *)
(***************************************************************************)
EXTENDS Naturals

CONSTANTS
    Files,      \* the paths a manifest may name
    MaxDeploys  \* bound: promotions attempted

ASSUME DeployTransactionAssumption == MaxDeploys \in Nat

Absent == 0
Versions == 1 .. MaxDeploys + 1
Contents == Versions \cup {Absent}

VARIABLES
    disk,       \* the deployment directory and its journal
    saved,      \* what a power loss would leave of it
    dirty,      \* the journal's state.tsv holds bytes no `sync -f` has covered
    pc,         \* the script: "idle" when it is not running
    next,       \* where it goes on once a sync has returned
    command,    \* "promote" or "recover", or "trap" for a rollback on exit
    names,      \* the manifest being promoted
    todo,       \* names the current loop has not come to
    moving,     \* the name between its backup and its promotion
    version,    \* the version staged by the latest promotion
    acked       \* history: per path, the version a promotion last reported installed

vars == <<disk, saved, dirty, pc, next, command, names, todo, moving, version, acked>>

NoBackup == [f \in Files |-> Absent]
NoJournal(final) ==
    [final |-> final, kind |-> "none", ready |-> FALSE, names |-> {},
     present |-> {}, backup |-> NoBackup, torn |-> FALSE]

\* What recover_pending() makes of a directory: a prepared journal is rolled
\* back from its backups, anything else is left as it is.
RolledBack(d, f) ==
    IF f \in d.present THEN IF d.backup[f] # Absent THEN d.backup[f] ELSE d.final[f]
    ELSE Absent

Recovered(d) ==
    [f \in Files |->
        IF d.kind = "prepared" /\ d.ready /\ f \in d.names THEN RolledBack(d, f)
        ELSE d.final[f]]

Init ==
    /\ \E final \in [Files -> {Absent, 1}] : disk = NoJournal(final)
    /\ saved = disk /\ dirty = FALSE
    /\ pc = "idle" /\ next = "idle" /\ command = "recover"
    /\ names = {} /\ todo = {} /\ moving = {} /\ version = 1
    /\ acked = [f \in Files |-> Absent]
--------------------------------------------------------------------------------
\* What a flush may put on the medium: the metadata as it is, with or without
\* the bytes nobody has synced.
Flushed(d) ==
    \E torn \in IF dirty THEN BOOLEAN ELSE {d.torn} : saved' = [d EXCEPT !.torn = torn]

\* Every step but a sync leaves the medium behind.
Then(where) == pc' = where /\ UNCHANGED <<saved, next>>
SyncThen(where) == pc' = "sync" /\ next' = where /\ UNCHANGED saved

\* The command the script has come to, once a sync it waits for returns.
Where == IF pc = "sync" THEN next ELSE pc

\* sync_dir: everything done so far is on the medium.
Sync ==
    /\ pc = "sync"
    /\ Flushed(disk) /\ pc' = next
    /\ UNCHANGED <<disk, dirty, next, command, names, todo, moving, version, acked>>
--------------------------------------------------------------------------------
(* recover_pending()                                                       *)

StartRecover ==
    /\ pc = "idle"
    /\ command' = "recover" /\ Then("recover")
    /\ UNCHANGED <<disk, dirty, names, todo, moving, version, acked>>

\* A journal with no ready marker moved nothing, and a completed one is done
\* with: both are removed.  (A removal cut short leaves a journal of the same
\* kind, to be removed again.)
RemoveJournal ==
    /\ pc = "recover"
    /\ \/ disk.kind = "prepared" /\ ~disk.ready
       \/ disk.kind \in {"committed", "rolled-back"}
    /\ disk' = NoJournal(disk.final) /\ dirty' = FALSE /\ SyncThen("recover")
    /\ UNCHANGED <<command, names, todo, moving, version, acked>>

\* rollback_prepared() validates the journal before it touches a file; a
\* journal it cannot read stops the script.
StartRollback ==
    /\ pc = "recover" /\ disk.kind = "prepared" /\ disk.ready
    /\ IF disk.torn THEN Then("idle") /\ UNCHANGED todo
                    ELSE Then("rollback") /\ todo' = disk.names
    /\ UNCHANGED <<disk, dirty, command, names, moving, version, acked>>

\* A file that was there comes back from its backup, by rm and mv; one that
\* was restored already has no backup left; one that was not there is removed.
RollbackFile(f) ==
    /\ pc = "rollback" /\ f \in todo
    /\ \/ /\ f \in disk.present /\ disk.backup[f] # Absent /\ disk.final[f] # Absent
          /\ disk' = [disk EXCEPT !.final[f] = Absent] /\ UNCHANGED todo
       \/ /\ f \in disk.present /\ disk.backup[f] # Absent /\ disk.final[f] = Absent
          /\ disk' = [disk EXCEPT !.final[f] = disk.backup[f], !.backup[f] = Absent]
          /\ todo' = todo \ {f}
       \/ /\ f \in disk.present /\ disk.backup[f] = Absent
          /\ todo' = todo \ {f} /\ UNCHANGED disk
       \/ /\ f \notin disk.present
          /\ disk' = [disk EXCEPT !.final[f] = Absent] /\ todo' = todo \ {f}
    /\ Then("rollback")
    /\ UNCHANGED <<dirty, command, names, moving, version, acked>>

\* In the trap the rollback runs under `|| true`: a command that fails is
\* passed over and the rest go on.
RollbackSkips(f) ==
    /\ pc = "rollback" /\ command = "trap" /\ f \in todo
    /\ todo' = todo \ {f} /\ Then("rollback")
    /\ UNCHANGED <<disk, dirty, command, names, moving, version, acked>>

RollbackDone ==
    /\ pc = "rollback" /\ todo = {}
    /\ SyncThen(IF command = "trap" THEN "idle" ELSE "mark")
    /\ UNCHANGED <<disk, dirty, command, names, todo, moving, version, acked>>

\* mv <token>.prepared <token>.rolled-back
MarkRolledBack ==
    /\ pc = "mark"
    /\ disk' = [disk EXCEPT !.kind = "rolled-back"] /\ SyncThen("recover")
    /\ UNCHANGED <<dirty, command, names, todo, moving, version, acked>>

RecoverDone ==
    /\ pc = "recover" /\ disk.kind = "none"
    /\ SyncThen(IF command = "promote" THEN "prepare" ELSE "idle")
    /\ UNCHANGED <<disk, dirty, command, names, todo, moving, version, acked>>
--------------------------------------------------------------------------------
(* promote                                                                 *)

\* The staged files are all there and every path is safe, or the script fails
\* before it changes anything; then the last transaction is recovered first.
StartPromote(manifest) ==
    /\ pc = "idle" /\ version <= MaxDeploys /\ manifest # {}
    /\ command' = "promote" /\ names' = manifest /\ version' = version + 1
    /\ SyncThen("recover")
    /\ UNCHANGED <<disk, dirty, todo, moving, acked>>

Prepare ==
    /\ pc = "prepare"
    /\ disk' = [disk EXCEPT !.kind = "prepared", !.names = names]
    /\ SyncThen("record")
    /\ UNCHANGED <<dirty, command, names, todo, moving, version, acked>>

\* state.tsv: which names exist now.  Its bytes are not on the medium yet.
Record ==
    /\ pc = "record"
    /\ disk' = [disk EXCEPT !.present = {f \in names : disk.final[f] # Absent}]
    /\ dirty' = TRUE /\ Then("syncData")
    /\ UNCHANGED <<command, names, todo, moving, version, acked>>

\* sync -f flushes the whole file system, staged bytes included.
SyncData ==
    /\ pc = "syncData"
    /\ dirty' = FALSE /\ saved' = disk /\ pc' = "ready"
    /\ UNCHANGED <<disk, next, command, names, todo, moving, version, acked>>

MarkReady ==
    /\ pc = "ready"
    /\ disk' = [disk EXCEPT !.ready = TRUE] /\ todo' = names
    /\ SyncThen("promote")
    /\ UNCHANGED <<dirty, command, names, moving, version, acked>>

Backup_Omitted(f) ==
    /\ pc = "promote" /\ f \in todo
    /\ disk' = disk
    /\ moving' = {f} /\ todo' = todo \ {f} /\ SyncThen("install")
    /\ UNCHANGED <<dirty, command, names, version, acked>>

\* mv final backup, if there is a final.
Backup(f) ==
    /\ pc = "promote" /\ f \in todo
    /\ disk' = IF disk.final[f] # Absent
               THEN [disk EXCEPT !.backup[f] = disk.final[f], !.final[f] = Absent]
               ELSE disk
    /\ moving' = {f} /\ todo' = todo \ {f} /\ SyncThen("install")
    /\ UNCHANGED <<dirty, command, names, version, acked>>

\* mv staged final
Promote(f) ==
    /\ pc = "install" /\ f \in moving
    /\ disk' = [disk EXCEPT !.final[f] = version]
    /\ moving' = {} /\ SyncThen("promote")
    /\ UNCHANGED <<dirty, command, names, todo, version, acked>>

\* What an exit status of 0 tells the deploying host.
Acknowledged == [f \in Files |-> IF f \in names THEN version ELSE acked[f]]

Commit_Early ==
    /\ pc = "promote" /\ todo = {}
    /\ disk' = [disk EXCEPT !.kind = "committed"] /\ SyncThen("committed")
    /\ acked' = Acknowledged
    /\ UNCHANGED <<dirty, command, names, todo, moving, version>>

\* The rename that decides the transaction.
Commit ==
    /\ pc = "promote" /\ todo = {}
    /\ disk' = [disk EXCEPT !.kind = "committed"] /\ SyncThen("committed")
    /\ UNCHANGED <<dirty, command, names, todo, moving, version, acked>>

\* transaction_committed=true, the journal and the stage removed, exit 0.
Cleanup ==
    /\ pc = "committed"
    /\ acked' = Acknowledged
    /\ disk' = NoJournal(disk.final) /\ SyncThen("idle")
    /\ UNCHANGED <<dirty, command, names, todo, moving, version>>
--------------------------------------------------------------------------------
(* What can happen to it.                                                  *)

Promoting == {"prepare", "record", "syncData", "ready", "promote", "install"}

\* A signal or a failing command once the trap is set: roll back what was
\* moved if the transaction is not committed, and exit.
Interrupt ==
    /\ command = "promote"
    /\ Where \in Promoting \cup {"committed"}
    /\ moving' = {}
    /\ IF disk.kind = "prepared" /\ disk.ready /\ ~disk.torn
       THEN command' = "trap" /\ todo' = disk.names /\ Then("rollback")
       ELSE Then("idle") /\ UNCHANGED <<command, todo>>
    /\ UNCHANGED <<disk, dirty, names, version, acked>>

\* SIGKILL, or a second signal during the trap.
Kill ==
    /\ pc # "idle" /\ Then("idle") /\ moving' = {}
    /\ UNCHANGED <<disk, dirty, command, names, todo, version, acked>>

\* The kernel writes back on its own.
WriteBack ==
    /\ Flushed(disk)
    /\ UNCHANGED <<disk, dirty, pc, next, command, names, todo, moving, version, acked>>

PowerLoss ==
    /\ disk' = saved /\ dirty' = FALSE /\ moving' = {} /\ Then("idle")
    /\ UNCHANGED <<command, names, todo, version, acked>>

Script ==
    \/ Sync \/ StartRecover \/ RemoveJournal \/ StartRollback
    \/ (\E f \in Files : RollbackFile(f) \/ RollbackSkips(f))
    \/ RollbackDone \/ MarkRolledBack \/ RecoverDone
    \/ (\E manifest \in SUBSET Files : StartPromote(manifest))
    \/ Prepare \/ Record \/ SyncData \/ MarkReady
    \/ (\E f \in Files : Backup(f) \/ Promote(f))
    \/ Commit \/ Cleanup

Next == Script \/ Interrupt \/ Kill \/ WriteBack \/ PowerLoss

Spec == Init /\ [][Next]_vars
--------------------------------------------------------------------------------
Disks == [final : [Files -> Contents],
          kind : {"none", "prepared", "committed", "rolled-back"},
          ready : BOOLEAN, names : SUBSET Files, present : SUBSET Files,
          backup : [Files -> Contents], torn : BOOLEAN]
Labels == {"idle", "sync", "recover", "rollback", "mark", "committed"} \cup Promoting

TypeOK ==
    /\ disk \in Disks /\ saved \in Disks /\ dirty \in BOOLEAN
    /\ pc \in Labels /\ next \in Labels /\ command \in {"promote", "recover", "trap"}
    /\ names \subseteq Files /\ todo \subseteq Files /\ moving \subseteq Files
    /\ version \in Versions
    /\ acked \in [Files -> Contents]

\* A journal that says it is ready can be read, after a power loss too: its
\* state record reached the medium before its ready marker.
JournalReadable ==
    \A d \in {disk, saved} : d.kind = "prepared" /\ d.ready => ~d.torn

\* A promotion that reported success is never undone, by a crash at any later
\* point or by the recovery of a later promotion: what it installed, or
\* something newer, is what any recovery arrives at.
AckedSurvives ==
    \A d \in {disk, saved}, f \in Files : Recovered(d)[f] >= acked[f]

\* A journal is never the reason a deployment is lost: it can be read when it
\* claims so, and no recovery takes back what was acknowledged.
JournalSound == JournalReadable /\ AckedSurvives

Atomic == INSTANCE AtomicDeploy WITH
    offered <- [names |-> names, version |-> version],
    installed <- Recovered(disk), durable <- Recovered(saved)

\* Whatever is interrupted where, recovery finds the files of the last commit
\* or of the one before it, never a mixture: the detailed script implements
\* the atomic installation.
ImplementsAtomicDeploy == Atomic!Spec
================================================================================
