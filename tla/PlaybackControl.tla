---------------------------- MODULE PlaybackControl ----------------------------
(***************************************************************************)
(* Who runs the receiver: deploy/container/control-omt.sh, which starts    *)
(* and stops it under a lock and records its PID; start-omt.sh, which      *)
(* becomes it; and crates/omt-web/src/playback.rs, which runs the          *)
(* controller for the dashboard and kills it at a timeout (run() of        *)
(* crates/omt-common/src/proc.rs).  The operator's target and video limit  *)
(* are two files of omt-web (state.rs), replaced atomically (fsio.rs).     *)
(*                                                                         *)
(* Two controllers may run at once: the web server's, and one of the       *)
(* entrypoint or of an operator inside the container.  A process id with   *)
(* its start time names one process for good, so it is one value here.     *)
(* A tick is a second; only sleeping and waiting for the lock take time.   *)
(***************************************************************************)
EXTENDS Naturals

CONSTANTS
    Targets,     \* targets an operator may save
    Ceilings,    \* video limits an operator may save
    Procs,       \* identities for launched processes
    TermTicks,   \* how long stop waits after SIGTERM
    KillTicks,   \* how long it waits after SIGKILL
    ReadyTicks,  \* how long start waits for the launch to become the receiver
    Timeout,     \* OMT_CONTROL_TIMEOUT_SECONDS
    ShellRuns,   \* bound: commands run beside the web server
    Bad,         \* a value the grammar refuses, or a file that holds one
    None

Controllers == {"web", "shell"}
Commands    == {"start", "stop", "restart", "status"}

ASSUME PlaybackControlAssumption ==
    /\ TermTicks \in Nat /\ KillTicks \in Nat /\ ReadyTicks \in Nat
    /\ Timeout \in Nat \ {0} /\ ShellRuns \in Nat
    /\ None \notin Targets \cup Procs \cup Ceilings \cup Controllers \cup {Bad}
    /\ Bad \notin Targets \cup Ceilings

VARIABLES
    saved,     \* what source_target.json holds
    limit,     \* what video_ceiling.json holds; none is the board's default
    procs,     \* launched processes: [st, target, ceiling]
    killed,    \* processes sent SIGKILL
    pidFile,   \* the process omt.pid names
    status,    \* a published status record is there
    lock,      \* who holds control.lock
    ctl,       \* each controller: [pc, cmd, left, pid, rc]
    deadline,  \* ticks until the web server kills its controller
    web,       \* the web server's operation in progress
    answer,    \* what its last action told the operator
    shells,    \* commands run beside the web server so far
    cut        \* history: a controller was killed between launch and PID record

files == <<pidFile, status>>
site  == <<deadline, web, answer, saved, limit>>
vars  == <<procs, killed, files, lock, ctl, site, shells, cut>>

Gone == [st |-> "gone", target |-> None, ceiling |-> None]
Idle == [pc |-> "idle", cmd |-> "status", left |-> 0, pid |-> None, rc |-> 0]

Init ==
    /\ saved \in Targets \cup {None, Bad} /\ limit \in Ceilings \cup {None, Bad}
    /\ procs = [p \in Procs |-> Gone] /\ killed = {}
    /\ pidFile = None /\ status = FALSE /\ lock = None
    /\ ctl = [c \in Controllers |-> Idle]
    /\ deadline = 0 /\ web = "none" /\ answer = "none" /\ shells = 0 /\ cut = FALSE
--------------------------------------------------------------------------------
(* The controller.                                                         *)

At(c, where) == ctl[c].pc = where

Goto(c, where) == ctl' = [ctl EXCEPT ![c].pc = where]

Return_LockInherited(c, rc) ==
    /\ ctl' = [ctl EXCEPT ![c] = [Idle EXCEPT !.rc = rc]]
    /\ lock' = IF At(c, "record") THEN lock ELSE None

\* The script exits; the lock goes with its last descriptor.
Return(c, rc) ==
    /\ ctl' = [ctl EXCEPT ![c] = [Idle EXCEPT !.rc = rc]]
    /\ lock' = None

Begun(cmd) == [pc |-> "lock", cmd |-> cmd, left |-> 0, pid |-> None, rc |-> 0]

\* managed_process_is_valid(): alive, and running the receiver's binary.
Valid(p) == p # None /\ procs[p].st = "receiver"

\* get_managed_record()
Managed == IF Valid(pidFile) THEN pidFile ELSE None

\* flock 9
Acquire(c) ==
    /\ At(c, "lock") /\ lock = None
    /\ lock' = c
    /\ Goto(c, IF ctl[c].cmd = "restart" THEN "stop" ELSE ctl[c].cmd)
    /\ UNCHANGED <<procs, killed, files, site, shells, cut>>

\* stop_locked() is done: `restart` goes on to start unless it failed.
Stopped(c, rc) ==
    IF ctl[c].cmd = "restart" /\ rc # 1
    THEN Goto(c, "start") /\ UNCHANGED lock
    ELSE Return(c, rc)

ForgetProcess == pidFile' = None /\ status' = FALSE

StopNothing(c) ==
    /\ At(c, "stop") /\ Managed = None
    /\ ForgetProcess /\ Stopped(c, 3)
    /\ UNCHANGED <<procs, killed, site, shells, cut>>

StopTerm_NoWait(c) ==
    /\ At(c, "stop") /\ Managed # None
    /\ ForgetProcess /\ Stopped(c, 0)
    /\ UNCHANGED <<procs, killed, site, shells, cut>>

\* SIGTERM: the receiver may exit at any time from here, as it may anyway.
StopTerm(c) ==
    /\ At(c, "stop") /\ Managed # None
    /\ ctl' = [ctl EXCEPT ![c].pc = "term", ![c].left = TermTicks, ![c].pid = Managed]
    /\ UNCHANGED <<procs, killed, files, lock, site, shells, cut>>

StopSeen(c) ==
    /\ At(c, "term") \/ At(c, "kill")
    /\ ~Valid(ctl[c].pid)
    /\ ForgetProcess /\ Stopped(c, 0)
    /\ UNCHANGED <<procs, killed, site, shells, cut>>

Escalate_Forgets(c) ==
    /\ At(c, "term") /\ ctl[c].left = 0 /\ Valid(ctl[c].pid)
    /\ killed' = killed \cup {ctl[c].pid}
    /\ ForgetProcess /\ Stopped(c, 0)
    /\ UNCHANGED <<procs, site, shells, cut>>

\* SIGKILL is delivered, not completed: wait for that too.
Escalate(c) ==
    /\ At(c, "term") /\ ctl[c].left = 0 /\ Valid(ctl[c].pid)
    /\ killed' = killed \cup {ctl[c].pid}
    /\ ctl' = [ctl EXCEPT ![c].pc = "kill", ![c].left = KillTicks]
    /\ UNCHANGED <<procs, files, lock, site, shells, cut>>

\* It survived SIGKILL: keep the record and fail.
StopFails(c) ==
    /\ At(c, "kill") /\ ctl[c].left = 0 /\ Valid(ctl[c].pid)
    /\ Stopped(c, 1)
    /\ UNCHANGED <<procs, killed, files, site, shells, cut>>

\* No file, or one that is no regular file.
StartRefused(c) ==
    /\ At(c, "start") /\ saved \in {None, Bad}
    /\ Return(c, 1)
    /\ UNCHANGED <<procs, killed, files, site, shells, cut>>

StartRunning(c) ==
    /\ At(c, "start") /\ saved # None /\ Managed # None
    /\ Return(c, 0)
    /\ UNCHANGED <<procs, killed, files, site, shells, cut>>

\* The leftovers go, and start-omt.sh runs in a session of its own, without
\* the lock's descriptor.
Launch(c, p) ==
    /\ At(c, "start") /\ saved # None /\ Managed = None
    /\ procs[p] = Gone
    /\ ForgetProcess
    /\ procs' = [procs EXCEPT ![p].st = "launching"]
    /\ ctl' = [ctl EXCEPT ![c].pc = "ready", ![c].left = ReadyTicks, ![c].pid = p]
    /\ UNCHANGED <<killed, lock, site, shells, cut>>

Ready(c) ==
    /\ At(c, "ready") /\ Valid(ctl[c].pid)
    /\ Goto(c, "record")
    /\ UNCHANGED <<procs, killed, files, lock, site, shells, cut>>

\* Dead, or not the receiver in time: a launch that failed must not survive.
NotReady(c) ==
    /\ At(c, "ready") /\ ~Valid(ctl[c].pid)
    /\ ctl[c].left = 0 \/ procs[ctl[c].pid].st = "gone"
    /\ killed' = killed \cup {p \in {ctl[c].pid} : procs[p].st # "gone"}
    /\ Goto(c, "reap")
    /\ UNCHANGED <<procs, files, lock, site, shells, cut>>

\* wait, which is bounded once SIGKILL is sent
Reap(c) ==
    /\ At(c, "reap") /\ procs[ctl[c].pid].st = "gone"
    /\ Return(c, 1)
    /\ UNCHANGED <<procs, killed, files, site, shells, cut>>

RecordPid(c) ==
    /\ At(c, "record")
    /\ pidFile' = ctl[c].pid /\ Return(c, 0)
    /\ UNCHANGED <<procs, killed, status, site, shells, cut>>

\* status_locked() clears what a dead receiver left.
Status(c) ==
    /\ At(c, "status")
    /\ \/ Managed = None /\ ForgetProcess /\ Return(c, 3)
       \/ Managed # None /\ Return(c, 0) /\ UNCHANGED files
    /\ UNCHANGED <<procs, killed, site, shells, cut>>

Controller(c) ==
    \/ Acquire(c) \/ StopNothing(c) \/ StopTerm(c) \/ StopSeen(c)
    \/ Escalate(c) \/ StopFails(c)
    \/ StartRefused(c) \/ StartRunning(c) \/ (\E p \in Procs : Launch(c, p))
    \/ Ready(c) \/ NotReady(c) \/ Reap(c) \/ RecordPid(c) \/ Status(c)

\* The entrypoint's start, or an operator's command in the container.
Shell(cmd) ==
    /\ At("shell", "idle") /\ shells < ShellRuns
    /\ shells' = shells + 1
    /\ ctl' = [ctl EXCEPT !["shell"] = Begun(cmd)]
    /\ UNCHANGED <<procs, killed, files, lock, site, cut>>
--------------------------------------------------------------------------------
(* The saved choices.                                                      *)

\* parse_direct_target() or is_valid_source_name(), as select() applies them.
ValidTarget(t) == t \in Targets

\* parse_video_ceiling(); an empty field clears the override.
ValidCeiling(v) == v \in Ceilings \cup {None}

\* read_source(): nothing saved, a target, or an error for anything else.
Source(file) == IF file = None \/ ValidTarget(file) THEN file ELSE Bad

\* effective_video_ceiling(): the override or the board's default (none).
Effective(file) == IF ValidCeiling(file) THEN file ELSE Bad

Outcome(ok, holds) == [ok |-> ok, holds |-> holds]

\* atomic_replace(): the old file or the new one, never a part; a directory
\* that cannot be synced is an error after the new one is in place.
Replaced(old, new) == {Outcome(TRUE, new), Outcome(FALSE, old), Outcome(FALSE, new)}

\* remove_file_durable(): a missing file is fine.
Removed(old) ==
    {Outcome(TRUE, None), Outcome(FALSE, old)}
        \cup (IF old = None THEN {} ELSE {Outcome(FALSE, None)})

\* save_source(): none removes the file; a target the grammar refuses leaves it.
SaveSource(t) ==
    IF t = None THEN Removed(saved)
    ELSE IF ValidTarget(t) THEN Replaced(saved, t) ELSE {Outcome(FALSE, saved)}

\* save_video_ceiling()
SaveCeiling(v) ==
    IF v = None THEN Removed(limit)
    ELSE IF ValidCeiling(v) THEN Replaced(limit, v) ELSE {Outcome(FALSE, limit)}
--------------------------------------------------------------------------------
(* The web server: one operation at a time, the controller run inside it.  *)

Run(op, cmd) ==
    /\ web = "none" /\ web' = op
    /\ ctl' = [ctl EXCEPT !["web"] = Begun(cmd)]
    /\ deadline' = Timeout
    /\ UNCHANGED <<procs, killed, files, lock, shells, cut>>

Answer(a) == web' = "none" /\ answer' = a

AnswerAtOnce(a) ==
    /\ web = "none" /\ Answer(a)
    /\ UNCHANGED <<procs, killed, files, lock, ctl, deadline, shells, cut>>

\* select(), save_direct() and save_and_restart(): nothing is restarted for a
\* target that was not saved.
WebSelect(t) ==
    \E r \in SaveSource(t) :
        /\ saved' = r.holds /\ UNCHANGED limit
        /\ \/ ~r.ok /\ AnswerAtOnce("failed")
           \/ r.ok /\ Run("restart", "restart") /\ UNCHANGED answer

WebRestart ==
    /\ \/ Source(saved) \in {None, Bad} /\ AnswerAtOnce("failed")
       \/ Source(saved) \in Targets /\ Run("restart", "restart") /\ UNCHANGED answer
    /\ UNCHANGED <<saved, limit>>

\* save_video_limit(): restarts whatever is saved, or nothing.
WebLimit(v) ==
    \E r \in SaveCeiling(v) :
        /\ limit' = r.holds /\ UNCHANGED saved
        /\ \/ ~r.ok /\ AnswerAtOnce("failed")
           \/ r.ok /\ Run("restart", "restart") /\ UNCHANGED answer

WebClear == Run("clear", "stop") /\ UNCHANGED <<answer, saved, limit>>

\* summary() without a status record to show; with one it changes nothing.
WebSummary ==
    /\ Source(saved) \in Targets /\ ~status
    /\ Run("summary", "status") /\ UNCHANGED <<answer, saved, limit>>

\* The controller has exited, or was killed (rc 9, no return code).
WebReply ==
    /\ web # "none" /\ At("web", "idle")
    /\ LET rc == ctl["web"].rc
       IN  \/ /\ web = "restart"
              /\ Answer(IF rc = 0 THEN "running" ELSE "failed")
              /\ UNCHANGED saved
           \/ /\ web = "clear" /\ rc \in {0, 3}
              /\ \E r \in SaveSource(None) :
                     saved' = r.holds /\ Answer(IF r.ok THEN "cleared" ELSE "failed")
           \/ /\ web = "clear" /\ rc \notin {0, 3}
              /\ Answer("failed") /\ UNCHANGED saved
           \/ /\ web = "summary"
              /\ Answer(answer) /\ UNCHANGED saved
    /\ deadline' = 0 /\ ctl' = [ctl EXCEPT !["web"] = Idle]
    /\ UNCHANGED <<procs, killed, files, lock, limit, shells, cut>>

\* run()'s deadline: the controller's process group is killed and its lock
\* with it; a receiver in a session of its own is not.
WebTimeout ==
    /\ ~At("web", "idle") /\ deadline = 0
    /\ ctl' = [ctl EXCEPT !["web"] = [Idle EXCEPT !.rc = 9]]
    /\ lock' = IF lock = "web" THEN None ELSE lock
    /\ cut' = (cut \/ ctl["web"].pc \in {"ready", "reap", "record"})
    /\ UNCHANGED <<procs, killed, files, site, shells>>

Web ==
    \/ (\E t \in Targets \cup {Bad} : WebSelect(t)) \/ WebRestart
    \/ (\E v \in Ceilings \cup {None, Bad} : WebLimit(v))
    \/ WebClear \/ WebSummary
--------------------------------------------------------------------------------
(* The processes and the clock.                                            *)

\* start-omt.sh reads the saved target, or exits ...
LaunchReads(p) ==
    /\ procs[p].st = "launching" /\ p \notin killed
    /\ procs' = [procs EXCEPT ![p] =
           IF Source(saved) \in {None, Bad} THEN Gone
           ELSE [@ EXCEPT !.st = "aimed", !.target = saved]]
    /\ UNCHANGED <<killed, files, lock, ctl, site, shells, cut>>

\* ... then the video limit, or exits ...
LaunchBounds(p) ==
    /\ procs[p].st = "aimed" /\ p \notin killed
    /\ procs' = [procs EXCEPT ![p] =
           IF Effective(limit) = Bad THEN Gone
           ELSE [@ EXCEPT !.st = "loaded", !.ceiling = limit]]
    /\ UNCHANGED <<killed, files, lock, ctl, site, shells, cut>>

\* ... and execs the receiver.
LaunchExecs(p) ==
    /\ procs[p].st = "loaded" /\ p \notin killed
    /\ procs' = [procs EXCEPT ![p].st = "receiver"]
    /\ UNCHANGED <<killed, files, lock, ctl, site, shells, cut>>

Publish(p) ==
    /\ procs[p].st = "receiver" /\ p \notin killed
    /\ status' = TRUE
    /\ UNCHANGED <<procs, killed, pidFile, lock, ctl, site, shells, cut>>

\* It obeys a signal, fails or crashes.
Exit(p) ==
    /\ procs[p].st # "gone"
    /\ procs' = [procs EXCEPT ![p] = Gone]
    /\ killed' = killed \ {p}
    /\ UNCHANGED <<files, lock, ctl, site, shells, cut>>

Less(n) == IF n > 0 THEN n - 1 ELSE 0

\* Time passes while every controller sleeps or waits for the lock.
Tick ==
    /\ \E c \in Controllers : ~At(c, "idle")
    /\ \A c \in Controllers :
           \/ At(c, "idle")
           \/ At(c, "lock") /\ lock # None
           \/ ctl[c].pc \in {"term", "kill", "ready"} /\ ctl[c].left > 0
    /\ At("web", "idle") \/ deadline > 0
    /\ ctl' = [c \in Controllers |-> [ctl[c] EXCEPT !.left = Less(@)]]
    /\ deadline' = Less(deadline)
    /\ UNCHANGED <<procs, killed, files, lock, web, answer, saved, limit, shells, cut>>

World ==
    \E p \in Procs :
        LaunchReads(p) \/ LaunchBounds(p) \/ LaunchExecs(p) \/ Publish(p) \/ Exit(p)

Next ==
    \/ (\E c \in Controllers : Controller(c))
    \/ (\E cmd \in Commands : Shell(cmd))
    \/ Web \/ WebReply \/ WebTimeout \/ World \/ Tick

\* The web server and the controllers keep running, flock wakes its waiters
\* in turn, time passes, and SIGKILL takes effect.  Receivers owe nothing.
Spec ==
    /\ Init /\ [][Next]_vars
    /\ \A c \in Controllers : WF_vars(Controller(c)) /\ SF_vars(Acquire(c))
    /\ WF_vars(WebReply) /\ WF_vars(WebTimeout) /\ SF_vars(Tick)
    /\ \A p \in Procs : WF_vars(p \in killed /\ Exit(p))
--------------------------------------------------------------------------------
Alive(p) == procs[p].st # "gone"

\* One process at a time has the display to itself: a new receiver is launched
\* only once the one before it is gone, SIGKILLed ones included, whoever asks
\* for it and wherever the timeout strikes but between launch and PID record.
OneReceiver == ~cut => \A p, q \in Procs : Alive(p) /\ Alive(q) => p = q

\* A process nobody is starting is one the PID record names: nothing is left
\* running that no later command would stop.
NoOrphan == lock = None => \A p \in Procs : Alive(p) => p = pidFile

\* The same, where the timeout did not strike between launch and PID record.
OrphanOnlyWhenCut == ~cut => NoOrphan

\* What the operator was told is running plays the target and within the video
\* limit the operator saved, even when another command interleaves with the
\* save and the restart, or a save failed before and left either file behind.
PlaysSaved ==
    web = "none" /\ answer = "running" /\ ~cut =>
        \A p \in Procs : procs[p].st = "receiver" =>
            procs[p].target = saved /\ procs[p].ceiling = limit

\* The receiver is one, known and right: the controller's promise to the
\* dashboard, whatever interleaves with a command.
ReceiverManaged == OneReceiver /\ OrphanOnlyWhenCut /\ PlaysSaved

\* A stop that reports success leaves no process and no status behind it.
StopMeansStopped ==
    [][\A c \in Controllers :
          ~cut /\ ~At(c, "idle") /\ ctl[c].cmd = "stop" /\ At(c, "idle")'
               /\ ctl'[c].rc \in {0, 3}
              => ~status' /\ \A p \in Procs : ~Alive(p)']_vars

\* Every command returns, whoever else takes the lock and whatever a receiver
\* does: a receiver that is playing does not hold the lock.
CommandsReturn == \A c \in Controllers : ~At(c, "idle") ~> At(c, "idle")
================================================================================
