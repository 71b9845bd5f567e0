------------------------- MODULE PlaybackControlProofs -------------------------
(***************************************************************************)
(* The controller's promises to the dashboard, for every set of processes, *)
(* targets and video limits, every timeout and any number of commands run  *)
(* beside the web server.                                                  *)
(***************************************************************************)
EXTENDS PlaybackControl, TLAPS

States   == {"gone", "launching", "aimed", "loaded", "receiver"}
Labels   == {"idle", "lock", "start", "stop", "status", "term", "kill", "ready", "reap", "record"}
Starting == {"ready", "reap", "record"}

ProcTypes ==
    procs \in [Procs -> [st : States, target : Targets \cup {None}, ceiling : Ceilings \cup {None}]]

CtlTypes ==
    ctl \in [Controllers -> [pc : Labels, cmd : Commands, left : Nat,
                             pid : Procs \cup {None}, rc : {0, 1, 3, 9}]]

SiteTypes ==
    /\ lock \in Controllers \cup {None} /\ pidFile \in Procs \cup {None}
    /\ saved \in Targets \cup {None, Bad} /\ limit \in Ceilings \cup {None, Bad}
    /\ web \in {"none", "restart", "clear", "summary"}
    /\ status \in BOOLEAN /\ cut \in BOOLEAN

TypeInv == ProcTypes /\ CtlTypes /\ SiteTypes

\* The lock belongs to the controller that is past it and not done.
LockInv == \A c \in Controllers : ctl[c].pc \notin {"idle", "lock"} <=> lock = c

\* A controller is only where its command takes it.
CmdInv ==
    /\ \A c \in Controllers :
         /\ ctl[c].pc = "status" => ctl[c].cmd = "status"
         /\ ctl[c].pc \in {"stop", "term", "kill"} => ctl[c].cmd \in {"stop", "restart"}
         /\ ctl[c].pc \in {"start"} \cup Starting => ctl[c].cmd \in {"start", "restart"}
    /\ web = "none" => ctl["web"].pc = "idle"
    /\ web = "restart" => ctl["web"].pc = "idle" \/ ctl["web"].cmd = "restart"

\* The PID record names a receiver, or one that has exited; whoever stops a
\* process stops that one, and whoever starts one has removed it first.
PidInv ==
    /\ pidFile # None => procs[pidFile].st \in {"receiver", "gone"}
    /\ \A c \in Controllers :
         /\ ctl[c].pc \in {"term", "kill"} => ctl[c].pid = pidFile /\ pidFile # None
         /\ ctl[c].pc \in Starting => ctl[c].pid # None /\ pidFile = None
         /\ ctl[c].pc = "record" => procs[ctl[c].pid].st \in {"receiver", "gone"}
         /\ ctl[c].pc = "start" /\ ctl[c].cmd = "restart" => pidFile = None

\* Every process is the recorded one or the one being started.
OwnInv ==
    ~cut => \A p \in Procs : Alive(p) =>
              \/ p = pidFile
              \/ \E c \in Controllers : ctl[c].pc \in Starting /\ ctl[c].pid = p

\* What a process has read of the saved choices is what they are now ...
Right(p) ==
    /\ procs[p].st \in {"aimed", "loaded", "receiver"} => procs[p].target = saved
    /\ procs[p].st \in {"loaded", "receiver"} => procs[p].ceiling = limit

\* ... once a restart has launched one, until the choices change again.
Settled ==
    \/ answer = "running" /\ web \in {"none", "summary"}
    \/ web = "restart" /\ ctl["web"].pc \in Starting
    \/ web = "restart" /\ ctl["web"].pc = "idle" /\ ctl["web"].rc = 0

PlayInv == ~cut /\ Settled => \A p \in Procs : Right(p)

IInv == TypeInv /\ LockInv /\ CmdInv /\ PidInv /\ OwnInv /\ PlayInv
--------------------------------------------------------------------------------
(* What the helpers of the controller do to its record.                    *)

LEMMA GotoEffect ==
    ASSUME TypeInv, NEW c \in Controllers, NEW w \in Labels, Goto(c, w)
    PROVE  /\ CtlTypes' /\ ctl'[c].pc = w /\ ctl'[c].cmd = ctl[c].cmd /\ ctl'[c].pid = ctl[c].pid
           /\ \A d \in Controllers : d # c => ctl'[d] = ctl[d]
  BY DEF TypeInv, CtlTypes, Goto

\* A new place to be, a time to be there and a process to wait for.
LEMMA WaitEffect ==
    ASSUME TypeInv, NEW c \in Controllers, NEW w \in Labels, NEW n \in Nat,
           NEW q \in Procs \cup {None},
           ctl' = [ctl EXCEPT ![c].pc = w, ![c].left = n, ![c].pid = q]
    PROVE  /\ CtlTypes' /\ ctl'[c].pc = w /\ ctl'[c].cmd = ctl[c].cmd /\ ctl'[c].pid = q
           /\ \A d \in Controllers : d # c => ctl'[d] = ctl[d]
  BY ZenonT(40) DEF TypeInv, CtlTypes

LEMMA IdleTypes ==
    ASSUME NEW rc \in {0, 1, 3, 9}
    PROVE  /\ [Idle EXCEPT !.rc = rc] \in [pc : Labels, cmd : Commands, left : Nat,
                                           pid : Procs \cup {None}, rc : {0, 1, 3, 9}]
           /\ [Idle EXCEPT !.rc = rc].pc = "idle" /\ [Idle EXCEPT !.rc = rc].rc = rc
  BY DEF Idle, Labels, Commands

LEMMA ReturnEffect ==
    ASSUME TypeInv, NEW c \in Controllers, NEW rc \in {0, 1, 3}, Return(c, rc)
    PROVE  /\ CtlTypes' /\ ctl'[c].pc = "idle" /\ ctl'[c].rc = rc /\ lock' = None
           /\ \A d \in Controllers : d # c => ctl'[d] = ctl[d]
  BY IdleTypes DEF TypeInv, CtlTypes, Return

\* Whoever holds the lock is the only one past it.
LEMMA OthersWait ==
    ASSUME IInv, NEW c \in Controllers, ctl[c].pc \notin {"idle", "lock"}
    PROVE  /\ lock = c /\ c # None
           /\ \A d \in Controllers : d # c => ctl[d].pc \in {"idle", "lock"}
  BY PlaybackControlAssumption DEF IInv, LockInv

\* So, between two commands' launches, whatever lives is in the PID record, and
\* a record that is not valid means that nothing lives.
LEMMA OnlyRecorded ==
    ASSUME IInv, NEW c \in Controllers, ctl[c].pc \notin {"idle", "lock"} \cup Starting, ~cut,
           NEW p \in Procs, Alive(p)
    PROVE  p = pidFile
  BY OthersWait DEF IInv, OwnInv, Starting

LEMMA ManagedNone ==
    ASSUME IInv, Managed = None, pidFile # None
    PROVE  ~Alive(pidFile)
  BY PlaybackControlAssumption DEF IInv, PidInv, Managed, Valid, Alive

LEMMA NothingLives ==
    ASSUME IInv, NEW c \in Controllers, ctl[c].pc \notin {"idle", "lock"} \cup Starting, ~cut,
           Managed = None
    PROVE  \A p \in Procs : ~Alive(p)
  <1> SUFFICES ASSUME NEW p \in Procs, Alive(p) PROVE FALSE
    OBVIOUS
  <1>1. p = pidFile /\ p # None
    BY OnlyRecorded, PlaybackControlAssumption
  <1> QED  BY <1>1, ManagedNone
--------------------------------------------------------------------------------
(* A controller that goes on, and one that returns.                        *)

LEMMA MoveKeeps ==
    ASSUME IInv, NEW c \in Controllers, NEW w \in Labels \ {"idle", "lock"},
           ctl[c].pc \notin {"idle", "lock"},
           CtlTypes', ctl'[c].pc = w, ctl'[c].cmd = ctl[c].cmd,
           \A d \in Controllers : d # c => ctl'[d] = ctl[d],
           w = "status" => ctl[c].cmd = "status",
           w \in {"stop", "term", "kill"} => ctl[c].cmd \in {"stop", "restart"},
           w \in {"start"} \cup Starting => ctl[c].cmd \in {"start", "restart"},
           w \in Starting => ctl[c].pc \in Starting,
           UNCHANGED <<lock, procs, saved, limit, web, answer, cut>>,
           SiteTypes', PidInv', OwnInv'
    PROVE  IInv'
  <1>1. TypeInv'
    BY DEF IInv, TypeInv, ProcTypes
  <1>2. LockInv'
    BY OthersWait DEF LockInv, IInv
  <1>3. CmdInv'
    BY DEF CmdInv, IInv, Controllers
  <1>4. Settled' => Settled
    BY DEF Settled, Controllers
  <1>5. PlayInv'
    BY <1>4 DEF PlayInv, IInv, Right
  <1> QED  BY <1>1, <1>2, <1>3, <1>5 DEF IInv

LEMMA ReturnKeeps ==
    ASSUME IInv, NEW c \in Controllers, NEW rc \in {0, 1, 3},
           ctl[c].pc \notin {"idle", "lock"},
           Return(c, rc),
           UNCHANGED <<procs, saved, limit, web, answer, cut>>,
           pidFile' \in Procs \cup {None}, status' \in BOOLEAN,
           pidFile' # None => procs[pidFile'].st \in {"receiver", "gone"},
           ~cut => \A p \in Procs : Alive(p) => p = pidFile',
           ~cut /\ web = "restart" /\ c = "web" /\ rc = 0 => \A p \in Procs : Right(p)
    PROVE  IInv'
  <1>1. /\ CtlTypes' /\ ctl'[c].pc = "idle" /\ ctl'[c].rc = rc /\ lock' = None
        /\ \A d \in Controllers : d # c => ctl'[d] = ctl[d]
    BY ReturnEffect DEF IInv
  <1>2. \A d \in Controllers : ctl'[d].pc \in {"idle", "lock"}
    BY <1>1, OthersWait
  <1>3. TypeInv'
    BY <1>1 DEF IInv, TypeInv, ProcTypes, SiteTypes
  <1>4. LockInv'
    BY <1>1, <1>2, PlaybackControlAssumption DEF LockInv
  <1>5. CmdInv'
    BY <1>1, <1>2 DEF CmdInv, IInv, Controllers, Starting
  <1>6. PidInv'
    BY <1>1, <1>2 DEF PidInv, Starting
  <1>7. OwnInv'
    BY DEF OwnInv, Alive
  <1>8. ~cut /\ Settled' => \A p \in Procs : Right(p)
    <2>1. CASE Settled
      BY <2>1 DEF IInv, PlayInv
    <2>2. CASE ~Settled
      <3>1. ASSUME Settled' PROVE web = "restart" /\ c = "web" /\ rc = 0
        BY <1>1, <1>2, <2>2, <3>1 DEF Settled, Controllers, Starting
      <3> QED  BY <3>1
    <2> QED  BY <2>1, <2>2
  <1>9. PlayInv'
    BY <1>8 DEF PlayInv, Right
  <1> QED  BY <1>3, <1>4, <1>5, <1>6, <1>7, <1>9 DEF IInv
--------------------------------------------------------------------------------
(* The controller's steps.                                                 *)

LEMMA AcquireKeeps ==
    ASSUME IInv, NEW c \in Controllers, Acquire(c)
    PROVE  IInv'
  <1> DEFINE w == IF ctl[c].cmd = "restart" THEN "stop" ELSE ctl[c].cmd
  <1>1. /\ ctl[c].pc = "lock" /\ lock = None /\ lock' = c
        /\ UNCHANGED <<procs, pidFile, status, saved, limit, web, answer, cut>>
        /\ Goto(c, w)
    BY DEF Acquire, At, files, site
  <1>2. w \in {"start", "stop", "status"}
    BY DEF IInv, TypeInv, CtlTypes, Commands
  <1>3. /\ CtlTypes' /\ ctl'[c].pc = w /\ ctl'[c].cmd = ctl[c].cmd
        /\ \A d \in Controllers : d # c => ctl'[d] = ctl[d]
    BY <1>1, <1>2, GotoEffect DEF IInv, Labels
  <1>4. \A d \in Controllers : ctl[d].pc \in {"idle", "lock"}
    BY <1>1, PlaybackControlAssumption DEF IInv, LockInv
  <1>5. TypeInv'
    BY <1>1, <1>3 DEF IInv, TypeInv, ProcTypes, SiteTypes
  <1>6. LockInv'
    BY <1>1, <1>2, <1>3, <1>4, PlaybackControlAssumption DEF LockInv
  <1>7. /\ w = "status" => ctl[c].cmd = "status"
        /\ w = "stop" => ctl[c].cmd \in {"stop", "restart"}
        /\ w = "start" => ctl[c].cmd = "start"
    BY <1>2
  <1> HIDE DEF w
  <1>8. CmdInv'
    BY <1>1, <1>2, <1>3, <1>4, <1>7 DEF CmdInv, IInv, Controllers, Starting
  <1>9. PidInv'
    BY <1>1, <1>2, <1>3, <1>4, <1>7 DEF PidInv, IInv, Starting
  <1>10. OwnInv'
    BY <1>1, <1>4 DEF OwnInv, IInv, Alive, Starting
  <1>11. Settled' => Settled
    BY <1>1, <1>2, <1>3 DEF Settled, Controllers, Starting
  <1>12. PlayInv'
    BY <1>1, <1>11 DEF PlayInv, IInv, Right
  <1> QED  BY <1>5, <1>6, <1>8, <1>9, <1>10, <1>12 DEF IInv

\* stop_locked() ends with nothing left alive: `restart` goes on, with an
\* empty PID record, or the command returns.
LEMMA StoppedKeeps ==
    ASSUME IInv, NEW c \in Controllers, NEW rc \in {0, 3},
           ctl[c].pc \in {"stop", "term", "kill"},
           ForgetProcess, Stopped(c, rc),
           UNCHANGED <<procs, saved, limit, web, answer, cut>>,
           ~cut => \A p \in Procs : ~Alive(p)
    PROVE  IInv'
  <1>1. pidFile' = None /\ status' = FALSE
    BY DEF ForgetProcess
  <1>2. ctl[c].cmd \in {"stop", "restart"}
    BY DEF IInv, CmdInv
  <1>3. CASE ctl[c].cmd = "restart"
    <2>1. Goto(c, "start") /\ lock' = lock
      BY <1>3 DEF Stopped
    <2>2. /\ CtlTypes' /\ ctl'[c].pc = "start" /\ ctl'[c].cmd = ctl[c].cmd
          /\ \A d \in Controllers : d # c => ctl'[d] = ctl[d]
      BY <2>1, GotoEffect DEF IInv, Labels
    <2>3. SiteTypes'
      BY <1>1, <2>1 DEF IInv, TypeInv, SiteTypes
    <2>4. PidInv'
      BY <1>1, <2>2, OthersWait DEF PidInv, Starting
    <2>5. OwnInv'
      BY DEF OwnInv, Alive
    <2> QED
      BY <1>3, <2>1, <2>2, <2>3, <2>4, <2>5, MoveKeeps DEF Labels, Starting
  <1>4. CASE ctl[c].cmd # "restart"
    <2>1. Return(c, rc)
      BY <1>4 DEF Stopped
    <2>2. ~(web = "restart" /\ c = "web")
      BY <1>4 DEF IInv, CmdInv
    <2> QED  BY <1>1, <2>1, <2>2, ReturnKeeps
  <1> QED  BY <1>3, <1>4

LEMMA StopNothingKeeps ==
    ASSUME IInv, NEW c \in Controllers, StopNothing(c)
    PROVE  IInv'
  <1>1. ctl[c].pc = "stop" /\ ~cut => \A p \in Procs : ~Alive(p)
    BY NothingLives DEF StopNothing, Starting
  <1> QED  BY <1>1, StoppedKeeps DEF StopNothing, At, site

\* The process it waited for is the recorded one, and it is gone.
LEMMA SeenGone ==
    ASSUME IInv, NEW c \in Controllers, ctl[c].pc \in {"term", "kill"}, ~Valid(ctl[c].pid), ~cut
    PROVE  \A p \in Procs : ~Alive(p)
  <1>1. Managed = None
    BY DEF IInv, PidInv, Managed
  <1> QED  BY <1>1, NothingLives DEF Starting

LEMMA StopSeenKeeps ==
    ASSUME IInv, NEW c \in Controllers, StopSeen(c)
    PROVE  IInv'
  <1>1. ~cut => \A p \in Procs : ~Alive(p)
    BY SeenGone DEF StopSeen, At
  <1> QED  BY <1>1, StoppedKeeps DEF StopSeen, At, site

LEMMA StopTermKeeps ==
    ASSUME IInv, NEW c \in Controllers, StopTerm(c)
    PROVE  IInv'
  <1>1. /\ ctl[c].pc = "stop" /\ Managed # None
        /\ ctl' = [ctl EXCEPT ![c].pc = "term", ![c].left = TermTicks, ![c].pid = Managed]
        /\ UNCHANGED <<procs, pidFile, status, lock, saved, limit, web, answer, cut>>
    BY DEF StopTerm, At, files, site
  <1>2. Managed = pidFile /\ pidFile # None /\ pidFile \in Procs
    BY <1>1 DEF Managed, IInv, TypeInv, SiteTypes
  <1>3. /\ CtlTypes' /\ ctl'[c].pc = "term" /\ ctl'[c].cmd = ctl[c].cmd /\ ctl'[c].pid = pidFile
        /\ \A d \in Controllers : d # c => ctl'[d] = ctl[d]
    BY <1>1, <1>2, WaitEffect, PlaybackControlAssumption DEF IInv, Labels
  <1>4. SiteTypes'
    BY <1>1 DEF IInv, TypeInv, SiteTypes
  <1>5. PidInv'
    BY <1>1, <1>2, <1>3, OthersWait DEF IInv, PidInv, Starting
  <1>6. OwnInv'
    BY <1>1, <1>3, OnlyRecorded DEF OwnInv, Alive, Starting
  <1>7. ctl[c].cmd \in {"stop", "restart"}
    BY <1>1 DEF IInv, CmdInv
  <1> QED
    BY <1>1, <1>3, <1>4, <1>5, <1>6, <1>7, MoveKeeps DEF Labels, Starting

LEMMA EscalateKeeps ==
    ASSUME IInv, NEW c \in Controllers, Escalate(c)
    PROVE  IInv'
  <1>1. /\ ctl[c].pc = "term"
        /\ ctl' = [ctl EXCEPT ![c].pc = "kill", ![c].left = KillTicks]
        /\ UNCHANGED <<procs, pidFile, status, lock, saved, limit, web, answer, cut>>
    BY DEF Escalate, At, files, site
  <1>2. /\ CtlTypes' /\ ctl'[c].pc = "kill" /\ ctl'[c].cmd = ctl[c].cmd
        /\ ctl'[c].pid = ctl[c].pid
        /\ \A d \in Controllers : d # c => ctl'[d] = ctl[d]
    <2>1. KillTicks \in Nat /\ "kill" \in Labels
      BY PlaybackControlAssumption DEF Labels
    <2> QED  BY <1>1, <2>1 DEF IInv, TypeInv, CtlTypes
  <1>3. SiteTypes'
    BY <1>1 DEF IInv, TypeInv, SiteTypes
  <1>4. PidInv'
    BY <1>1, <1>2, OthersWait DEF IInv, PidInv, Starting
  <1>5. OwnInv'
    BY <1>1, <1>2, OnlyRecorded DEF OwnInv, Alive, Starting
  <1>6. ctl[c].cmd \in {"stop", "restart"}
    BY <1>1 DEF IInv, CmdInv
  <1> QED
    BY <1>1, <1>2, <1>3, <1>4, <1>5, <1>6, MoveKeeps DEF Labels, Starting

\* A command that leaves the files as they are returns.
LEMMA ReturnInPlaceKeeps ==
    ASSUME IInv, NEW c \in Controllers, NEW rc \in {0, 1, 3},
           ctl[c].pc \notin {"idle", "lock"} \cup Starting,
           ~(web = "restart" /\ c = "web" /\ rc = 0),
           Return(c, rc),
           UNCHANGED <<procs, pidFile, status, saved, limit, web, answer, cut>>
    PROVE  IInv'
  <1>1. ~cut => \A p \in Procs : Alive(p) => p = pidFile'
    BY OnlyRecorded
  <1>2. /\ pidFile' \in Procs \cup {None} /\ status' \in BOOLEAN
        /\ pidFile' # None => procs[pidFile'].st \in {"receiver", "gone"}
    BY DEF IInv, TypeInv, SiteTypes, PidInv
  <1> QED  BY <1>1, <1>2, ReturnKeeps

LEMMA StopFailsKeeps ==
    ASSUME IInv, NEW c \in Controllers, StopFails(c)
    PROVE  IInv'
  <1>1. ctl[c].pc = "kill" /\ Return(c, 1)
    BY DEF StopFails, Stopped, At
  <1> QED  BY <1>1, ReturnInPlaceKeeps DEF StopFails, files, site, Starting

LEMMA StartRefusedKeeps ==
    ASSUME IInv, NEW c \in Controllers, StartRefused(c)
    PROVE  IInv'
  BY ReturnInPlaceKeeps DEF StartRefused, At, files, site, Starting

\* Not the web server's restart: it has emptied the PID record before.
LEMMA StartRunningKeeps ==
    ASSUME IInv, NEW c \in Controllers, StartRunning(c)
    PROVE  IInv'
  <1>1. ~(web = "restart" /\ c = "web")
    BY DEF StartRunning, At, IInv, CmdInv, PidInv, Managed
  <1> QED  BY <1>1, ReturnInPlaceKeeps DEF StartRunning, At, files, site, Starting

LEMMA StatusKeeps ==
    ASSUME IInv, NEW c \in Controllers, Status(c)
    PROVE  IInv'
  <1>1. ctl[c].pc = "status" /\ ~(web = "restart" /\ c = "web")
    BY DEF Status, At, IInv, CmdInv
  <1>2. CASE Managed = None /\ ForgetProcess /\ Return(c, 3)
    <2>1. ~cut => \A p \in Procs : ~Alive(p)
      BY <1>1, <1>2, NothingLives DEF Starting
    <2> QED  BY <1>1, <1>2, <2>1, ReturnKeeps DEF Status, ForgetProcess, site
  <1>3. CASE Return(c, 0) /\ UNCHANGED files
    BY <1>1, <1>3, ReturnInPlaceKeeps DEF Status, files, site, Starting
  <1> QED  BY <1>2, <1>3 DEF Status

\* A launch is of a new process, when none lives.
LEMMA LaunchKeeps ==
    ASSUME IInv, NEW c \in Controllers, NEW p \in Procs, Launch(c, p)
    PROVE  IInv'
  <1>1. /\ ctl[c].pc = "start" /\ Managed = None /\ procs[p] = Gone
        /\ pidFile' = None /\ status' = FALSE
        /\ procs' = [procs EXCEPT ![p].st = "launching"]
        /\ ctl' = [ctl EXCEPT ![c].pc = "ready", ![c].left = ReadyTicks, ![c].pid = p]
        /\ UNCHANGED <<lock, saved, limit, web, answer, cut>>
    BY DEF Launch, ForgetProcess, At, site
  <1>2. /\ ProcTypes' /\ procs'[p].st = "launching"
        /\ \A q \in Procs : q # p => procs'[q] = procs[q]
    BY SMTT(30), <1>1 DEF IInv, TypeInv, ProcTypes, States
  <1>3. /\ CtlTypes' /\ ctl'[c].pc = "ready" /\ ctl'[c].cmd = ctl[c].cmd /\ ctl'[c].pid = p
        /\ \A d \in Controllers : d # c => ctl'[d] = ctl[d]
    BY <1>1, WaitEffect, PlaybackControlAssumption DEF IInv, Labels
  <1>4. /\ lock = c /\ \A d \in Controllers : d # c => ctl[d].pc \in {"idle", "lock"}
    BY <1>1, OthersWait
  <1>5. ~cut => \A q \in Procs : q # p => procs'[q].st = "gone"
    BY <1>1, <1>2, NothingLives DEF Alive, Starting
  <1>6. TypeInv'
    BY <1>1, <1>2, <1>3 DEF IInv, TypeInv, SiteTypes
  <1>7. LockInv'
    BY <1>1, <1>3, <1>4 DEF IInv, LockInv
  <1>8. CmdInv'
    BY <1>1, <1>3 DEF IInv, CmdInv, Controllers, Starting
  <1>9. PidInv'
    BY <1>1, <1>3, <1>4, PlaybackControlAssumption DEF PidInv, Starting
  <1>10. OwnInv'
    BY <1>1, <1>3, <1>5 DEF OwnInv, Alive, Starting
  <1>11. PlayInv'
    BY <1>1, <1>2, <1>5 DEF PlayInv, Right
  <1> QED  BY <1>6, <1>7, <1>8, <1>9, <1>10, <1>11 DEF IInv

\* While one is being started, it is the only one.
LEMMA OnlyStarted ==
    ASSUME IInv, NEW c \in Controllers, ctl[c].pc \in Starting, ~cut,
           NEW p \in Procs, Alive(p)
    PROVE  p = ctl[c].pid
  <1>1. pidFile # p
    BY PlaybackControlAssumption DEF IInv, PidInv
  <1>2. \A d \in Controllers : ctl[d].pc \in Starting => d = c
    BY OthersWait DEF Starting
  <1> QED  BY <1>1, <1>2 DEF IInv, OwnInv

LEMMA ReadyKeeps ==
    ASSUME IInv, NEW c \in Controllers, Ready(c)
    PROVE  IInv'
  <1>1. /\ ctl[c].pc = "ready" /\ Valid(ctl[c].pid) /\ Goto(c, "record")
        /\ UNCHANGED <<procs, pidFile, status, lock, saved, limit, web, answer, cut>>
    BY DEF Ready, At, files, site
  <1>2. /\ CtlTypes' /\ ctl'[c].pc = "record" /\ ctl'[c].cmd = ctl[c].cmd
        /\ ctl'[c].pid = ctl[c].pid
        /\ \A d \in Controllers : d # c => ctl'[d] = ctl[d]
    BY <1>1, GotoEffect DEF IInv, Labels
  <1>3. SiteTypes'
    BY <1>1 DEF IInv, TypeInv, SiteTypes
  <1>4. PidInv'
    BY <1>1, <1>2, OthersWait DEF IInv, PidInv, Valid, Starting
  <1>5. OwnInv'
    BY <1>1, <1>2, OnlyStarted DEF OwnInv, Alive, Starting
  <1>6. ctl[c].cmd \in {"start", "restart"}
    BY <1>1 DEF IInv, CmdInv, Starting
  <1> QED
    BY <1>1, <1>2, <1>3, <1>4, <1>5, <1>6, MoveKeeps DEF Labels, Starting

LEMMA NotReadyKeeps ==
    ASSUME IInv, NEW c \in Controllers, NotReady(c)
    PROVE  IInv'
  <1>1. /\ ctl[c].pc = "ready" /\ Goto(c, "reap")
        /\ UNCHANGED <<procs, pidFile, status, lock, saved, limit, web, answer, cut>>
    BY DEF NotReady, At, files, site
  <1>2. /\ CtlTypes' /\ ctl'[c].pc = "reap" /\ ctl'[c].cmd = ctl[c].cmd
        /\ ctl'[c].pid = ctl[c].pid
        /\ \A d \in Controllers : d # c => ctl'[d] = ctl[d]
    BY <1>1, GotoEffect DEF IInv, Labels
  <1>3. SiteTypes'
    BY <1>1 DEF IInv, TypeInv, SiteTypes
  <1>4. PidInv'
    BY <1>1, <1>2, OthersWait DEF IInv, PidInv, Starting
  <1>5. OwnInv'
    BY <1>1, <1>2, OnlyStarted DEF OwnInv, Alive, Starting
  <1>6. ctl[c].cmd \in {"start", "restart"}
    BY <1>1 DEF IInv, CmdInv, Starting
  <1> QED
    BY <1>1, <1>2, <1>3, <1>4, <1>5, <1>6, MoveKeeps DEF Labels, Starting

LEMMA ReapKeeps ==
    ASSUME IInv, NEW c \in Controllers, Reap(c)
    PROVE  IInv'
  <1>1. /\ ctl[c].pc = "reap" /\ procs[ctl[c].pid].st = "gone" /\ Return(c, 1)
        /\ UNCHANGED <<procs, pidFile, status, saved, limit, web, answer, cut>>
    BY DEF Reap, At, files, site
  <1>2. ~cut => \A p \in Procs : ~Alive(p)
    BY <1>1, OnlyStarted DEF Alive, Starting
  <1>3. /\ pidFile' \in Procs \cup {None} /\ status' \in BOOLEAN
        /\ pidFile' # None => procs[pidFile'].st \in {"receiver", "gone"}
    BY <1>1 DEF IInv, TypeInv, SiteTypes, PidInv
  <1> QED  BY <1>1, <1>2, <1>3, ReturnKeeps

\* The launched process is recorded; if a restart of the web server launched
\* it, it has read what was saved.
LEMMA RecordPidKeeps ==
    ASSUME IInv, NEW c \in Controllers, RecordPid(c)
    PROVE  IInv'
  <1>1. /\ ctl[c].pc = "record" /\ pidFile' = ctl[c].pid /\ Return(c, 0)
        /\ UNCHANGED <<procs, status, saved, limit, web, answer, cut>>
    BY DEF RecordPid, At, site
  <1>2. ~cut => \A p \in Procs : Alive(p) => p = pidFile'
    BY <1>1, OnlyStarted DEF Starting
  <1>3. /\ pidFile' \in Procs \cup {None} /\ status' \in BOOLEAN
        /\ pidFile' # None => procs[pidFile'].st \in {"receiver", "gone"}
    BY <1>1 DEF IInv, TypeInv, CtlTypes, SiteTypes, PidInv
  <1>4. ~cut /\ web = "restart" /\ c = "web" => \A p \in Procs : Right(p)
    BY <1>1 DEF IInv, PlayInv, Settled, Starting
  <1> QED  BY <1>1, <1>2, <1>3, <1>4, ReturnKeeps

LEMMA ControllerKeeps ==
    ASSUME IInv, NEW c \in Controllers, Controller(c)
    PROVE  IInv'
  BY AcquireKeeps, StopNothingKeeps, StopTermKeeps, StopSeenKeeps, EscalateKeeps, StopFailsKeeps,
     StartRefusedKeeps, StartRunningKeeps, LaunchKeeps, ReadyKeeps, NotReadyKeeps, ReapKeeps,
     RecordPidKeeps, StatusKeeps DEF Controller
--------------------------------------------------------------------------------
(* Commands begin.                                                         *)

LEMMA BegunTypes ==
    ASSUME NEW cmd \in Commands
    PROVE  /\ Begun(cmd) \in [pc : Labels, cmd : Commands, left : Nat,
                              pid : Procs \cup {None}, rc : {0, 1, 3, 9}]
           /\ Begun(cmd).pc = "lock" /\ Begun(cmd).cmd = cmd
  BY DEF Begun, Labels

\* A command that begins waits for the lock like any other.
LEMMA BeginKeeps ==
    ASSUME IInv, NEW c \in Controllers, NEW cmd \in Commands, ctl[c].pc = "idle",
           ctl' = [ctl EXCEPT ![c] = Begun(cmd)],
           UNCHANGED <<procs, pidFile, status, lock, cut>>,
           saved' \in Targets \cup {None, Bad}, limit' \in Ceilings \cup {None, Bad},
           web' \in {"none", "restart", "clear", "summary"},
           c = "shell" => web' = web,
           c = "web" => web' # "none" /\ (web' = "restart" => cmd = "restart"),
           ~cut /\ Settled' => Settled /\ UNCHANGED <<saved, limit>>
    PROVE  IInv'
  <1>1. /\ CtlTypes' /\ ctl'[c].pc = "lock" /\ ctl'[c].cmd = cmd
        /\ \A d \in Controllers : d # c => ctl'[d] = ctl[d]
    BY BegunTypes DEF IInv, TypeInv, CtlTypes
  <1>2. TypeInv'
    BY <1>1 DEF IInv, TypeInv, ProcTypes, SiteTypes
  <1>3. LockInv'
    BY <1>1 DEF IInv, LockInv
  <1>4. CmdInv'
    BY <1>1 DEF IInv, CmdInv, Controllers, Starting
  <1>5. PidInv'
    BY <1>1 DEF IInv, PidInv, Starting
  <1>6. OwnInv'
    BY <1>1 DEF IInv, OwnInv, Alive, Starting
  <1>7. PlayInv'
    BY DEF IInv, PlayInv, Right
  <1> QED  BY <1>2, <1>3, <1>4, <1>5, <1>6, <1>7 DEF IInv

LEMMA ShellKeeps ==
    ASSUME IInv, NEW cmd \in Commands, Shell(cmd)
    PROVE  IInv'
  <1>1. /\ ctl["shell"].pc = "idle" /\ "shell" \in Controllers /\ "shell" # "web"
        /\ ctl' = [ctl EXCEPT !["shell"] = Begun(cmd)]
        /\ UNCHANGED <<procs, pidFile, status, lock, saved, limit, web, answer, cut>>
    BY DEF Shell, At, Controllers, files, site
  <1>2. ctl'["web"] = ctl["web"]
    BY <1>1 DEF IInv, TypeInv, CtlTypes, Controllers
  <1>3. Settled' => Settled
    BY <1>1, <1>2 DEF Settled
  <1>4. /\ saved' \in Targets \cup {None, Bad} /\ limit' \in Ceilings \cup {None, Bad}
        /\ web' \in {"none", "restart", "clear", "summary"}
    BY <1>1 DEF IInv, TypeInv, SiteTypes
  <1> QED  BY <1>1, <1>3, <1>4, BeginKeeps

\* The web server runs a command: only the summary's leaves the last answer
\* standing, and it follows no save.
LEMMA RunKeeps ==
    ASSUME IInv, NEW op \in {"restart", "clear", "summary"}, NEW cmd \in Commands, Run(op, cmd),
           op = "restart" => cmd = "restart",
           op = "summary" => UNCHANGED <<saved, limit, answer>>,
           saved' \in Targets \cup {None, Bad}, limit' \in Ceilings \cup {None, Bad}
    PROVE  IInv'
  <1>1. /\ web = "none" /\ web' = op /\ "web" \in Controllers /\ "web" # "shell"
        /\ ctl' = [ctl EXCEPT !["web"] = Begun(cmd)]
        /\ UNCHANGED <<procs, pidFile, status, lock, cut>>
    BY DEF Run, Controllers, files
  <1>2. ctl["web"].pc = "idle" /\ ctl'["web"].pc = "lock"
    BY <1>1, BegunTypes DEF IInv, CmdInv, TypeInv, CtlTypes
  <1>3. Settled' => Settled /\ UNCHANGED <<saved, limit>>
    BY <1>1, <1>2 DEF Settled, Starting
  <1> QED  BY <1>1, <1>2, <1>3, BeginKeeps
--------------------------------------------------------------------------------
(* The web server's operations.                                            *)

\* A save leaves the old value, the new one or none, and no other.
LEMMA SaveTypes ==
    ASSUME TypeInv
    PROVE  /\ \A t \in Targets \cup {None, Bad} : \A r \in SaveSource(t) :
                r.holds \in Targets \cup {None, Bad}
           /\ \A v \in Ceilings \cup {None, Bad} : \A r \in SaveCeiling(v) :
                r.holds \in Ceilings \cup {None, Bad}
  <1>1. saved \in Targets \cup {None, Bad} /\ limit \in Ceilings \cup {None, Bad}
    BY DEF TypeInv, SiteTypes
  <1>2. \A old, new : \A r \in Replaced(old, new) \cup Removed(old) : r.holds \in {old, new, None}
    BY DEF Replaced, Removed, Outcome
  <1>3. \A t \in Targets \cup {None, Bad} : \A r \in SaveSource(t) : r.holds \in {saved, t, None}
    BY <1>2 DEF SaveSource, Outcome
  <1>4. \A v \in Ceilings \cup {None, Bad} : \A r \in SaveCeiling(v) : r.holds \in {limit, v, None}
    BY <1>2 DEF SaveCeiling, Outcome
  <1> QED  BY <1>1, <1>3, <1>4

\* An operation that runs no command settles nothing.
LEMMA FailedKeeps ==
    ASSUME IInv, AnswerAtOnce("failed"),
           saved' \in Targets \cup {None, Bad}, limit' \in Ceilings \cup {None, Bad}
    PROVE  IInv'
  <1>1. /\ web = "none" /\ web' = "none" /\ answer' = "failed"
        /\ UNCHANGED <<procs, pidFile, status, lock, ctl, cut>>
    BY DEF AnswerAtOnce, Answer, files
  <1>2. TypeInv'
    BY <1>1 DEF IInv, TypeInv, ProcTypes, CtlTypes, SiteTypes
  <1>3. LockInv' /\ CmdInv' /\ PidInv'
    BY <1>1 DEF IInv, LockInv, CmdInv, PidInv
  <1>4. OwnInv'
    BY <1>1 DEF IInv, OwnInv, Alive
  <1>5. PlayInv'
    BY <1>1 DEF PlayInv, Settled
  <1> QED  BY <1>2, <1>3, <1>4, <1>5 DEF IInv

LEMMA WebKeeps ==
    ASSUME IInv, Web
    PROVE  IInv'
  <1>0. /\ "restart" \in Commands /\ "stop" \in Commands /\ "status" \in Commands
        /\ saved \in Targets \cup {None, Bad} /\ limit \in Ceilings \cup {None, Bad}
    BY DEF Commands, IInv, TypeInv, SiteTypes
  <1>1. ASSUME NEW t \in Targets \cup {Bad}, WebSelect(t) PROVE IInv'
    <2>1. PICK r \in SaveSource(t) :
            /\ saved' = r.holds /\ UNCHANGED limit
            /\ \/ ~r.ok /\ AnswerAtOnce("failed")
               \/ r.ok /\ Run("restart", "restart") /\ UNCHANGED answer
      BY <1>1 DEF WebSelect
    <2>2. saved' \in Targets \cup {None, Bad} /\ limit' \in Ceilings \cup {None, Bad}
      BY <1>0, <2>1, SaveTypes DEF IInv
    <2> QED  BY <1>0, <2>1, <2>2, FailedKeeps, RunKeeps
  <1>2. ASSUME NEW v \in Ceilings \cup {None, Bad}, WebLimit(v) PROVE IInv'
    <2>1. PICK r \in SaveCeiling(v) :
            /\ limit' = r.holds /\ UNCHANGED saved
            /\ \/ ~r.ok /\ AnswerAtOnce("failed")
               \/ r.ok /\ Run("restart", "restart") /\ UNCHANGED answer
      BY <1>2 DEF WebLimit
    <2>2. saved' \in Targets \cup {None, Bad} /\ limit' \in Ceilings \cup {None, Bad}
      BY <1>0, <2>1, SaveTypes DEF IInv
    <2> QED  BY <1>0, <2>1, <2>2, FailedKeeps, RunKeeps
  <1>3. CASE WebRestart
    BY <1>0, <1>3, FailedKeeps, RunKeeps DEF WebRestart
  <1>4. CASE WebClear
    BY <1>0, <1>4, RunKeeps DEF WebClear
  <1>5. CASE WebSummary
    BY <1>0, <1>5, RunKeeps DEF WebSummary
  <1> QED  BY <1>1, <1>2, <1>3, <1>4, <1>5 DEF Web

\* The answer is "running" only for a restart that returned success.
LEMMA WebReplyKeeps ==
    ASSUME IInv, WebReply
    PROVE  IInv'
  <1>1. /\ web # "none" /\ ctl["web"].pc = "idle" /\ web' = "none"
        /\ ctl' = [ctl EXCEPT !["web"] = Idle]
        /\ UNCHANGED <<procs, pidFile, status, lock, limit, cut>>
    BY DEF WebReply, At, Answer, files
  <1>2. /\ saved' \in Targets \cup {None, Bad}
        /\ answer' = "running" => Settled /\ saved' = saved
    <2>1. \A r \in SaveSource(None) : r.holds \in Targets \cup {None, Bad}
      BY SaveTypes DEF IInv
    <2>2. saved \in Targets \cup {None, Bad}
      BY DEF IInv, TypeInv, SiteTypes
    <2> QED  BY <1>1, <2>1, <2>2 DEF WebReply, Answer, Settled
  <1>3. /\ CtlTypes' /\ ctl'["web"].pc = "idle"
        /\ \A d \in Controllers : d # "web" => ctl'[d] = ctl[d]
    <2>1. "web" \in Controllers /\ [Idle EXCEPT !.rc = 0] = Idle
      BY DEF Controllers, Idle
    <2>2. /\ Idle \in [pc : Labels, cmd : Commands, left : Nat,
                       pid : Procs \cup {None}, rc : {0, 1, 3, 9}]
          /\ Idle.pc = "idle"
      BY DEF Idle, Labels, Commands
    <2> QED  BY <1>1, <2>1, <2>2 DEF IInv, TypeInv, CtlTypes
  <1>4. TypeInv'
    BY <1>1, <1>2, <1>3 DEF IInv, TypeInv, ProcTypes, SiteTypes
  <1>5. LockInv'
    BY <1>1, <1>3 DEF IInv, LockInv, Controllers
  <1>6. CmdInv'
    BY <1>1, <1>3 DEF IInv, CmdInv, Controllers, Starting
  <1>7. PidInv'
    BY <1>1, <1>3 DEF IInv, PidInv, Controllers, Starting
  <1>8. OwnInv'
    BY <1>1, <1>3 DEF IInv, OwnInv, Alive, Controllers, Starting
  <1>9. PlayInv'
    <2>1. ~cut /\ Settled' => Settled /\ UNCHANGED <<saved, limit>>
      BY <1>1, <1>2 DEF Settled
    <2> QED  BY <1>1, <2>1 DEF IInv, PlayInv, Right
  <1> QED  BY <1>4, <1>5, <1>6, <1>7, <1>8, <1>9 DEF IInv

\* The killed controller's lock is free; what it was launching is nobody's,
\* and from then on that is known.
LEMMA WebTimeoutKeeps ==
    ASSUME IInv, WebTimeout
    PROVE  IInv'
  <1>1. /\ ctl["web"].pc # "idle"
        /\ ctl' = [ctl EXCEPT !["web"] = [Idle EXCEPT !.rc = 9]]
        /\ lock' = IF lock = "web" THEN None ELSE lock
        /\ cut' = (cut \/ ctl["web"].pc \in Starting)
        /\ UNCHANGED <<procs, pidFile, status, saved, limit, web, answer>>
    BY DEF WebTimeout, At, files, site, Starting
  <1>2. /\ CtlTypes' /\ ctl'["web"].pc = "idle" /\ ctl'["web"].rc = 9
        /\ \A d \in Controllers : d # "web" => ctl'[d] = ctl[d]
    BY <1>1, IdleTypes DEF IInv, TypeInv, CtlTypes, Controllers
  <1>3. TypeInv'
    BY <1>1, <1>2 DEF IInv, TypeInv, ProcTypes, SiteTypes
  <1>4. LockInv'
    BY <1>1, <1>2, PlaybackControlAssumption DEF IInv, LockInv, Controllers
  <1>5. CmdInv'
    BY <1>1, <1>2 DEF IInv, CmdInv, Controllers, Starting
  <1>6. PidInv'
    BY <1>1, <1>2 DEF IInv, PidInv, Controllers, Starting
  <1>7. ~cut' => ~cut /\ ctl["web"].pc \notin Starting
    BY <1>1
  <1>8. OwnInv'
    BY <1>1, <1>2, <1>7 DEF IInv, OwnInv, Alive
  <1>9. PlayInv'
    <2>1. Settled' => Settled
      BY <1>1, <1>2 DEF Settled, Starting
    <2> QED  BY <1>1, <1>7, <2>1 DEF IInv, PlayInv, Right
  <1> QED  BY <1>3, <1>4, <1>5, <1>6, <1>8, <1>9 DEF IInv
--------------------------------------------------------------------------------
(* The processes and the clock.                                            *)

\* A process reads what is saved, becomes the receiver, or is gone: it is not
\* any more alive than it was, and what it has read is right if it was.
LEMMA ProcessKeeps ==
    ASSUME IInv, NEW p \in Procs, ProcTypes',
           \A q \in Procs : q # p => procs'[q] = procs[q],
           \/ procs'[p].st = "gone"
           \/ procs[p].st = "launching" /\ procs'[p].st = "aimed" /\ procs'[p].target = saved
           \/ /\ procs[p].st = "aimed" /\ procs'[p].st = "loaded"
              /\ procs'[p].target = procs[p].target /\ procs'[p].ceiling = limit
           \/ /\ procs[p].st = "loaded" /\ procs'[p].st = "receiver"
              /\ procs'[p].target = procs[p].target /\ procs'[p].ceiling = procs[p].ceiling,
           UNCHANGED <<pidFile, lock, ctl, saved, limit, web, answer, cut>>,
           status' \in BOOLEAN
    PROVE  IInv'
  <1>1. TypeInv'
    BY DEF IInv, TypeInv, CtlTypes, SiteTypes
  <1>2. LockInv' /\ CmdInv'
    BY DEF IInv, LockInv, CmdInv
  <1>4. \A q \in Procs : Alive(q)' => Alive(q)
    BY DEF Alive
  <1>5. \A q \in Procs : procs[q].st \in {"receiver", "gone"} =>
                            procs'[q].st \in {"receiver", "gone"}
    OBVIOUS
  <1>6. /\ pidFile \in Procs \cup {None}
        /\ \A c \in Controllers : ctl[c].pid \in Procs \cup {None}
    BY DEF IInv, TypeInv, CtlTypes, SiteTypes
  <1>7. PidInv'
    BY <1>5, <1>6 DEF IInv, PidInv, Starting
  <1>8. OwnInv'
    BY <1>4 DEF IInv, OwnInv
  <1>9. \A q \in Procs : Right(q) => Right(q)'
    BY DEF Right
  <1>10. PlayInv'
    BY <1>9 DEF IInv, PlayInv, Settled
  <1> QED  BY <1>1, <1>2, <1>7, <1>8, <1>10 DEF IInv

LEMMA GoneTypes ==
    /\ Gone \in [st : States, target : Targets \cup {None}, ceiling : Ceilings \cup {None}]
    /\ Gone.st = "gone"
  BY DEF Gone, States

LEMMA WorldKeeps ==
    ASSUME IInv, World
    PROVE  IInv'
  <1>1. PICK p \in Procs :
           LaunchReads(p) \/ LaunchBounds(p) \/ LaunchExecs(p) \/ Publish(p) \/ Exit(p)
    BY DEF World
  <1>2. procs[p] \in [st : States, target : Targets \cup {None}, ceiling : Ceilings \cup {None}]
    BY DEF IInv, TypeInv, ProcTypes
  <1>3. /\ UNCHANGED <<pidFile, lock, ctl, saved, limit, web, answer, cut>>
        /\ status' \in BOOLEAN
    BY <1>1 DEF LaunchReads, LaunchBounds, LaunchExecs, Publish, Exit, files, site, IInv, TypeInv,
                SiteTypes
  <1>4. CASE Publish(p)
    <2>1. UNCHANGED procs
      BY <1>4 DEF Publish
    <2>2. TypeInv'
      BY <1>3, <2>1 DEF IInv, TypeInv, ProcTypes, CtlTypes, SiteTypes
    <2>3. LockInv' /\ CmdInv' /\ PidInv'
      BY <1>3, <2>1 DEF IInv, LockInv, CmdInv, PidInv
    <2>4. OwnInv' /\ PlayInv'
      BY <1>3, <2>1 DEF IInv, OwnInv, Alive, PlayInv, Settled, Right
    <2> QED  BY <2>2, <2>3, <2>4 DEF IInv
  <1>5. ASSUME NEW r \in [st : States, target : Targets \cup {None}, ceiling : Ceilings \cup {None}],
               procs' = [procs EXCEPT ![p] = r],
               \/ r.st = "gone"
               \/ procs[p].st = "launching" /\ r.st = "aimed" /\ r.target = saved
               \/ /\ procs[p].st = "aimed" /\ r.st = "loaded"
                  /\ r.target = procs[p].target /\ r.ceiling = limit
               \/ /\ procs[p].st = "loaded" /\ r.st = "receiver"
                  /\ r.target = procs[p].target /\ r.ceiling = procs[p].ceiling
        PROVE  IInv'
    <2>1. ProcTypes' /\ procs'[p] = r /\ \A q \in Procs : q # p => procs'[q] = procs[q]
      BY <1>5 DEF IInv, TypeInv, ProcTypes
    <2> QED  BY <1>3, <1>5, <2>1, ProcessKeeps
  <1>6. CASE LaunchReads(p)
    <2>1. Source(saved) \notin {None, Bad} => saved \in Targets
      BY DEF Source, ValidTarget
    <2>2. CASE Source(saved) \in {None, Bad}
      BY <1>5, <1>6, <2>2, GoneTypes DEF LaunchReads
    <2>3. CASE Source(saved) \notin {None, Bad}
      <3> DEFINE r == [procs[p] EXCEPT !.st = "aimed", !.target = saved]
      <3>1. /\ r \in [st : States, target : Targets \cup {None}, ceiling : Ceilings \cup {None}]
            /\ r.st = "aimed" /\ r.target = saved /\ procs[p].st = "launching"
        BY <1>2, <1>6, <2>1, <2>3 DEF States, LaunchReads
      <3>2. procs' = [procs EXCEPT ![p] = r]
        BY <1>6, <2>3 DEF LaunchReads
      <3> QED  BY <1>5, <3>1, <3>2
    <2> QED  BY <2>2, <2>3
  <1>7. CASE LaunchBounds(p)
    <2>1. Effective(limit) # Bad => limit \in Ceilings \cup {None}
      BY DEF Effective, ValidCeiling
    <2>2. CASE Effective(limit) = Bad
      BY <1>5, <1>7, <2>2, GoneTypes DEF LaunchBounds
    <2>3. CASE Effective(limit) # Bad
      <3> DEFINE r == [procs[p] EXCEPT !.st = "loaded", !.ceiling = limit]
      <3>1. /\ r \in [st : States, target : Targets \cup {None}, ceiling : Ceilings \cup {None}]
            /\ r.st = "loaded" /\ r.ceiling = limit /\ r.target = procs[p].target
            /\ procs[p].st = "aimed"
        BY <1>2, <1>7, <2>1, <2>3 DEF States, LaunchBounds
      <3>2. procs' = [procs EXCEPT ![p] = r]
        BY <1>7, <2>3 DEF LaunchBounds
      <3> QED  BY <1>5, <3>1, <3>2
    <2> QED  BY <2>2, <2>3
  <1>8. CASE LaunchExecs(p)
    <2> DEFINE r == [procs[p] EXCEPT !.st = "receiver"]
    <2>1. /\ r \in [st : States, target : Targets \cup {None}, ceiling : Ceilings \cup {None}]
          /\ r.st = "receiver" /\ r.ceiling = procs[p].ceiling /\ r.target = procs[p].target
          /\ procs[p].st = "loaded"
      BY <1>2, <1>8 DEF States, LaunchExecs
    <2>2. procs' = [procs EXCEPT ![p] = r]
      BY <1>8 DEF LaunchExecs
    <2> QED  BY <1>5, <2>1, <2>2
  <1>9. CASE Exit(p)
    BY <1>5, <1>9, GoneTypes DEF Exit
  <1> QED  BY <1>1, <1>4, <1>6, <1>7, <1>8, <1>9

LEMMA TickKeeps ==
    ASSUME IInv, Tick
    PROVE  IInv'
  <1>1. UNCHANGED <<procs, pidFile, status, lock, saved, limit, web, answer, cut>>
    BY DEF Tick, files
  <1>2. /\ CtlTypes'
        /\ \A c \in Controllers : /\ ctl'[c].pc = ctl[c].pc /\ ctl'[c].cmd = ctl[c].cmd
                                  /\ ctl'[c].pid = ctl[c].pid /\ ctl'[c].rc = ctl[c].rc
    BY DEF Tick, Less, IInv, TypeInv, CtlTypes
  <1>3. ctl'["web"].pc = ctl["web"].pc /\ ctl'["web"].rc = ctl["web"].rc
        /\ ctl'["web"].cmd = ctl["web"].cmd
    BY <1>2 DEF Controllers
  <1>4. TypeInv'
    BY <1>1, <1>2 DEF IInv, TypeInv, ProcTypes, SiteTypes
  <1>5. LockInv' /\ CmdInv' /\ PidInv'
    BY <1>1, <1>2, <1>3 DEF IInv, LockInv, CmdInv, PidInv
  <1>6. OwnInv' /\ PlayInv'
    BY <1>1, <1>2, <1>3 DEF IInv, OwnInv, Alive, PlayInv, Settled, Right
  <1> QED  BY <1>4, <1>5, <1>6 DEF IInv
--------------------------------------------------------------------------------
LEMMA InitIInv == Init => IInv
  <1> SUFFICES ASSUME Init PROVE IInv
    OBVIOUS
  <1>1. ProcTypes /\ \A p \in Procs : procs[p].st = "gone"
    BY GoneTypes DEF Init, ProcTypes
  <1>2. CtlTypes /\ \A c \in Controllers : ctl[c].pc = "idle"
    BY DEF Init, CtlTypes, Idle, Labels, Commands
  <1>3. SiteTypes
    BY DEF Init, SiteTypes
  <1>4. LockInv
    BY <1>2, PlaybackControlAssumption DEF LockInv, Init
  <1>5. CmdInv /\ PidInv
    BY <1>2 DEF Init, CmdInv, PidInv, Controllers, Starting
  <1>6. OwnInv /\ PlayInv
    BY <1>1 DEF OwnInv, PlayInv, Alive, Right
  <1> QED  BY <1>1, <1>2, <1>3, <1>4, <1>5, <1>6 DEF IInv, TypeInv

\* The invariant is inductive.
LEMMA NextKeeps == ASSUME IInv, [Next]_vars PROVE IInv'
  <1>1. CASE UNCHANGED vars
    <2>1. UNCHANGED <<procs, pidFile, status, lock, ctl, saved, limit, web, answer, cut>>
      BY <1>1 DEF vars, files, site
    <2>2. TypeInv'
      BY <2>1 DEF IInv, TypeInv, ProcTypes, CtlTypes, SiteTypes
    <2>3. LockInv' /\ CmdInv' /\ PidInv'
      BY <2>1 DEF IInv, LockInv, CmdInv, PidInv
    <2>4. OwnInv' /\ PlayInv'
      BY <2>1 DEF IInv, OwnInv, Alive, PlayInv, Settled, Right
    <2> QED  BY <2>2, <2>3, <2>4 DEF IInv
  <1> QED
    BY <1>1, ControllerKeeps, ShellKeeps, WebKeeps, WebReplyKeeps, WebTimeoutKeeps, WorldKeeps,
       TickKeeps DEF Next

\* However commands, timeouts and processes interleave, the lock, the PID
\* record and the processes stay in step.
THEOREM ControlInvariant == Spec => []IInv
  <1>1. Init => IInv
    BY InitIInv
  <1>2. IInv /\ [Next]_vars => IInv'
    BY NextKeeps
  <1> QED  BY <1>1, <1>2, PTL DEF Spec

\* control-omt.sh and the web server keep one receiver at most, known to the
\* PID record or to the controller that starts it, and what a restart reported
\* as running plays the saved target under the saved limit.
THEOREM ReceiverIsManaged == Spec => []ReceiverManaged
  <1>1. IInv => OneReceiver
    <2> SUFFICES ASSUME IInv, ~cut, NEW p \in Procs, NEW q \in Procs, Alive(p), Alive(q)
                 PROVE  p = q
      BY DEF OneReceiver
    <2>1. CASE \E c \in Controllers : ctl[c].pc \in Starting
      BY <2>1, OnlyStarted
    <2>2. CASE ~\E c \in Controllers : ctl[c].pc \in Starting
      BY <2>2 DEF IInv, OwnInv
    <2> QED  BY <2>1, <2>2
  <1>2. IInv => OrphanOnlyWhenCut
    BY PlaybackControlAssumption DEF IInv, OwnInv, LockInv, OrphanOnlyWhenCut, NoOrphan, Starting
  <1>3. IInv => PlaysSaved
    BY DEF IInv, PlayInv, Settled, Right, PlaysSaved
  <1>4. IInv => ReceiverManaged
    BY <1>1, <1>2, <1>3 DEF ReceiverManaged
  <1> QED  BY <1>4, ControlInvariant, PTL

\* A step of one controller leaves the other where it is.
LEMMA ControllerLocal ==
    ASSUME IInv, NEW c \in Controllers, NEW d \in Controllers, d # c, Controller(d)
    PROVE  ctl'[c] = ctl[c]
  <1>1. \E e : ctl' = [ctl EXCEPT ![d] = e]
    BY DEF Controller, Acquire, StopNothing, StopTerm, StopSeen, Escalate, StopFails, StartRefused,
           StartRunning, Launch, Ready, NotReady, Reap, RecordPid, Status, Stopped, Goto, Return
  <1> QED  BY <1>1 DEF IInv, TypeInv, CtlTypes

\* A stop that returns success has just seen that nothing lives.
LEMMA StopReturns ==
    ASSUME IInv, Next, NEW c \in Controllers, ~cut, ctl[c].pc # "idle", ctl[c].cmd = "stop",
           ctl'[c].pc = "idle", ctl'[c].rc \in {0, 3}
    PROVE  ~status' /\ \A p \in Procs : procs'[p].st = "gone"
  <1>t. TypeInv /\ ctl'[c] # ctl[c]
    BY DEF IInv
  <1>p. ctl[c].pc \in {"lock", "stop", "term", "kill"}
    BY DEF IInv, TypeInv, CtlTypes, Labels, CmdInv, Starting
  <1>1. CASE StopNothing(c)
    <2>1. \A p \in Procs : ~Alive(p)
      BY <1>1, NothingLives DEF StopNothing, At, Starting
    <2> QED  BY <1>1, <2>1 DEF StopNothing, ForgetProcess, Alive
  <1>2. CASE StopSeen(c)
    <2>1. \A p \in Procs : ~Alive(p)
      BY <1>2, SeenGone DEF StopSeen, At
    <2> QED  BY <1>2, <2>1 DEF StopSeen, ForgetProcess, Alive
  <1>3. ~Acquire(c)
    <2> SUFFICES ASSUME Acquire(c) PROVE FALSE
      OBVIOUS
    <2>1. Goto(c, "stop")
      BY DEF Acquire
    <2> QED  BY <1>t, <2>1, GotoEffect DEF Labels
  <1>4. ~StopTerm(c) /\ ~Escalate(c)
    BY <1>t DEF StopTerm, Escalate, TypeInv, CtlTypes
  <1>5. ~StopFails(c)
    BY <1>t, ReturnEffect DEF StopFails, Stopped
  <1>6. /\ ~StartRefused(c) /\ ~StartRunning(c) /\ ~Ready(c) /\ ~NotReady(c) /\ ~Reap(c)
        /\ ~RecordPid(c) /\ ~Status(c) /\ \A p \in Procs : ~Launch(c, p)
    BY <1>p DEF StartRefused, StartRunning, Ready, NotReady, Reap, RecordPid, Status, Launch, At
  <1>7. \A d \in Controllers : d # c => ~Controller(d)
    BY <1>t, ControllerLocal
  <1>8. \A cmd \in Commands : ~Shell(cmd)
    BY <1>t DEF Shell, At, TypeInv, CtlTypes
  <1>9. /\ ctl["web"].pc = "idle" => c # "web"
        /\ web = "none" => ctl["web"].pc = "idle"
    BY DEF IInv, CmdInv
  <1>10. \A op, cmd : ~Run(op, cmd)
    BY <1>t, <1>9 DEF Run, TypeInv, CtlTypes
  <1>11. ~Web
    BY <1>t, <1>10 DEF Web, WebSelect, WebRestart, WebLimit, WebClear, WebSummary, AnswerAtOnce
  <1>12. ~WebReply
    BY <1>t, <1>9 DEF WebReply, At, TypeInv, CtlTypes
  <1>13. ~WebTimeout
    BY SMTT(30), <1>t, IdleTypes DEF WebTimeout, TypeInv, CtlTypes
  <1>14. ~World
    BY <1>t DEF World, LaunchReads, LaunchBounds, LaunchExecs, Publish, Exit
  <1>15. ~Tick
    BY <1>t DEF Tick, TypeInv, CtlTypes
  <1> QED
    BY <1>1, <1>2, <1>3, <1>4, <1>5, <1>6, <1>7, <1>8, <1>11, <1>12, <1>13, <1>14, <1>15
    DEF Next, Controller

\* A stop of control-omt.sh that reports success leaves no process and no status behind it, for
\* as long as no controller was killed between a launch and its PID record.
THEOREM StopsAreStops == Spec => StopMeansStopped
  <1>1. IInv /\ [Next]_vars =>
          [\A c \in Controllers :
             ~cut /\ ~At(c, "idle") /\ ctl[c].cmd = "stop" /\ At(c, "idle")'
                  /\ ctl'[c].rc \in {0, 3}
                 => ~status' /\ \A p \in Procs : ~Alive(p)']_vars
    BY StopReturns DEF At, Alive
  <1> QED  BY <1>1, ControlInvariant, PTL DEF Spec, StopMeansStopped
================================================================================
