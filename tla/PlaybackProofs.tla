----------------------------- MODULE PlaybackProofs ----------------------------
(***************************************************************************)
(* What a playback session owes, for every retry limit, grace and stall    *)
(* time, every set of connectors and every number of refused publishes.    *)
(***************************************************************************)
EXTENDS Playback, TLAPS

Reports   == [video : VideoStates, audio : AudioStates]
AudLabels == {"none", "check", "connecting", "playing", "ended", "backoff", "leaving", "exited"}

Types ==
    /\ pc \in Labels /\ waitNext \in {"top", "reconnect"} /\ aud \in AudLabels
    /\ failed \in BOOLEAN /\ stop \in BOOLEAN
    /\ attempts \in Nat /\ recoveries \in Nat /\ faults \in Nat /\ cur \in Reports

\* A session ends for a failure it reports or for the stop flag.
EndInv == pc \in {"ending", "join"} => failed \/ stop

\* Every reconnect is counted since the last frame at the latest, and none is
\* begun once the count is spent.
CountInv ==
    /\ recoveries <= attempts /\ attempts <= RecoverAttempts
    /\ pc = "reconnect" \/ (pc = "wait" /\ waitNext = "reconnect") =>
           attempts < RecoverAttempts

IInv == Types /\ EndInv /\ CountInv /\ WorkerJoined /\ HonestDocument

Valid == published = NoDocument \/ RecordValid(published)
Playing == {"running", "unsupported-format", "starting"}
--------------------------------------------------------------------------------
(* Reports.                                                                *)

LEMMA Limit == RecoverAttempts \in Nat /\ RecoverAttempts > 0
  BY PlaybackAssumption

\* Every pair of states makes a document the dashboard accepts.
LEMMA DocumentValid ==
    ASSUME NEW c \in Reports
    PROVE  RecordValid(Document(c)) /\ Document(c).video = c.video
  <1>1. c.video \in VideoStates /\ c.audio \in AudioStates
    BY DEF Reports
  <1> QED  BY <1>1 DEF RecordValid, Document, VideoStates, AudioStates

\* publish(): the document of the report, or the old one and a fault counted.
LEMMA PublishDoc ==
    ASSUME faults \in Nat, Valid, NEW c \in Reports, Publish(c)
    PROVE  /\ cur' = c /\ faults' \in Nat /\ Valid'
           /\ faults' = 0 => published' = Document(c)
  BY DocumentValid DEF Publish, Valid

LEMMA ReportDoc ==
    ASSUME Types, Valid, NEW v \in VideoStates, NEW a \in AudioStates
    PROVE  /\ Video(v) => /\ cur' \in Reports /\ cur'.video = v /\ cur'.audio = cur.audio
                          /\ faults' \in Nat /\ Valid'
           /\ Audio(a) => /\ cur' \in Reports /\ cur'.audio = a /\ cur'.video = cur.video
                          /\ faults' \in Nat /\ Valid'
           /\ Heartbeat => cur' = cur /\ faults' \in Nat /\ Valid'
           /\ Stopped => /\ cur' \in Reports /\ cur'.audio = "stopped" /\ cur'.video = "stopped"
                         /\ faults' \in Nat /\ Valid'
                         /\ faults' = 0 => published'.state = "stopped"
  <1>1. cur \in Reports /\ faults \in Nat
    BY DEF Types
  <1>2. /\ [cur EXCEPT !.video = v] \in Reports
        /\ [cur EXCEPT !.video = v].video = v /\ [cur EXCEPT !.video = v].audio = cur.audio
    BY <1>1 DEF Reports
  <1>3. /\ [cur EXCEPT !.audio = a] \in Reports
        /\ [cur EXCEPT !.audio = a].audio = a /\ [cur EXCEPT !.audio = a].video = cur.video
    BY <1>1 DEF Reports
  <1>4. [video |-> "stopped", audio |-> "stopped"] \in Reports
    BY DEF Reports, VideoStates, AudioStates
  <1>5. Document([video |-> "stopped", audio |-> "stopped"]).state = "stopped"
    BY DEF Document
  <1>6. Video(v) => /\ cur' \in Reports /\ cur'.video = v /\ cur'.audio = cur.audio
                    /\ faults' \in Nat /\ Valid'
    BY <1>1, <1>2, PublishDoc DEF Video
  <1>7. Audio(a) => /\ cur' \in Reports /\ cur'.audio = a /\ cur'.video = cur.video
                    /\ faults' \in Nat /\ Valid'
    BY <1>1, <1>3, PublishDoc DEF Audio
  <1>8. Heartbeat => cur' = cur /\ faults' \in Nat /\ Valid'
    BY <1>1, PublishDoc DEF Heartbeat
  <1>9. Stopped => /\ cur' \in Reports /\ cur'.audio = "stopped" /\ cur'.video = "stopped"
                   /\ faults' \in Nat /\ Valid'
                   /\ faults' = 0 => published'.state = "stopped"
    BY <1>1, <1>4, <1>5, PublishDoc DEF Stopped
  <1> QED  BY <1>6, <1>7, <1>8, <1>9

LEMMA SameDoc ==
    ASSUME Types, Valid, UNCHANGED doc
    PROVE  cur' = cur /\ cur' \in Reports /\ faults' = faults /\ faults' \in Nat
           /\ published' = published /\ Valid'
  BY DEF doc, Types, Valid, RecordValid

LEMMA Parts ==
    ASSUME IInv
    PROVE  /\ Types /\ EndInv /\ CountInv /\ Valid
           /\ BetweenSessions => /\ aud = "none" /\ cur.audio = "stopped"
                                 /\ cur.video \in Playing => stop \/ pc = "failed"
           /\ pc = "done" /\ faults = 0 => published.state = "stopped"
  BY DEF IInv, Valid, WorkerJoined, HonestDocument, Playing
--------------------------------------------------------------------------------
(* Steps.                                                                  *)

\* A step that stays inside a session owes the outer loop nothing.
LEMMA InSession ==
    ASSUME Types', EndInv', CountInv', Valid', ~BetweenSessions'
    PROVE  IInv'
  <1>1. pc' # "done"
    BY DEF BetweenSessions, SessionLoop
  <1> QED  BY <1>1 DEF IInv, Valid, WorkerJoined, HonestDocument

\* One that ends between sessions has joined the worker and says so.
LEMMA OutOfSession ==
    ASSUME Types', EndInv', CountInv', Valid', aud' = "none", cur'.audio = "stopped",
           cur'.video \in Playing => stop' \/ pc' = "failed",
           pc' = "done" /\ faults' = 0 => published'.state = "stopped"
    PROVE  IInv'
  BY DEF IInv, Valid, WorkerJoined, HonestDocument, Playing

\* Steps of the outer loop and of the set-up.
LEMMA OuterKeeps ==
    ASSUME IInv, BetweenSessions, aud' = aud, stop' = stop, failed' \in BOOLEAN,
           UNCHANGED <<attempts, recoveries>>, waitNext' \in {"top", waitNext},
           pc' \in {"wait", "final", "top", "resolve", "open", "connect", "failed"},
           pc' = "wait" => waitNext' = "top",
           \/ UNCHANGED doc /\ (pc = "failed" => stop)
           \/ pc' = "wait" /\ \E v \in VideoStates \ Playing : Video(v)
    PROVE  IInv'
  <1>1. Types /\ EndInv /\ CountInv /\ Valid /\ aud = "none" /\ cur.audio = "stopped"
        /\ (cur.video \in Playing => stop \/ pc = "failed")
    BY Parts
  <1>2. /\ cur' \in Reports /\ faults' \in Nat /\ Valid' /\ cur'.audio = "stopped"
        /\ cur'.video \in Playing => stop
    <2>1. CASE UNCHANGED doc /\ (pc = "failed" => stop)
      BY <1>1, <2>1, SameDoc
    <2>2. CASE \E v \in VideoStates \ Playing : Video(v)
      <3>1. PICK v \in VideoStates \ Playing : Video(v)
        BY <2>2
      <3>2. "stopped" \in AudioStates /\ v \in VideoStates
        BY DEF AudioStates
      <3>3. /\ cur' \in Reports /\ cur'.video = v /\ cur'.audio = cur.audio
            /\ faults' \in Nat /\ Valid'
        BY <1>1, <3>1, <3>2, ReportDoc
      <3> QED  BY <1>1, <3>1, <3>3
    <2> QED  BY <2>1, <2>2
  <1>3. Types'
    BY <1>1, <1>2 DEF Types, Labels
  <1>4. EndInv' /\ CountInv'
    BY <1>1 DEF EndInv, CountInv
  <1> QED  BY <1>1, <1>2, <1>3, <1>4, OutOfSession

LEMMA Between ==
    /\ pc \in {"top", "resolve", "open", "connect", "failed", "final", "done"} => BetweenSessions
    /\ pc = "wait" /\ waitNext = "top" => BetweenSessions
    /\ pc \in SessionLoop \cup {"spawn", "ending", "join"} => ~BetweenSessions
    /\ pc = "wait" /\ waitNext = "reconnect" => ~BetweenSessions
  BY DEF BetweenSessions, SessionLoop

LEMMA BetweenNext ==
    /\ pc' \in SessionLoop \cup {"spawn", "ending", "join"} => ~BetweenSessions'
    /\ pc' = "wait" /\ waitNext' = "reconnect" => ~BetweenSessions'
  BY DEF BetweenSessions, SessionLoop

LEMMA Waiters ==
    {"waiting-for-discovery", "waiting-for-hdmi", "retrying"} \subseteq VideoStates \ Playing
  BY DEF VideoStates, Playing

LEMMA TopKeeps ==
    ASSUME IInv, TopStopped \/ NoTransport \/ NoDisplay \/ BeginSession \/ ReportFailure
    PROVE  IInv'
  <1>1. BetweenSessions /\ failed \in BOOLEAN /\ waitNext \in {"top", "reconnect"}
    BY Parts, Between
       DEF TopStopped, NoTransport, NoDisplay, BeginSession, ReportFailure, Types
  <1>2. /\ aud' = aud /\ stop' = stop /\ failed' \in BOOLEAN /\ UNCHANGED <<attempts, recoveries>>
        /\ waitNext' \in {"top", waitNext} /\ (pc' = "wait" => waitNext' = "top")
        /\ pc' \in {"wait", "final", "top", "resolve"}
    BY <1>1 DEF TopStopped, NoTransport, NoDisplay, BeginSession, ReportFailure, WaitThen,
                waits, session, link, worker, env
  <1>3. \/ UNCHANGED doc /\ (pc = "failed" => stop)
        \/ pc' = "wait" /\ \E v \in VideoStates \ Playing : Video(v)
    BY Waiters DEF TopStopped, NoTransport, NoDisplay, BeginSession, ReportFailure, WaitThen
  <1> QED  BY <1>1, <1>2, <1>3, OuterKeeps

LEMMA FinishKeeps ==
    ASSUME IInv, Finish
    PROVE  IInv'
  <1>1. /\ Types /\ Valid /\ aud = "none" /\ CountInv
    BY Parts, Between DEF Finish
  <1>2. /\ UNCHANGED <<waitNext, failed, stop, aud, attempts, recoveries>> /\ pc' = "done"
    BY DEF Finish, waits, session, link, worker, env
  <1>3. /\ cur' \in Reports /\ cur'.audio = "stopped" /\ cur'.video = "stopped"
        /\ faults' \in Nat /\ Valid' /\ (faults' = 0 => published'.state = "stopped")
    BY <1>1, ReportDoc DEF Finish, VideoStates, AudioStates
  <1>4. Types'
    BY <1>1, <1>2, <1>3 DEF Types, Labels
  <1>5. EndInv' /\ CountInv'
    BY <1>1, <1>2 DEF EndInv, CountInv
  <1> QED  BY <1>1, <1>2, <1>3, <1>4, <1>5, OutOfSession DEF Playing

\* wait_with_heartbeat(), inside a session or between two.
LEMMA WaitKeeps ==
    ASSUME IInv, WaitBeat \/ WaitOver
    PROVE  IInv'
  <1>1. /\ Types /\ Valid /\ CountInv /\ pc = "wait"
        /\ UNCHANGED <<waitNext, failed, stop, aud, attempts, recoveries>>
        /\ pc' = "wait" \/ pc' = waitNext
        /\ Heartbeat \/ UNCHANGED doc
    BY Parts DEF WaitBeat, WaitOver, waits, session, link, worker, env
  <1>2. cur' = cur /\ faults' \in Nat /\ Valid'
    BY <1>1, ReportDoc, SameDoc DEF VideoStates, AudioStates
  <1>3. Types'
    BY <1>1, <1>2 DEF Types, Labels, SessionLoop
  <1>4. EndInv' /\ CountInv'
    BY <1>1 DEF EndInv, CountInv, Types
  <1>5. CASE waitNext = "top"
    <2>1. aud = "none" /\ cur.audio = "stopped" /\ (cur.video \in Playing => stop)
      BY <1>1, <1>5, Parts, Between
    <2> QED  BY <1>1, <1>2, <1>3, <1>4, <1>5, <2>1, OutOfSession
  <1>6. CASE waitNext = "reconnect"
    <2>1. ~BetweenSessions'
      BY <1>1, <1>6, BetweenNext DEF SessionLoop
    <2> QED  BY <1>2, <1>3, <1>4, <2>1, InSession
  <1> QED  BY <1>1, <1>5, <1>6 DEF Types

LEMMA SetUpKeeps ==
    ASSUME IInv, NEW here \in {"resolve", "open", "connect"}, NEW next \in {"open", "connect", "spawn"},
           SetUp(here, next)
    PROVE  IInv'
  <1>1. /\ pc = here /\ pc' \in {next, "failed"} /\ UNCHANGED doc
        /\ UNCHANGED <<waitNext, failed, stop, aud, attempts, recoveries>>
    BY DEF SetUp, waits, link, worker, env
  <1>2. BetweenSessions /\ Types /\ Valid /\ CountInv
    BY <1>1, Parts, Between
  <1>3. CASE pc' \in {"open", "connect", "failed"}
    BY <1>1, <1>2, <1>3, OuterKeeps DEF Types
  <1>4. CASE pc' = "spawn"
    <2>1. Types' /\ Valid'
      BY <1>1, <1>2, <1>4, SameDoc DEF Types, Labels
    <2>2. EndInv' /\ CountInv'
      BY <1>1, <1>2, <1>4 DEF EndInv, CountInv
    <2>3. ~BetweenSessions'
      BY <1>4, BetweenNext
    <2> QED  BY <2>1, <2>2, <2>3, InSession
  <1> QED  BY <1>1, <1>3, <1>4
--------------------------------------------------------------------------------
(* Steps inside a session.                                                 *)

\* What the two threads may do to the document.
Reported ==
    \/ UNCHANGED doc \/ Heartbeat
    \/ \E v \in VideoStates : Video(v)
    \/ \E a \in AudioStates : Audio(a)

LEMMA ReportedDoc ==
    ASSUME Types, Valid, Reported
    PROVE  cur' \in Reports /\ faults' \in Nat /\ Valid'
  <1>1. "stopped" \in VideoStates /\ "stopped" \in AudioStates /\ cur \in Reports
    BY DEF VideoStates, AudioStates, Types
  <1>2. CASE UNCHANGED doc
    BY <1>2, SameDoc
  <1>3. CASE Heartbeat
    BY <1>1, <1>3, ReportDoc
  <1>4. CASE \E v \in VideoStates : Video(v)
    BY <1>1, <1>4, ReportDoc
  <1>5. CASE \E a \in AudioStates : Audio(a)
    BY <1>1, <1>5, ReportDoc
  <1> QED  BY <1>2, <1>3, <1>4, <1>5 DEF Reported

\* The flow of a session: the labels of its loop, its wait, its two ends.
Inside == pc \in SessionLoop \cup {"spawn", "ending", "join"} \/ (pc = "wait" /\ waitNext = "reconnect")

Bounds ==
    /\ attempts \in Nat /\ recoveries \in Nat
    /\ recoveries <= attempts /\ attempts <= RecoverAttempts

LEMMA SessionKeeps ==
    ASSUME IInv, Reported, Inside', Bounds', EndInv',
           pc' = "reconnect" \/ pc' = "wait" => attempts' < RecoverAttempts,
           waitNext' \in {"top", "reconnect"}, aud' \in AudLabels,
           failed' \in BOOLEAN, stop' \in BOOLEAN
    PROVE  IInv'
  <1>1. Types /\ Valid
    BY Parts
  <1>2. cur' \in Reports /\ faults' \in Nat /\ Valid'
    BY <1>1, ReportedDoc
  <1>3. pc' \in Labels
    BY DEF Inside, Labels, SessionLoop
  <1>4. Types'
    BY <1>2, <1>3 DEF Types, Bounds
  <1>5. CountInv'
    BY DEF CountInv, Bounds
  <1>6. ~BetweenSessions'
    BY BetweenNext DEF Inside
  <1> QED  BY <1>2, <1>4, <1>5, <1>6, InSession

\* The frame of a step of the main thread inside the session.
LEMMA MainKeeps ==
    ASSUME IInv, Reported, UNCHANGED <<waitNext, stop>>, aud' \in AudLabels, failed' \in BOOLEAN,
           Bounds', pc' \in SessionLoop \cup {"spawn", "ending", "join"}, pc' # "reconnect",
           pc' \in {"ending", "join"} => failed' \/ stop
    PROVE  IInv'
  <1>1. Types
    BY Parts
  <1>2. waitNext' \in {"top", "reconnect"} /\ stop' \in BOOLEAN
    BY <1>1 DEF Types
  <1>3. Inside' /\ EndInv'
    BY DEF Inside, EndInv
  <1>4. pc' # "wait"
    BY DEF SessionLoop
  <1> QED  BY <1>2, <1>3, <1>4, SessionKeeps

\* What IInv says of a session's variables.
LEMMA SessionTypes ==
    ASSUME IInv
    PROVE  /\ Bounds /\ failed \in BOOLEAN /\ stop \in BOOLEAN /\ aud \in AudLabels
           /\ pc \in {"ending", "join"} => failed \/ stop
           /\ pc = "reconnect" => attempts < RecoverAttempts
  BY Parts DEF Types, CountInv, EndInv, Bounds

LEMMA StartKeeps ==
    ASSUME IInv, StartWorker \/ StartLoop
    PROVE  IInv'
  <1>1. CASE StartWorker
    <2>1. /\ pc' = "spawn" /\ aud' \in AudLabels
          /\ UNCHANGED <<waitNext, stop, failed, attempts, recoveries>>
      BY <1>1 DEF StartWorker, waits, session, link, env, AudLabels
    <2>2. Reported
      BY <1>1 DEF StartWorker, Reported, AudioStates
    <2> QED  BY <2>1, <2>2, SessionTypes, MainKeeps DEF Bounds
  <1>2. CASE StartLoop
    <2>1. /\ pc' = "loop" /\ attempts' = 0 /\ recoveries' = 0
          /\ UNCHANGED <<waitNext, stop, failed, aud>>
      BY <1>2 DEF StartLoop, waits, worker, env
    <2>2. Reported
      BY <1>2 DEF StartLoop, Reported, VideoStates
    <2>3. Bounds'
      BY <2>1, Limit DEF Bounds
    <2> QED  BY <2>1, <2>2, <2>3, SessionTypes, MainKeeps DEF SessionLoop
  <1> QED  BY <1>1, <1>2

LEMMA LoopKeeps ==
    ASSUME IInv, LoopHead
    PROVE  IInv'
  <1>1. /\ UNCHANGED <<waitNext, stop, aud, attempts, recoveries>> /\ UNCHANGED doc
        /\ \/ stop /\ pc' = "ending" /\ failed' = failed
           \/ pc' = "ending" /\ failed' = TRUE
           \/ pc' = "drain" /\ failed' = failed
    BY DEF LoopHead, waits, worker, env
  <1>2. Reported /\ Bounds'
    BY <1>1, SessionTypes DEF Reported, Bounds
  <1> QED  BY <1>1, <1>2, SessionTypes, MainKeeps DEF SessionLoop

\* A frame clears the count; an error leaves it, whatever arrived before it.
LEMMA DrainKeeps ==
    ASSUME IInv, DrainFrame \/ DrainNothing \/ DrainLost
    PROVE  IInv'
  <1>1. /\ UNCHANGED <<waitNext, stop, aud, failed>> /\ pc' \in {"present", "idle", "lost"}
        /\ \/ attempts' = 0 /\ recoveries' = 0
           \/ attempts' = attempts /\ recoveries' = recoveries
           \/ attempts' = attempts /\ recoveries' = 0
    BY DEF DrainFrame, DrainNothing, DrainLost, waits, session, link, worker, env
  <1>2. Reported
    BY DEF DrainFrame, DrainNothing, DrainLost, Reported
  <1>3. Bounds'
    BY <1>1, SessionTypes, Limit DEF Bounds
  <1> QED  BY <1>1, <1>2, <1>3, SessionTypes, MainKeeps DEF SessionLoop

\* A reconnect is begun only while the count has room.
LEMMA LostKeeps ==
    ASSUME IInv, Lost
    PROVE  IInv'
  <1>1. UNCHANGED <<stop, aud, attempts, recoveries>>
    BY DEF Lost, session, link, worker, env
  <1>2. Bounds'
    BY <1>1, SessionTypes DEF Bounds
  <1>3. CASE attempts >= RecoverAttempts /\ pc' = "ending" /\ failed' = TRUE /\ UNCHANGED <<waits, doc>>
    <2>1. Reported /\ UNCHANGED waitNext
      BY <1>3 DEF Reported, doc, waits
    <2> QED  BY <1>1, <1>2, <1>3, <2>1, SessionTypes, MainKeeps
  <1>4. CASE attempts < RecoverAttempts /\ Video("retrying") /\ WaitThen(Backoff, "reconnect")
             /\ UNCHANGED failed
    <2>1. Reported
      BY <1>4 DEF Reported, VideoStates
    <2>2. pc' = "wait" /\ waitNext' = "reconnect" /\ failed' = failed
      BY <1>4 DEF WaitThen
    <2>3. Inside' /\ EndInv'
      BY <2>2 DEF Inside, EndInv
    <2> QED  BY <1>1, <1>2, <1>4, <2>1, <2>2, <2>3, SessionTypes, SessionKeeps
  <1> QED  BY <1>3, <1>4 DEF Lost

\* Every reconnect is counted, the one that succeeds too.
LEMMA ReconnectKeeps ==
    ASSUME IInv, Reconnect
    PROVE  IInv'
  <1>1. /\ UNCHANGED <<waitNext, stop, aud>> /\ UNCHANGED doc /\ pc = "reconnect"
        /\ \/ /\ stop /\ pc' = "ending" /\ failed' = failed
              /\ attempts' = attempts /\ recoveries' = recoveries
           \/ /\ recoveries' = recoveries + 1 /\ attempts' = attempts + 1
              /\ \/ pc' = "loop" /\ failed' = failed
                 \/ pc' = "ending" /\ failed' = TRUE
    BY DEF Reconnect, Reconnected, waits, worker, env
  <1>2. Bounds'
    BY <1>1, SessionTypes, Limit DEF Bounds
  <1>3. Reported
    BY <1>1 DEF Reported
  <1> QED  BY <1>1, <1>2, <1>3, SessionTypes, MainKeeps DEF SessionLoop

LEMMA PresentKeeps ==
    ASSUME IInv, Present \/ Idle \/ Ending
    PROVE  IInv'
  <1>1. /\ UNCHANGED <<waitNext, stop, aud, attempts, recoveries>>
        /\ \/ pc' = "loop" /\ failed' = failed
           \/ pc' = "ending" /\ failed' = TRUE
           \/ pc = "ending" /\ pc' = "join" /\ failed' = failed
    BY DEF Present, Idle, Ending, waits, session, link, worker, env
  <1>2. Reported
    BY DEF Present, Idle, Ending, Reported, VideoStates
  <1>3. Bounds'
    BY <1>1, SessionTypes DEF Bounds
  <1>4. /\ failed \in BOOLEAN /\ aud \in AudLabels
        /\ pc \in {"ending", "join"} => failed \/ stop
    BY SessionTypes
  <1>5. failed' \in BOOLEAN /\ aud' \in AudLabels
    BY <1>1, <1>4
  <1>6. pc' \in {"ending", "join"} => failed' \/ stop
    BY <1>1, <1>4, Zenon
  <1> QED  BY <1>1, <1>2, <1>3, <1>5, <1>6, MainKeeps DEF SessionLoop

\* The worker is joined and its state reported before the outer loop goes on;
\* a session that ends without a failure ends for the stop flag.
LEMMA JoinKeeps ==
    ASSUME IInv, Join
    PROVE  IInv'
  <1>1. /\ UNCHANGED <<waitNext, stop, failed>> /\ aud' = "none" /\ pc = "join"
        /\ attempts' = 0 /\ recoveries' = 0 /\ Audio("stopped")
        /\ pc' = IF failed THEN "failed" ELSE "top"
    BY DEF Join, LocalsDropped, waits, env
  <1>2. Types /\ Valid /\ (failed \/ stop)
    BY <1>1, Parts DEF EndInv
  <1>3. cur' \in Reports /\ cur'.audio = "stopped" /\ faults' \in Nat /\ Valid'
    BY <1>1, <1>2, ReportDoc DEF VideoStates, AudioStates
  <1>4. (pc' = "failed" /\ failed) \/ (pc' = "top" /\ stop')
    BY <1>1, <1>2
  <1>5. Types'
    BY <1>1, <1>2, <1>3, <1>4 DEF Types, Labels, AudLabels
  <1>6. EndInv' /\ CountInv'
    BY <1>1, <1>4, Limit DEF EndInv, CountInv
  <1> QED  BY <1>1, <1>3, <1>4, <1>5, <1>6, OutOfSession

\* A worker that takes a step is the worker of a session that is still on.
LEMMA WorkerKeeps ==
    ASSUME IInv, Worker
    PROVE  IInv'
  <1>1. /\ UNCHANGED <<pc, waitNext, stop, failed, attempts, recoveries>>
        /\ aud # "none" /\ aud' \in AudLabels
    BY DEF Worker, AudioCheck, AudioConnect, AudioTurn, AudioEnded, AudioBackoff, AudioLeaves,
           AudioStep, waits, session, link, env, AudLabels
  <1>2. Reported
    BY DEF Worker, AudioCheck, AudioConnect, AudioTurn, AudioEnded, AudioBackoff, AudioLeaves,
           Reported, AudioStates
  <1>3. ~BetweenSessions /\ Types /\ CountInv /\ EndInv
    BY <1>1, Parts
  <1>4. Inside /\ Inside'
    BY <1>1, <1>3 DEF BetweenSessions, Inside
  <1>5. Bounds' /\ EndInv'
    BY <1>1, <1>3, SessionTypes DEF Bounds, EndInv
  <1>6. pc' = "reconnect" \/ pc' = "wait" => attempts' < RecoverAttempts
    BY <1>1, <1>3, <1>4 DEF CountInv, Inside, SessionLoop
  <1>7. waitNext' \in {"top", "reconnect"} /\ failed' \in BOOLEAN /\ stop' \in BOOLEAN
    BY <1>1, <1>3 DEF Types
  <1> QED  BY <1>1, <1>2, <1>4, <1>5, <1>6, <1>7, SessionKeeps

\* The clock, the signal and the connector leave both threads where they are.
LEMMA WorldKeeps ==
    ASSUME IInv, Tick \/ World \/ Done \/ UNCHANGED vars
    PROVE  IInv'
  <1>1. /\ UNCHANGED <<pc, waitNext, failed, aud, attempts, recoveries>> /\ UNCHANGED doc
        /\ stop' = stop \/ stop' = TRUE
    BY DEF Tick, World, Signal, Hotplug, Done, vars, waits, session, link, worker, env, doc
  <1>2. /\ Types /\ EndInv /\ CountInv /\ Valid
        /\ BetweenSessions => /\ aud = "none" /\ cur.audio = "stopped"
                              /\ cur.video \in Playing => stop \/ pc = "failed"
        /\ pc = "done" /\ faults = 0 => published.state = "stopped"
    BY Parts
  <1>3. cur' = cur /\ cur' \in Reports /\ faults' = faults /\ published' = published /\ Valid'
    BY <1>1, <1>2, SameDoc
  <1>4. Types'
    BY <1>1, <1>2, <1>3 DEF Types
  <1>5. EndInv' /\ CountInv'
    BY <1>1, <1>2 DEF EndInv, CountInv
  <1>6. BetweenSessions' = BetweenSessions
    BY <1>1 DEF BetweenSessions
  <1>7. CASE BetweenSessions
    BY <1>1, <1>2, <1>3, <1>4, <1>5, <1>7, OutOfSession
  <1>8. CASE ~BetweenSessions
    BY <1>3, <1>4, <1>5, <1>6, <1>8, InSession
  <1> QED  BY <1>7, <1>8
--------------------------------------------------------------------------------
(* The invariant and what it gives.                                        *)

LEMMA InitIInv == Init => IInv
  <1> SUFFICES ASSUME Init PROVE IInv
    OBVIOUS
  <1>1. Types
    BY DEF Init, Types, Labels, AudLabels, Reports, VideoStates, AudioStates
  <1>2. EndInv /\ CountInv
    BY Limit DEF Init, EndInv, CountInv
  <1>3. WorkerJoined /\ HonestDocument
    BY DEF Init, WorkerJoined, HonestDocument
  <1> QED  BY <1>1, <1>2, <1>3 DEF IInv

LEMMA NextIInv == IInv /\ [Next]_vars => IInv'
  <1> SUFFICES ASSUME IInv, [Next]_vars PROVE IInv'
    OBVIOUS
  <1>1. CASE TopStopped \/ NoTransport \/ NoDisplay \/ BeginSession \/ ReportFailure
    BY <1>1, TopKeeps
  <1>2. CASE Finish
    BY <1>2, FinishKeeps
  <1>3. CASE WaitBeat \/ WaitOver
    BY <1>3, WaitKeeps
  <1>4. CASE SetUp("resolve", "open") \/ SetUp("open", "connect") \/ SetUp("connect", "spawn")
    BY <1>4, SetUpKeeps
  <1>5. CASE StartWorker \/ StartLoop
    BY <1>5, StartKeeps
  <1>6. CASE LoopHead
    BY <1>6, LoopKeeps
  <1>7. CASE DrainFrame \/ DrainNothing \/ DrainLost
    BY <1>7, DrainKeeps
  <1>8. CASE Lost \/ Reconnect
    BY <1>8, LostKeeps, ReconnectKeeps
  <1>9. CASE Present \/ Idle \/ Ending
    BY <1>9, PresentKeeps
  <1>10. CASE Join
    BY <1>10, JoinKeeps
  <1>11. CASE Worker
    BY <1>11, WorkerKeeps
  <1>12. CASE Tick \/ World \/ Done \/ UNCHANGED vars
    BY <1>12, WorldKeeps
  <1> QED  BY <1>1, <1>2, <1>3, <1>4, <1>5, <1>6, <1>7, <1>8, <1>9, <1>10, <1>11, <1>12
           DEF Next, Main

\* The inductive invariant of run(), session() and audio_loop(): a session
\* that is ending has a failure or the stop flag to show for it, reconnects
\* since the last frame never outnumber the count that limits them, and the
\* worker and the document are in step with where the main thread is.
THEOREM PlaybackInvariant == Spec => []IInv
  BY InitIInv, NextIInv, PTL DEF Spec

\* Whatever the sender, the display, the signal and the status directory do:
\* AudioWorker is joined before session() returns, so one worker at a time
\* holds the device; PlaybackStatus never claims a picture or sound between
\* two sessions and publishes only documents the dashboard accepts; and the
\* reconnects of session() without a frame stay within RECOVER_ATTEMPTS.
THEOREM SessionsAreSound == Spec => []SessionSound
  <1>1. IInv => SessionSound
    <2> SUFFICES ASSUME IInv PROVE SessionSound
      OBVIOUS
    <2>1. RecoveryBounded
      BY Limit, SessionTypes DEF Bounds, RecoveryBounded
    <2> QED  BY <2>1 DEF IInv, SessionSound
  <1> QED  BY <1>1, PlaybackInvariant, PTL
================================================================================
