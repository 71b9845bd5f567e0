-------------------------------- MODULE Playback --------------------------------
(***************************************************************************)
(* The playback supervisor, crates/omt-receiver/src/play.rs: the outer     *)
(* retry loop and the video session of the main thread, the audio worker,  *)
(* and the status document both report through (PlaybackStatus of          *)
(* crates/omt-receiver-core/src/status.rs).                                *)
(*                                                                         *)
(* Around them: the stop flag a signal raises, the HDMI connector and the  *)
(* discovery transport, which come and go, and a sender that answers,      *)
(* refuses, drops or says nothing at every turn.  A document is the pair   *)
(* of states it reports; its detail text is left out.  A tick is the       *)
(* RECEIVE_SLICE_MS / HEARTBEAT_MS of 500 ms.                              *)
(***************************************************************************)
EXTENDS Naturals, Sequences

CONSTANTS
    Direct,           \* the target is an omt:// address
    Sysfs,            \* what /sys/class/drm may show: per connector, its id or 0
    RecoverAttempts,  \* RECOVER_ATTEMPTS
    Grace,            \* MEDIA_GRACE_MS, in ticks
    Stall,            \* MEDIA_STALL_MS, in ticks
    Faults            \* bound: publishes that the status directory refuses

ASSUME PlaybackAssumption ==
    /\ Direct \in BOOLEAN /\ Faults \in Nat
    /\ RecoverAttempts \in Nat \ {0}
    /\ Grace \in Nat /\ Stall \in Nat
    /\ Sysfs \subseteq Seq(Nat) /\ Sysfs # {}

VARIABLES
    pc,          \* the main thread
    bound,       \* the connector the session drives
    waitLeft,    \* ticks left of wait_with_heartbeat()
    waitNext,    \* where the main thread goes after it
    connected,   \* the video channel is open
    attempts,    \* in-session reconnects since the count was last cleared
    graceLeft,   \* ticks until last_frame
    stallLeft,   \* ticks until stall_at
    checkDue,    \* next_connector_check has come
    sliceOver,   \* the current drain has waited out its slice
    hasFrame,    \* the video queue holds a frame
    failed,      \* session()'s failure is Some
    aud,         \* the audio worker's thread
    active,      \* AudioContext.active
    stop,        \* the stop flag
    hdmi,        \* sysfs: the candidates in order, their ids, 0 for none connected
    cur,         \* Inner.current: the states as last reported
    published,   \* Inner.published: the document on disk
    faults,      \* publishes refused so far
    recoveries   \* history: reconnect attempts since a video frame was queued

link    == <<connected, attempts, graceLeft, stallLeft, checkDue, sliceOver,
             hasFrame, recoveries>>
session == <<bound, link>>
waits   == <<waitLeft, waitNext>>
worker  == <<aud, active>>
env     == <<stop, hdmi>>
doc     == <<cur, published, faults>>
vars    == <<pc, waits, session, failed, worker, env, doc>>

VideoStates == {"running", "waiting-for-discovery", "waiting-for-hdmi", "retrying",
                "unsupported-format", "starting", "stopped"}
AudioStates == {"stopped", "running", "failed"}
NoDocument  == [state |-> "none", video |-> "none", audio |-> "none"]

\* The session has its display, its socket and (once started) its worker.
SessionLoop == {"loop", "drain", "lost", "reconnect", "present", "idle"}
Labels == SessionLoop \cup {"top", "wait", "resolve", "open", "connect", "spawn",
                            "ending", "join", "failed", "final", "done"}

NoHdmi == [card |-> 0, id |-> 0]

\* find() and named_in(): the first candidate that is connected and has an id.
Candidates == {c \in DOMAIN hdmi : hdmi[c] # 0}
Found ==
    IF Candidates = {} THEN NoHdmi
    ELSE LET c == CHOOSE c \in Candidates : \A d \in Candidates : c <= d
         IN  [card |-> c, id |-> hdmi[c]]

IsConnected_AnyId(h) == h.card \in Candidates

\* is_connected(): plugged in, and still the connector it was.
IsConnected(h) == h.card \in Candidates /\ hdmi[h.card] = h.id

Init ==
    /\ pc = "top" /\ bound = NoHdmi /\ waitLeft = 0 /\ waitNext = "top"
    /\ connected = FALSE /\ attempts = 0 /\ graceLeft = 0 /\ stallLeft = 0
    /\ checkDue = TRUE /\ sliceOver = FALSE /\ hasFrame = FALSE /\ failed = FALSE
    /\ recoveries = 0
    /\ aud = "none" /\ active = FALSE
    /\ stop = FALSE /\ hdmi \in Sysfs
    /\ cur = [video |-> "stopped", audio |-> "stopped"]
    /\ published = NoDocument /\ faults = 0
--------------------------------------------------------------------------------
(* PlaybackStatus: every report runs under the lock and ends in publish(). *)

\* The document of a report: degraded is a picture whose sound failed.
Document(c) ==
    [state |-> IF c.video = "running" /\ c.audio = "failed" THEN "degraded" ELSE c.video,
     video |-> c.video, audio |-> c.audio]

\* status_record_valid() of the Web interface: the states it knows, and only
\* the combinations that make sense.
RecordValid(d) ==
    /\ d.state \in VideoStates \cup {"degraded"}
    /\ d.video \in VideoStates /\ d.audio \in AudioStates
    /\ d.state = "degraded" => d.video = "running" /\ d.audio = "failed"
    /\ d.state = "running" => d.video = "running" /\ d.audio # "failed"
    /\ d.state \in {"running", "degraded"} \/ d.state = d.video

\* publish() and replace(): the document is renamed into place whole, or a
\* write that fails leaves the old one.  An unchanged document is rewritten
\* only for its time, which is left out.
Publish(c) ==
    /\ cur' = c
    /\ \/ published' = Document(c) /\ UNCHANGED faults
       \/ faults < Faults /\ faults' = faults + 1 /\ UNCHANGED published

Video(state) == Publish([cur EXCEPT !.video = state])
Audio(state) == Publish([cur EXCEPT !.audio = state])
Heartbeat    == Publish(cur)
Stopped      == Publish([video |-> "stopped", audio |-> "stopped"])
--------------------------------------------------------------------------------
(* run(): the outer loop.                                                  *)

WaitThen(ticks, next) == pc' = "wait" /\ waitLeft' = ticks /\ waitNext' = next

TopStopped ==
    /\ pc = "top" /\ stop
    /\ pc' = "final"
    /\ UNCHANGED <<waits, session, failed, worker, env, doc>>

\* No discovery transport; one may come and go between two looks.
NoTransport ==
    /\ pc = "top" /\ ~stop /\ ~Direct
    /\ Video("waiting-for-discovery") /\ WaitThen(2, "top")
    /\ UNCHANGED <<session, failed, worker, env>>

NoDisplay ==
    /\ pc = "top" /\ ~stop /\ Found = NoHdmi
    /\ Video("waiting-for-hdmi") /\ WaitThen(2, "top")
    /\ UNCHANGED <<session, failed, worker, env>>

BeginSession ==
    /\ pc = "top" /\ ~stop /\ Found # NoHdmi
    /\ pc' = "resolve" /\ failed' = FALSE /\ bound' = Found
    /\ UNCHANGED <<waits, link, worker, env, doc>>

\* session() returned a failure: report it and back off, unless stopping.
ReportFailure ==
    /\ pc = "failed"
    /\ \/ ~stop /\ Video("retrying") /\ WaitThen(1, "top")
       \/ stop /\ pc' = "top" /\ UNCHANGED <<waits, doc>>
    /\ UNCHANGED <<session, failed, worker, env>>

Finish ==
    /\ pc = "final"
    /\ Stopped /\ pc' = "done"
    /\ UNCHANGED <<waits, session, failed, worker, env>>

\* wait_with_heartbeat(): short sleeps, a heartbeat after each, until the
\* deadline or the stop flag.
WaitBeat ==
    /\ pc = "wait" /\ ~stop /\ waitLeft > 0
    /\ waitLeft' = waitLeft - 1
    /\ Heartbeat
    /\ UNCHANGED <<pc, waitNext, session, failed, worker, env>>

WaitOver ==
    /\ pc = "wait" /\ (stop \/ waitLeft = 0)
    /\ pc' = waitNext
    /\ UNCHANGED <<waits, session, failed, worker, env, doc>>
--------------------------------------------------------------------------------
(* session(): from resolving the target to the loop.                       *)

\* resolve(), VideoOutput::open() and the first connect(), in that order; any
\* of them may fail, and then nothing has been started.
SetUp(here, next) ==
    /\ pc = here
    /\ \/ pc' = next /\ UNCHANGED bound
       \/ pc' = "failed" /\ bound' = NoHdmi
    /\ UNCHANGED <<waits, link, failed, worker, env, doc>>

\* AudioWorker::start(): the thread, or a report that there is none, which
\* leaves nothing to join.
StartWorker ==
    /\ pc = "spawn" /\ aud = "none"
    /\ active' = TRUE
    /\ \/ aud' = "check" /\ UNCHANGED doc
       \/ aud' = "exited" /\ Audio("failed")
    /\ UNCHANGED <<pc, waits, session, failed, env>>

Rearm == graceLeft' = Grace /\ stallLeft' = Stall

StartLoop ==
    /\ pc = "spawn" /\ aud # "none"
    /\ Video("starting") /\ pc' = "loop"
    /\ Rearm /\ connected' = TRUE /\ attempts' = 0 /\ checkDue' = TRUE
    /\ hasFrame' = FALSE /\ recoveries' = 0
    /\ UNCHANGED <<waits, bound, sliceOver, failed, worker, env>>

\* The head of the loop: the stop flag, and every 500 ms the connector.
LoopHead ==
    /\ pc = "loop"
    /\ \/ stop /\ pc' = "ending" /\ UNCHANGED <<checkDue, sliceOver, failed>>
       \/ /\ ~stop /\ checkDue /\ ~IsConnected(bound)
          /\ pc' = "ending" /\ failed' = TRUE /\ UNCHANGED <<checkDue, sliceOver>>
       \/ /\ ~stop /\ (checkDue => IsConnected(bound))
          /\ pc' = "drain" /\ checkDue' = FALSE /\ sliceOver' = FALSE
          /\ UNCHANGED failed
    /\ UNCHANGED <<waits, bound, connected, attempts, graceLeft, stallLeft, hasFrame,
                   recoveries, worker, env, doc>>
--------------------------------------------------------------------------------
(* drain(), and what the session does with its answer.                     *)

\* A frame of the wanted kind: it clears the count and pushes back both
\* deadlines.
DrainFrame ==
    /\ pc = "drain" /\ connected
    /\ hasFrame' = TRUE /\ attempts' = 0 /\ recoveries' = 0 /\ Rearm
    /\ pc' = "present"
    /\ UNCHANGED <<waits, bound, connected, checkDue, sliceOver, failed, worker, env, doc>>

\* Ok(false): the slice ended, a signal cut it short, only metadata came, or
\* a frame left from before the reconnect is handed on at once.
DrainNothing ==
    /\ pc = "drain" /\ connected
    /\ pc' = IF hasFrame THEN "present" ELSE "idle"
    /\ UNCHANGED <<waits, session, failed, worker, env, doc>>

\* The socket ended, after delivering a frame in this very drain or not.  The
\* error is all drain() returns, so neither count nor deadlines move.
DrainLost ==
    /\ pc = "drain"
    /\ \/ UNCHANGED <<hasFrame, recoveries>>
       \/ connected /\ hasFrame' = TRUE /\ recoveries' = 0
    /\ connected' = FALSE /\ pc' = "lost"
    /\ Heartbeat
    /\ UNCHANGED <<waits, bound, attempts, graceLeft, stallLeft, checkDue, sliceOver,
                   failed, worker, env>>

\* 250 ms of backoff per attempt already made, in ticks rounded up.
Backoff == (attempts + 1) \div 2

\* Out of attempts, or report and back off before the next one.
Lost ==
    /\ pc = "lost"
    /\ \/ /\ attempts >= RecoverAttempts
          /\ pc' = "ending" /\ failed' = TRUE
          /\ UNCHANGED <<waits, doc>>
       \/ /\ attempts < RecoverAttempts
          /\ Video("retrying") /\ WaitThen(Backoff, "reconnect")
          /\ UNCHANGED failed
    /\ UNCHANGED <<session, worker, env>>

Reconnected_ClearsCount ==
    /\ connected' = TRUE /\ pc' = "loop" /\ attempts' = 0 /\ Rearm
    /\ UNCHANGED failed

\* The reconnect holds: the session goes on with fresh deadlines.
Reconnected ==
    /\ connected' = TRUE /\ pc' = "loop" /\ attempts' = attempts + 1 /\ Rearm
    /\ UNCHANGED failed

Reconnect ==
    /\ pc = "reconnect"
    /\ \/ /\ stop /\ pc' = "ending"
          /\ UNCHANGED <<connected, attempts, graceLeft, stallLeft, failed, recoveries>>
       \/ /\ ~stop /\ recoveries' = recoveries + 1
          /\ \/ Reconnected
             \/ /\ attempts' = attempts + 1
                /\ UNCHANGED <<connected, graceLeft, stallLeft>>
                /\ \/ attempts + 1 >= RecoverAttempts /\ pc' = "ending" /\ failed' = TRUE
                   \/ attempts + 1 < RecoverAttempts /\ pc' = "loop" /\ UNCHANGED failed
    /\ UNCHANGED <<waits, bound, checkDue, sliceOver, hasFrame, worker, env, doc>>

\* The queued frame is presented; only a failure of the output ends the session.
Present ==
    /\ pc = "present"
    /\ hasFrame' = FALSE
    /\ \/ Video("running") /\ pc' = "loop" /\ UNCHANGED failed
       \/ Video("unsupported-format") /\ pc' = "loop" /\ UNCHANGED failed
       \/ pc' = "ending" /\ failed' = TRUE /\ UNCHANGED doc
    /\ UNCHANGED <<waits, bound, connected, attempts, graceLeft, stallLeft, checkDue,
                   sliceOver, recoveries, worker, env>>

\* Nothing to present: the stall deadline, the grace deadline, or neither.
Idle ==
    /\ pc = "idle"
    /\ \/ stallLeft = 0 /\ pc' = "ending" /\ failed' = TRUE /\ UNCHANGED doc
       \/ /\ stallLeft > 0 /\ graceLeft = 0
          /\ pc' = "loop" /\ Video("retrying") /\ UNCHANGED failed
       \/ /\ stallLeft > 0 /\ graceLeft > 0
          /\ pc' = "loop" /\ UNCHANGED <<failed, doc>>
    /\ UNCHANGED <<waits, session, worker, env>>

\* The end of the session: the worker is told to go ...
Ending ==
    /\ pc = "ending"
    /\ active' = FALSE /\ pc' = "join"
    /\ UNCHANGED <<waits, session, failed, aud, env, doc>>

\* session() returns: its channel, its queue and its counters go with it.
LocalsDropped ==
    /\ bound' = NoHdmi /\ connected' = FALSE /\ attempts' = 0 /\ hasFrame' = FALSE
    /\ graceLeft' = 0 /\ stallLeft' = 0 /\ checkDue' = TRUE /\ sliceOver' = FALSE
    /\ recoveries' = 0

\* ... and joined before anything else is said or started.
Join ==
    /\ pc = "join" /\ aud = "exited"
    /\ aud' = "none" /\ Audio("stopped")
    /\ LocalsDropped
    /\ pc' = IF failed THEN "failed" ELSE "top"
    /\ UNCHANGED <<waits, failed, active, env>>
--------------------------------------------------------------------------------
(* The audio worker: audio_loop() around audio_session().                  *)

Wanted == active /\ ~stop

AudioStep(here, next) ==
    /\ aud = here /\ aud' = next
    /\ UNCHANGED <<pc, waits, session, failed, active, env>>

\* The loop's condition, then the connect of a new audio session.
AudioCheck ==
    \/ Wanted /\ AudioStep("check", "connecting") /\ UNCHANGED doc
    \/ ~Wanted /\ AudioStep("check", "leaving") /\ UNCHANGED doc

AudioConnect ==
    \/ AudioStep("connecting", "playing") /\ UNCHANGED doc
    \/ AudioStep("connecting", "ended") /\ UNCHANGED doc

\* One turn of the session: frames written, nothing, or its end (the socket,
\* the sink, the stall deadline, or a worker no longer wanted).
AudioTurn ==
    \/ Wanted /\ AudioStep("playing", "playing") /\ Audio("running")
    \/ AudioStep("playing", "ended") /\ UNCHANGED doc

\* audio_loop() looks again before it calls the end a failure.
AudioEnded ==
    \/ Wanted /\ AudioStep("ended", "backoff") /\ Audio("failed")
    \/ ~Wanted /\ AudioStep("ended", "leaving") /\ UNCHANGED doc

\* The backoff returns without a last report when the worker is let go.
AudioBackoff ==
    \/ Wanted /\ AudioStep("backoff", "check") /\ UNCHANGED doc
    \/ ~Wanted /\ AudioStep("backoff", "exited") /\ UNCHANGED doc

AudioLeaves == AudioStep("leaving", "exited") /\ Audio("stopped")

Worker ==
    \/ AudioCheck \/ AudioConnect \/ AudioTurn \/ AudioEnded
    \/ AudioBackoff \/ AudioLeaves
--------------------------------------------------------------------------------
(* The clock and the world.                                                *)

Less(n) == IF n > 0 THEN n - 1 ELSE 0

\* One slice of a drain passes with nothing complete on the socket.
Tick ==
    /\ pc = "drain" /\ connected /\ ~sliceOver
    /\ sliceOver' = TRUE /\ checkDue' = TRUE
    /\ graceLeft' = Less(graceLeft) /\ stallLeft' = Less(stallLeft)
    /\ UNCHANGED <<pc, waits, bound, connected, attempts, hasFrame, recoveries, failed,
                   worker, env, cur, published, faults>>

Signal ==
    /\ ~stop /\ stop' = TRUE
    /\ UNCHANGED <<pc, waits, session, failed, worker, hdmi, doc>>

Hotplug ==
    /\ hdmi' \in Sysfs \ {hdmi}
    /\ UNCHANGED <<pc, waits, session, failed, worker, stop, doc>>

Main ==
    \/ TopStopped \/ NoTransport \/ NoDisplay \/ BeginSession
    \/ ReportFailure \/ Finish \/ WaitBeat \/ WaitOver
    \/ SetUp("resolve", "open") \/ SetUp("open", "connect")
    \/ SetUp("connect", "spawn")
    \/ StartWorker \/ StartLoop \/ LoopHead
    \/ DrainFrame \/ DrainNothing \/ DrainLost \/ Lost \/ Reconnect
    \/ Present \/ Idle \/ Ending \/ Join

World == Signal \/ Hotplug

Done == pc = "done" /\ UNCHANGED vars

Next == Main \/ Worker \/ Tick \/ World \/ Done

\* Both threads keep running.  A slice that finds nothing on the socket takes
\* its time (strong fairness on Tick: an empty drain that returns early comes
\* round again), and an audio session that is no longer wanted ends, because
\* every wait in it is bounded.
Spec ==
    /\ Init /\ [][Next]_vars
    /\ WF_vars(Main) /\ WF_vars(Worker) /\ SF_vars(Tick)
--------------------------------------------------------------------------------
\* Between sessions: the outer loop, its waits, and the set-up of the next.
BetweenSessions ==
    /\ pc \notin SessionLoop \cup {"spawn", "ending", "join"}
    /\ ~(pc = "wait" /\ waitNext = "reconnect")

\* One worker at a time, and only inside a session: it is joined before the
\* outer loop can report, wait or start another, so two workers never hold
\* the ALSA device together, and none reports after the final "stopped".
WorkerJoined == BetweenSessions => aud = "none"

\* The document never claims sound or a picture no session is producing: once
\* a session is over its audio state is stopped, and a playing video state is
\* about to be replaced or the receiver is stopping.  Every document is one
\* the dashboard accepts, and the last one says stopped unless a write failed.
HonestDocument ==
    /\ BetweenSessions =>
           /\ cur.audio = "stopped"
           /\ cur.video \in {"running", "unsupported-format", "starting"} =>
                  stop \/ pc = "failed"
    /\ published = NoDocument \/ RecordValid(published)
    /\ pc = "done" /\ faults = 0 => published.state = "stopped"

\* In-session recovery is bounded by frames received, not by connects that
\* succeed: a sender that accepts and drops cannot keep the session alive.
RecoveryBounded == recoveries <= RecoverAttempts

\* A raised stop flag ends the program from anywhere: a wait, a reconnect, a
\* worker in its backoff.
StopObeyed == stop ~> pc = "done"

\* A session that stays up is one that keeps getting frames: a socket that
\* stays open and delivers nothing is torn down and its target resolved again.
SilenceEndsSession == []<>(pc = "present") \/ []<>BetweenSessions

\* The session drives a connector that is unplugged, or renumbered and now
\* another display's.
DrivesLost == bound # NoHdmi /\ hdmi[bound.card] # bound.id

\* No session goes on driving a display that is not there: it ends, and while
\* none is plugged in no other begins.
UnplugEndsSession == []<>~DrivesLost

\* What a session owes whatever the sender, the display and the status
\* directory do: one worker, an honest document, bounded recovery.
SessionSound == WorkerJoined /\ HonestDocument /\ RecoveryBounded

\* And what ends it: the stop flag, silence, the display.
SessionsEnd == StopObeyed /\ SilenceEndsSession /\ UnplugEndsSession
================================================================================
