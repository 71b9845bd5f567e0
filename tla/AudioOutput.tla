------------------------------ MODULE AudioOutput ------------------------------
(***************************************************************************)
(* One audio session of the audio worker: audio_session() of               *)
(* crates/omt-receiver/src/play.rs and the ALSA output of audio.rs that it *)
(* feeds.  The worker receives frames, tops the device's ring up to its    *)
(* target, stands silence in for what the sender dropped, and keeps a      *)
(* playing device from running dry when nothing arrives.                   *)
(*                                                                         *)
(* The unit is one period of the device, which a running device takes in   *)
(* one tick and which AUDIO_FEED_MS makes the worker's wake interval.  The *)
(* worker's own work takes no time, except where it is late (see Slips).   *)
(***************************************************************************)
EXTENDS Naturals, Sequences

CONSTANTS
    Capacity,      \* BUFFER_US: what the ring holds
    Start,         \* PREFILL_MS: the device's start threshold
    Target,        \* RING_TARGET_MS: how full the worker keeps the ring
    Low,           \* KEEPALIVE_MS: below this a starved ring gets silence
    Backlog,       \* AUDIO_BACKLOG_NS: what may wait in the queue
    ConcealMax,    \* CONCEAL_MAX_MS: the longest hole that is concealed
    WriteTimeout,  \* WRITE_TIMEOUT_MS: how long a write may make no progress
    MediaStall,    \* MEDIA_STALL_MS: how long a silent socket is tolerated
    Slice,         \* RECEIVE_SLICE_MS: the wait while nothing plays
    Durations,     \* durations of the frames a sender may send
    Holes,         \* holes it may leave in its timeline
    MaxDrop,       \* bound: frames a live sender drops in a row
    Slips          \* bound: ticks the worker is late for its wakes, in all

\* The levels of the code: a ring kept alive has two periods to lose, and a
\* sender's longest run of drops with one more; a device starts, and is kept, more
\* than such a run above that.
ASSUME AudioOutputAssumption ==
    /\ {Capacity, Start, Target, Low, Backlog, ConcealMax, WriteTimeout,
        MediaStall, Slice, MaxDrop, Slips} \subseteq Nat
    /\ 0 < Start /\ Start <= Target /\ Target <= Capacity
    /\ 3 <= Low /\ MaxDrop + 1 < Low /\ Low + MaxDrop < Start /\ Low + MaxDrop + 1 < Target
    /\ MaxDrop <= ConcealMax /\ 2 <= Backlog
    /\ Durations \subseteq Nat \ {0} /\ Holes \subseteq Nat

VARIABLES
    dev,        \* the PCM: closed, prepared, running, xrun (dry) or gone
    ring,       \* periods it holds
    frozen,     \* it runs and takes nothing any more
    playing,    \* Open.playing
    anchored,   \* AudioOutput.next_timestamp is known
    queue,      \* frames received and not yet written
    got,        \* the current drain() has received a frame
    waits,      \* whether it waits: not yet, for one frame, or no more
    phase,      \* where the worker is; or why its session ended
    job,        \* what the current play() call writes
    left,       \* periods it has still to write
    then,       \* the frame to write once its silence is written
    stalled,    \* ticks since the current play() last made progress
    wake,       \* ticks to wait_until
    stallAt,    \* ticks to stall_at
    sending,    \* the sender has not stopped for good
    live,       \* it owes one frame, or a drop, a tick, and is prompt
    due, gap,   \* a live sender's frame is due; frames dropped before it
    slips,      \* ticks the worker has been late for its wakes
    fits        \* the frame being written fitted in the ring when it was taken

device == <<dev, ring, frozen>>
output == <<playing, anchored>>
call   == <<job, left, then, stalled, fits>>
sender == <<sending, live, due, gap>>
audioVars == <<device, output, queue, got, waits, phase, call, wake, stallAt, sender, slips>>

\* A session begins on a connected channel.
AudioInit ==
    /\ dev = "closed" /\ ring = 0 /\ frozen = FALSE
    /\ playing = FALSE /\ anchored = FALSE
    /\ queue = <<>> /\ got = FALSE /\ waits = "no" /\ phase = "wait"
    /\ job = "frame" /\ left = 0 /\ then = 0 /\ stalled = 0
    /\ fits = TRUE /\ wake = Slice /\ stallAt = MediaStall
    /\ sending = TRUE /\ live \in BOOLEAN /\ due = FALSE /\ gap = 0
    /\ slips = 0
--------------------------------------------------------------------------------
Less(n)   == IF n > 0 THEN n - 1 ELSE 0
Least(m, n)  == IF m < n THEN m ELSE n
Beyond(m, n) == IF m > n THEN m - n ELSE 0

Broken == dev \in {"xrun", "gone"}
Free   == Capacity - ring

\* What `used < n` may answer: a running device may have moved into its next
\* period when it is asked.
Below(n) == {ring < n} \cup IF dev = "running" THEN {ring <= n} ELSE {}

Ends(reason) == phase' = reason

\* The queue after push(): see Handoff.
Shed(s) ==
    LET ival    == s[Len(s)].dur
        left_(k) == SubSeq(s, k + 1, Len(s))
        fine(k) == Len(s) - k <= 1 \/ ival * (Len(s) - k) <= Backlog
    IN  left_(CHOOSE k \in 0 .. Len(s) : fine(k) /\ \A j \in 0 .. k - 1 : ~fine(j))
--------------------------------------------------------------------------------
(* drain(): take what is ready, wait for one frame until the wake that is   *)
(* due, and take what is ready then.                                       *)

\* A frame arrives; a shed backlog breaks continuity with the timeline.
Receive(d, h) ==
    /\ phase = "wait" /\ sending
    /\ live => due /\ h = gap /\ d = 1
    /\ LET all  == Append(queue, [dur |-> d, hole |-> h])
           kept == Shed(all)
       IN  /\ queue' = kept
           /\ anchored' = (anchored /\ kept = all)
    /\ got' = TRUE /\ waits' = IF waits = "yes" THEN "over" ELSE waits
    /\ due' = FALSE /\ gap' = 0
    /\ UNCHANGED <<device, playing, phase, call, wake, stallAt,
                   sending, live, slips>>

Drained ==
    /\ phase = "wait" /\ (wake = 0 \/ (got /\ waits # "yes"))
    /\ stallAt' = IF got THEN MediaStall ELSE stallAt
    /\ phase' = "feed" /\ got' = FALSE /\ waits' = "no"
    /\ UNCHANGED <<device, output, queue, call, wake, sender, slips>>

ChannelLost ==
    /\ phase = "wait" /\ Ends("closed")
    /\ UNCHANGED <<device, output, queue, got, waits, call, wake, stallAt, sender, slips>>
--------------------------------------------------------------------------------
(* The feeding loop: room(), write(), keep_alive().                        *)

\* An underrun or a suspend reads as room: the write path recovers it.
Room == IF dev = "closed" \/ Broken THEN {TRUE} ELSE Below(Target)

\* missing_frames(): a hole of at least three quarters of this frame.
Missing(f) == IF f.hole > ConcealMax \/ 4 * f.hole < 3 * f.dur THEN 0 ELSE f.hole

Silence_None(f) == 0

\* silence_frames(): what the ring can take alongside the frame.
Silence(f) ==
    IF anchored /\ ~Broken THEN Least(Missing(f), Beyond(Free, f.dur)) ELSE 0

\* A play() call begins; a call is over.
Play(what, n) == job' = what /\ left' = n /\ stalled' = 0

CallOver == Play("frame", 0) /\ then' = 0 /\ fits' = TRUE

\* Pcm: opened, its ring and its thresholds set, empty; dropped and closed.
Opened == dev' = "prepared" /\ ring' = 0 /\ frozen' = FALSE
Closed == dev' = "closed" /\ ring' = 0 /\ frozen' = FALSE

\* write() on the open device.
Write ==
    /\ phase = "feed" /\ TRUE \in Room
    /\ queue # <<>> /\ dev # "closed"
    /\ LET f == Head(queue)
       IN  /\ IF Silence(f) > 0 THEN Play("silence", Silence(f)) ELSE Play("frame", f.dur)
           /\ then' = f.dur
           /\ fits' = (f.dur <= Free)
    /\ queue' = Tail(queue) /\ phase' = "write"
    /\ UNCHANGED <<device, output, got, waits, wake, stallAt, sender, slips>>

\* The device may have to be opened for the next frame: it is the first, or
\* its format is another, which a live sender never changes.
Stale == dev = "closed" \/ ~live

\* write() after configure().
Reopen ==
    /\ phase = "feed" /\ TRUE \in Room
    /\ queue # <<>> /\ Stale
    /\ Play("frame", Head(queue).dur) /\ then' = Head(queue).dur
    /\ Opened
    /\ playing' = FALSE /\ anchored' = FALSE
    /\ queue' = Tail(queue) /\ phase' = "write" /\ fits' = (Head(queue).dur <= Capacity)
    /\ UNCHANGED <<got, waits, wake, stallAt, sender, slips>>

ReopenFails ==
    /\ phase = "feed" /\ TRUE \in Room
    /\ queue # <<>> /\ Stale
    /\ queue' = Tail(queue) /\ Ends("unopened")
    /\ Closed
    /\ playing' = FALSE /\ anchored' = FALSE
    /\ UNCHANGED <<got, waits, call, wake, stallAt, sender, slips>>

\* No room, or nothing to write: keep_alive() next.
Fed ==
    /\ phase = "feed" /\ (queue = <<>> \/ FALSE \in Room)
    /\ phase' = "keep"
    /\ UNCHANGED <<device, output, queue, got, waits, call, wake, stallAt, sender, slips>>

\* Below the keep-alive level, one period of silence.
KeepAlive ==
    /\ phase = "keep" /\ playing /\ ~Broken /\ TRUE \in Below(Low)
    /\ Play("keep", 1) /\ phase' = "write"
    /\ UNCHANGED <<device, playing, anchored, queue, got, waits, then, fits, wake, stallAt,
                   sender, slips>>

KeepNothing ==
    /\ phase = "keep" /\ (~playing \/ Broken \/ FALSE \in Below(Low))
    /\ phase' = "loop"
    /\ UNCHANGED <<device, output, queue, got, waits, call, wake, stallAt, sender, slips>>
--------------------------------------------------------------------------------
(* play(): write until the device has taken everything.                    *)

Writing == phase = "write" /\ left > 0
Blocked == Writing /\ ~Broken /\ ring = Capacity

Accepted == Least(left, Free)

\* The device takes what fits, and starts at its threshold.
WriteSome ==
    /\ Writing /\ ~Broken /\ ring < Capacity
    /\ LET n == Accepted
       IN  /\ ring' = ring + n /\ left' = left - n
           /\ dev' = IF ring + n >= Start THEN "running" ELSE dev
    /\ stalled' = 0
    /\ UNCHANGED <<frozen, output, queue, got, waits, phase, job, then, fits,
                   wake, stallAt, sender, slips>>

\* stall(): the time since progress, over as many waits as it takes.
Stalled(n) == n + 1

Unavailable_AtOnce ==
    /\ Blocked
    /\ Ends("unavailable")
    /\ UNCHANGED <<device, output, queue, got, waits, call, wake, stallAt, sender, slips>>

\* A full ring is the device asking for time, up to the write timeout.
Unavailable ==
    /\ Blocked /\ stalled > WriteTimeout
    /\ Ends("unavailable")
    /\ UNCHANGED <<device, output, queue, got, waits, call, wake, stallAt, sender, slips>>

Recover_NoStall ==
    /\ Writing /\ Broken
    /\ dev' = "prepared" /\ ring' = 0
    /\ playing' = FALSE
    /\ UNCHANGED <<frozen, anchored, queue, got, waits, phase, job,
                   left, then, stalled, fits, wake, stallAt, sender, slips>>

\* snd_pcm_recover() prepares the device again, empty, and stall() waits for it,
\* unless the call has made no progress for the write timeout.
Recover ==
    /\ Writing /\ Broken
    /\ dev' = "prepared" /\ ring' = 0
    /\ playing' = FALSE
    /\ phase' = IF stalled > WriteTimeout THEN "unavailable" ELSE "rest"
    /\ UNCHANGED <<frozen, anchored, queue, got, waits, job,
                   left, then, stalled, fits, wake, stallAt, sender, slips>>

\* The wait for the recovered device is over: it is written to again.
Rested ==
    /\ phase = "rest" /\ phase' = "write"
    /\ UNCHANGED <<device, output, queue, got, waits, call, wake, stallAt, sender, slips>>

RecoverFails ==
    /\ Writing /\ Broken /\ Ends("lost")
    /\ UNCHANGED <<device, output, queue, got, waits, call, wake, stallAt, sender, slips>>

\* Whether the ring is still short of the start threshold.
Short == IF Broken THEN {TRUE} ELSE Below(Start)

\* The call is done: is the device playing, and what comes after it?
PlayDone ==
    /\ phase = "write" /\ left = 0
    /\ \E short \in Short : playing' = (playing \/ ~short)
    /\ \/ /\ job = "silence" /\ Play("frame", then)
          /\ UNCHANGED <<anchored, phase, then, fits>>
       \/ /\ job = "frame" /\ phase' = "feed" /\ anchored' = TRUE
          /\ CallOver
       \/ /\ job = "keep" /\ phase' = "loop" /\ CallOver
          /\ UNCHANGED anchored
    /\ UNCHANGED <<device, queue, got, waits, wake, stallAt, sender, slips>>
--------------------------------------------------------------------------------
(* The end of a turn.                                                      *)

TimedOut == queue = <<>> /\ stallAt = 0

\* Nothing for too long, and nothing waiting to be played.
Silent ==
    /\ phase = "loop" /\ TimedOut
    /\ Ends("silent")
    /\ UNCHANGED <<device, output, queue, got, waits, call, wake, stallAt, sender, slips>>

\* wanted() is FALSE: the video session ends, or the program stops.
Unwanted ==
    /\ phase = "loop" /\ ~TimedOut
    /\ Ends("unwanted")
    /\ UNCHANGED <<device, output, queue, got, waits, call, wake, stallAt, sender, slips>>

\* A playing device is fed on time even when nothing arrives.
Turn ==
    /\ phase = "loop" /\ ~TimedOut
    /\ wake' = IF queue = <<>> /\ ~playing THEN Slice ELSE 1
    /\ phase' = "wait"
    /\ UNCHANGED <<device, output, queue, got, waits, call, stallAt, sender, slips>>

Ended == phase \in {"closed", "unopened", "lost", "unavailable", "silent", "unwanted"}

\* audio_loop() tries again after its backoff.
NewSession ==
    /\ Ended /\ phase' = "wait" /\ wake' = Slice /\ stallAt' = MediaStall
    /\ Closed
    /\ playing' = FALSE /\ anchored' = FALSE
    /\ queue' = <<>> /\ got' = FALSE /\ waits' = "no"
    /\ CallOver /\ sending' = TRUE
    /\ UNCHANGED <<live, due, gap, slips>>

Worker ==
    \/ Drained \/ Write \/ Reopen \/ Fed \/ KeepAlive \/ KeepNothing
    \/ WriteSome \/ Unavailable \/ (Recover \/ RecoverFails \/ Rested) \/ PlayDone
    \/ Silent \/ Turn \/ NewSession
--------------------------------------------------------------------------------
(* The sender, the device and the clock.                                   *)

\* A live sender drops a frame; its timeline goes on.
Drop ==
    /\ live /\ due /\ gap < MaxDrop
    /\ gap' = gap + 1 /\ due' = FALSE
    /\ UNCHANGED <<device, output, queue, got, waits, phase, call, wake, stallAt, sending, live, slips>>

StopSending ==
    /\ ~live /\ sending /\ sending' = FALSE
    /\ UNCHANGED <<device, output, queue, got, waits, phase, call, wake, stallAt, live, due, gap, slips>>

\* The sink takes nothing any more, or the device goes or is suspended.
Freeze ==
    /\ ~live /\ dev = "running" /\ ~frozen /\ frozen' = TRUE
    /\ UNCHANGED <<dev, ring, output, queue, got, waits, phase, call, wake, stallAt,
                   sender, slips>>

Vanish ==
    /\ ~live /\ dev \in {"prepared", "running"} /\ ~frozen
    /\ dev' = "gone"
    /\ UNCHANGED <<ring, frozen, output, queue, got, waits, phase, call, wake, stallAt,
                   sender, slips>>

\* A running device takes a period; the last one leaves it dry.
Tick ==
    /\ \/ phase = "wait" /\ wake > 0 /\ (live => waits # "over")
       \/ phase = "wait" /\ wake = 0 /\ ~live /\ slips < Slips
       \/ (Blocked \/ phase = "rest") /\ stalled <= WriteTimeout
    /\ live => ~due
    /\ due' = live
    /\ IF dev = "running" /\ ~frozen
       THEN ring' = ring - 1 /\ dev' = IF ring = 1 THEN "xrun" ELSE dev
       ELSE UNCHANGED <<ring, dev>>
    /\ wake' = Less(wake) /\ stallAt' = Less(stallAt)
    /\ waits' = IF phase = "wait" /\ waits = "no" THEN "yes" ELSE waits
    /\ stalled' = IF phase = "wait" THEN stalled ELSE Stalled(stalled)
    /\ slips' = IF phase = "wait" /\ wake = 0 THEN slips + 1 ELSE slips
    /\ UNCHANGED <<frozen, output, queue, got, phase, job, left, then, fits, sending, live, gap>>

AudioNext ==
    \/ Worker \/ ReopenFails \/ Unwanted \/ ChannelLost
    \/ (\E d \in Durations, h \in Holes : Receive(d, h))
    \/ Drop \/ StopSending \/ Freeze \/ Vanish \/ Tick

\* The worker's thread runs and time passes.  Nothing else is owed.
AudioSpec ==
    AudioInit /\ [][AudioNext]_audioVars /\ WF_audioVars(Worker) /\ SF_audioVars(Tick)
--------------------------------------------------------------------------------
\* The keep-alive level absorbs a wake that the decoder delays by a period: a
\* device that is known to play runs dry only under a worker that has lost more
\* than one period to late wakes, whatever the network does and whatever is
\* concealed.
UnderrunMeansLate == dev = "xrun" /\ playing => slips > 1

\* The silence written for a hole never makes a frame wait that had room.
ConcealFits == Blocked => ~fits

\* The session gives a sink up only when it takes nothing, or fails again after a
\* recovery: back-pressure is not a fault.
LiveSinkKept ==
    [][phase # "unavailable" /\ Ends("unavailable") => frozen \/ Broken]_audioVars

\* Frames that a live sender drops are made up for: the cushion does not bleed
\* away, so that a device which has started, known to play or not, is never dry
\* and never below the keep-alive level once it has been fed.
CushionKept ==
    live => dev # "xrun" /\ (phase = "keep" /\ dev = "running" => ring >= Low)

\* The ring is neither starved nor blocked by what the worker puts in it.
RingKept == UnderrunMeansLate /\ ConcealFits /\ CushionKept

\* A write returns, whatever the device does, however often it fails again.
WriteReturns == (phase \in {"write", "rest"}) ~> (phase \notin {"write", "rest"})

\* A sender that stops ends the session, unless the sink froze.
SilenceEnds == ~sending ~> (Ended \/ frozen)

\* The worker is never held: not by the device, and not by a silent sender.
WorkerFree == WriteReturns /\ SilenceEnds
================================================================================
