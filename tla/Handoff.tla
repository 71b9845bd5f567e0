-------------------------------- MODULE Handoff --------------------------------
(***************************************************************************)
(* The frame handoff of crates/omt-receiver/src/handoff.rs: the Queue      *)
(* between the socket and the display or the audio device, fed by          *)
(* accept_frame() of play.rs and emptied by the session or audio worker.   *)
(*                                                                         *)
(* A frame is its number in the queue's history, its size and, for audio,  *)
(* its duration.  A spare payload buffer is only counted.                  *)
(***************************************************************************)
EXTENDS Naturals, SequencesExt

CONSTANTS
    ByteCap,       \* byte_cap, in units
    Backlog,       \* AUDIO_BACKLOG_NS, in units
    SpareBuffers,  \* SPARE_BUFFERS
    Sizes,         \* frame sizes a sender may choose
    Durations,     \* audio frame durations; 0 is one audio_interval_ns refuses
    MaxFrames      \* bound: frames the queue stores

ASSUME HandoffAssumption ==
    /\ ByteCap \in Nat /\ Backlog \in Nat /\ SpareBuffers \in Nat
    /\ Sizes \subseteq Nat /\ Durations \subseteq Nat /\ MaxFrames \in Nat

VARIABLES
    kind,       \* Queue.kind: "Video" or "Audio"
    frames,     \* Queue.frames, oldest first
    bytes,      \* Queue.bytes
    interval,   \* Queue.interval_ns; 0 is None
    spares,     \* Queue.spares: how many buffers are kept for reuse
    dropped,    \* the caller's count of what push() returned
    stored,     \* history: frames the queue has taken
    consumed,   \* history: frames the consumer has taken
    lastTaken   \* history: the number of the last frame consumed

queueVars == <<kind, frames, bytes, interval, spares, dropped, stored, consumed, lastTaken>>

QueueInit ==
    /\ kind \in {"Video", "Audio"}
    /\ frames = <<>> /\ bytes = 0 /\ interval = 0 /\ spares = 0 /\ dropped = 0
    /\ stored = 0 /\ consumed = 0 /\ lastTaken = 0
--------------------------------------------------------------------------------
\* What `bytes` counts: the payloads of the queue's frames.
Size(s) ==
    LET sum[i \in 0 .. Len(s)] == IF i = 0 THEN 0 ELSE sum[i - 1] + s[i].len
    IN  sum[Len(s)]

\* recycle(): at most SPARE_BUFFERS buffers are kept.
Recycled(n) == IF n > SpareBuffers THEN SpareBuffers ELSE n

\* take_spare(): the channel reads its next frame into a recycled buffer.
Spared(n) == IF n > 0 THEN n - 1 ELSE 0

\* audio_backlog_exceeded(): n frames, all taken to last as long as the latest.
BacklogExceeded(n, ival) == ival > 0 /\ n > 1 /\ ival * n > Backlog

TooMuch(s, ival) ==
    Len(s) > 1 /\ (Size(s) > ByteCap \/ BacklogExceeded(Len(s), ival))

\* push()'s last loop: the oldest frames go until the rest is not too much.
Trimmed_Newest(s, ival) ==
    LET left(k) == SubSeq(s, 1, Len(s) - k)
    IN  left(CHOOSE k \in 0 .. Len(s) :
                 /\ ~TooMuch(left(k), ival)
                 /\ \A j \in 0 .. k - 1 : TooMuch(left(j), ival))

Trimmed(s, ival) ==
    LET left(k) == SubSeq(s, k + 1, Len(s))
    IN  left(CHOOSE k \in 0 .. Len(s) :
                 /\ ~TooMuch(left(k), ival)
                 /\ \A j \in 0 .. k - 1 : TooMuch(left(j), ival))

\* Video is a single slot: whatever waits is dropped for the newer frame.
Waiting(s) == IF kind = "Video" THEN <<>> ELSE s

\* What push() adds to the caller's count: the replaced and the trimmed.
Lost(kept, after) == (Len(frames) - Len(kept)) + (Len(kept) + 1 - Len(after))

\* push() of a frame of the wanted kind.
Push(len, dur) ==
    /\ stored < MaxFrames /\ len <= ByteCap
    /\ LET ival  == IF kind = "Audio" /\ dur > 0 THEN dur ELSE interval
           kept  == Waiting(frames)
           frame == [id |-> stored + 1, len |-> len, dur |-> dur]
           after == Trimmed(Append(kept, frame), ival)
       IN  /\ frames' = after /\ bytes' = Size(after) /\ interval' = ival
           /\ dropped' = dropped + Lost(kept, after)
           /\ spares' = Recycled(Spared(spares) + Lost(kept, after))
    /\ stored' = stored + 1
    /\ UNCHANGED <<kind, consumed, lastTaken>>

\* No memory for one more entry: the frame is recycled, after the video slot
\* was emptied for it and the audio interval learnt from it.
PushFails(dur) ==
    /\ frames' = Waiting(frames) /\ bytes' = Size(Waiting(frames))
    /\ interval' = IF kind = "Audio" /\ dur > 0 THEN dur ELSE interval
    /\ dropped' = dropped + (Len(frames) - Len(Waiting(frames)))
    /\ spares' = Recycled(Spared(spares) + Len(frames) - Len(Waiting(frames)) + 1)
    /\ UNCHANGED <<kind, stored, consumed, lastTaken>>

\* A frame above the cap is recycled and nothing else changes.
PushRefused ==
    /\ \E len \in Sizes : len > ByteCap
    /\ spares' = Recycled(Spared(spares) + 1)
    /\ UNCHANGED <<kind, frames, bytes, interval, dropped, stored, consumed, lastTaken>>

\* pop().
Pop ==
    /\ frames # <<>>
    /\ frames' = Tail(frames) /\ bytes' = bytes - Head(frames).len
    /\ consumed' = consumed + 1 /\ lastTaken' = Head(frames).id
    /\ UNCHANGED <<kind, interval, dropped, stored>>

\* recycle() of the buffer of a frame the consumer is done with.
Recycle == spares' = Recycled(spares + 1)

\* accept_frame(): only an audio frame has a duration.
Accept ==
    \/ \E len \in Sizes, dur \in Durations :
           (kind = "Video" => dur = 0) /\ Push(len, dur)
    \/ \E dur \in Durations : (kind = "Video" => dur = 0) /\ PushFails(dur)
    \/ PushRefused

\* The audio loop: a frame is written to the device and its buffer recycled.
Consume == kind = "Audio" /\ Pop /\ Recycle
--------------------------------------------------------------------------------
\* The queue holds the newest frames without a gap, so only the oldest were
\* ever shed, a consumer sees frames in the order they arrived, and the video
\* slot holds the newest there is.
Contiguous ==
    /\ \A i \in 1 .. Len(frames) : frames[i].id = stored - Len(frames) + i
    /\ frames # <<>> => Head(frames).id > lastTaken

\* No frame goes missing without being counted: the session's detail and the
\* audio worker's forget_timeline() both hang on this count.
NoSilentLoss == stored = consumed + dropped + Len(frames)

\* However frames come, the byte count is what the queue holds and within the
\* cap; video never waits behind video; and queued audio, measured as push()
\* measures it by its newest frame, stays within the backlog.
Bounded ==
    /\ bytes = Size(frames) /\ bytes <= ByteCap
    /\ kind = "Video" => Len(frames) <= 1
    /\ kind = "Audio" /\ Len(frames) > 1 => Len(frames) * Last(frames).dur <= Backlog
================================================================================
