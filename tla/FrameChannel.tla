------------------------------ MODULE FrameChannel ------------------------------
(***************************************************************************)
(* The receiver's network entry point, crates/omt-receiver/src/channel.rs: *)
(* one Channel reading length-prefixed frames from a nonblocking socket.   *)
(*                                                                         *)
(* The sender and the network put bytes on the socket, close it or reset   *)
(* it at any time; the caller reads with receive(), receive_until() or     *)
(* receive_ready() and reconnects at will.  A byte is abstracted to the    *)
(* connection, the frame and the offset it belongs to, which is what lets  *)
(* a reader that lost its place in the stream be told from one that did    *)
(* not.  Time is the ticks left on each deadline.                          *)
(***************************************************************************)
EXTENDS Naturals, Sequences

CONSTANTS
    HeaderSize,   \* HEADER_SIZE, in bytes of the model
    BodySizes,    \* data_length of the frames the sender may choose
    Extension,    \* frame type -> size of its extended header
    Maximum,      \* frame type -> the largest payload after it
    BodyBudget,   \* BODY_BUDGET_MS, in ticks
    Slice,        \* the caller's deadline, in ticks; each caller checks it is ahead
    MaxFrames,    \* bound: frames the sender starts on one connection
    MaxConns      \* bound: connections made

ASSUME FrameChannelAssumption ==
    /\ HeaderSize \in Nat \ {0} /\ BodySizes \subseteq Nat /\ BodySizes # {}
    /\ DOMAIN Extension = {"metadata", "video", "audio"} /\ DOMAIN Maximum = DOMAIN Extension
    /\ \A k \in DOMAIN Extension : {Extension[k], Maximum[k]} \subseteq Nat
    /\ BodyBudget \in Nat \ {0} /\ Slice \in Nat \ {0}
    /\ MaxFrames \in Nat /\ MaxConns \in Nat

\* What a sender may put in the headers of a frame: its type, the length of its
\* metadata, whether codec, dimensions, rate and properties are supported, and
\* the length of the planes of an audio frame.
Frames == [type : DOMAIN Extension \cup {"unknown"}, len : BodySizes, metadata : BodySizes,
           supported : BOOLEAN, planes : BodySizes]

\* parse_frame_header(): every length is bounded before the body is read.
HeaderAccepted(f) ==
    /\ f.type \in DOMAIN Extension
    /\ Extension[f.type] <= f.len
    /\ f.len - Extension[f.type] <= Maximum[f.type]
    /\ f.metadata <= f.len - Extension[f.type]

\* parse_video_header()
VideoAccepted(f) == f.supported

\* parse_audio_header(): the planes and the metadata fill the payload exactly.
AudioAccepted(f) ==
    f.supported /\ Extension["audio"] + f.planes + f.metadata = f.len

\* complete(): metadata has no extended header.
BodyAccepted(f) ==
    /\ f.type = "video" => VideoAccepted(f)
    /\ f.type = "audio" => AudioAccepted(f)

\* What the parsers will say of a frame: the fixed header is refused, the
\* extended header is refused once the body is in, or neither.
Verdict(f) ==
    IF ~HeaderAccepted(f) THEN "badHeader" ELSE IF ~BodyAccepted(f) THEN "badBody" ELSE "good"

Headers  == {[len |-> f.len, verdict |-> Verdict(f)] : f \in Frames}
Modes    == {"receive", "until", "ready"}
Results  == {"none", "Ok", "WouldBlock", "TimedOut", "Error"}

VARIABLES
    pc,         \* "idle", "reading" (the loop of receive_inner) or "polling"
    mode,       \* which of the three receive entry points was called
    left,       \* ticks until the call's deadline
    result,     \* what the last call returned
    connected,  \* stream is Some
    conn,       \* connections made so far
    socket,     \* bytes received by the kernel and not yet read
    peerOpen,   \* the sender has not closed its end
    sending,    \* the frame the sender is writing, [len, verdict, sent]
    started,    \* frames the sender has begun on this connection
    read,       \* Partial: the bytes of the frame read so far
    header,     \* Partial.header, once parsed: [len, verdict]
    budget,     \* ticks until Partial.budget_ms
    age,        \* history: ticks since the partial frame's first byte was read
    overrun,    \* history: ticks the current call has lasted past its deadline
    delivered   \* history: <<connection, frame>> of every frame returned Ok

sender  == <<peerOpen, sending, started>>
partial == <<read, header, budget, age>>
vars    == <<pc, mode, left, result, connected, conn, socket, sender, partial,
             overrun, delivered>>

NoFrame == [len |-> 0, verdict |-> "none", sent |-> 0]
NoHeader == [len |-> 0, verdict |-> "none"]

Byte(i) == [conn |-> conn, frame |-> started, off |-> i, len |-> sending.len,
            verdict |-> sending.verdict]

Init ==
    /\ pc = "idle" /\ mode = "receive" /\ left = 0 /\ result = "none"
    /\ connected = FALSE /\ conn = 0 /\ socket = <<>>
    /\ peerOpen = FALSE /\ sending = NoFrame /\ started = 0
    /\ read = <<>> /\ header = NoHeader /\ budget = 0 /\ age = 0
    /\ overrun = 0 /\ delivered = <<>>
--------------------------------------------------------------------------------
(* close() and connect()                                                   *)

ResetPartial ==
    read' = <<>> /\ header' = NoHeader /\ budget' = 0 /\ age' = 0

\* close(): the partial frame goes with the socket it came from.
DropPartial_Kept == UNCHANGED partial

DropPartial == ResetPartial

Close ==
    /\ DropPartial
    /\ connected' = FALSE /\ socket' = <<>>
    /\ peerOpen' = FALSE /\ sending' = NoFrame /\ started' = 0

\* connect(): close, try each resolved address until the deadline, then
\* subscribe; a subscription that cannot be written closes the socket again.
Connect ==
    /\ pc = "idle" /\ conn < MaxConns
    /\ \/ Close /\ UNCHANGED conn
       \/ /\ DropPartial
          /\ connected' = TRUE /\ conn' = conn + 1 /\ socket' = <<>>
          /\ peerOpen' = TRUE /\ sending' = NoFrame /\ started' = 0
    /\ result' = "none"
    /\ UNCHANGED <<pc, mode, left, overrun, delivered>>
--------------------------------------------------------------------------------
(* receive(), receive_until() and receive_ready() over receive_inner()     *)

\* finish(): only Ok and WouldBlock leave the channel open.
Return(r) ==
    /\ result' = r /\ pc' = "idle"
    /\ UNCHANGED <<mode, left, overrun, conn>>

Fail(r) ==
    /\ Return(r) /\ Close /\ UNCHANGED delivered

Call(m) ==
    /\ pc = "idle"
    /\ mode' = m /\ left' = (IF m = "ready" THEN 0 ELSE Slice) /\ overrun' = 0
    /\ \/ connected /\ pc' = "reading" /\ result' = "none"
       \/ ~connected /\ pc' = "idle" /\ result' = "Error"
    /\ UNCHANGED <<connected, conn, socket, sender, partial, delivered>>

\* The bytes `stream.read` may take: the rest of the header, or of the body.
Wanted ==
    IF header = NoHeader THEN HeaderSize - Len(read)
                         ELSE HeaderSize + header.len - Len(read)

Take == IF Len(socket) < Wanted THEN Len(socket) ELSE Wanted

\* A frame's budget runs from its first byte.
Budget == IF read = <<>> THEN BodyBudget ELSE budget

\* parse_frame_header on the header bytes: what they say depends on which
\* bytes they are.  Bytes of two frames, or out of place, parse as anything.
Parsed(bytes) ==
    IF \A i \in 1 .. HeaderSize :
           /\ bytes[i].off = i - 1
           /\ bytes[i].conn = bytes[1].conn /\ bytes[i].frame = bytes[1].frame
    THEN {[len |-> bytes[1].len, verdict |-> bytes[1].verdict]}
    ELSE Headers

\* The read completes nothing: keep the bytes and loop.
ReadMore(bytes, h) ==
    /\ \/ Len(bytes) < HeaderSize /\ h = NoHeader
       \/ /\ Len(bytes) >= HeaderSize /\ h # NoHeader /\ h.verdict # "badHeader"
          /\ Len(bytes) < HeaderSize + h.len
    /\ read' = bytes /\ header' = h /\ budget' = Budget
    /\ age' = (IF read = <<>> THEN 0 ELSE age)
    /\ UNCHANGED <<pc, mode, left, result, connected, conn, sender, overrun,
                   delivered>>

\* complete(): the extended header is parsed once the body is in.
Complete(bytes, h) ==
    /\ h # NoHeader /\ h.verdict = "good" /\ Len(bytes) = HeaderSize + h.len
    /\ ResetPartial /\ Return("Ok")
    /\ delivered' = Append(delivered, <<bytes[1].conn, bytes[1].frame>>)
    /\ UNCHANGED <<connected, sender>>

\* A refused header ends the connection: no resynchronising inside it.
Refuse(bytes, h) ==
    /\ h # NoHeader
    /\ \/ h.verdict = "badHeader"
       \/ h.verdict = "badBody" /\ Len(bytes) = HeaderSize + h.len
    /\ Fail("Error")

Read ==
    /\ pc = "reading" /\ socket # <<>>
    /\ LET bytes == read \o SubSeq(socket, 1, Take)
       IN  \E h \in IF header = NoHeader /\ Len(bytes) = HeaderSize
                    THEN Parsed(bytes) ELSE {header} :
              \/ /\ \/ ReadMore(bytes, h)
                    \/ Complete(bytes, h)
                 /\ socket' = SubSeq(socket, Take + 1, Len(socket))
              \/ Refuse(bytes, h)

\* Ok(0), or a socket error: the source disconnected.
ReadEnds ==
    /\ pc = "reading" /\ socket = <<>> /\ ~peerOpen
    /\ Fail("Error")

\* When the wait ends: a frame in flight is finished on its budget, but only
\* for a caller that waits for it.
Until_IgnoresMode == IF read # <<>> /\ budget > left THEN budget ELSE left

Until == IF read # <<>> /\ mode = "receive" /\ budget > left THEN budget ELSE left

ReadBlocks_ReadyFirst ==
    /\ pc = "reading" /\ socket = <<>> /\ peerOpen
    /\ \/ mode # "ready" /\ read # <<>> /\ budget = 0 /\ Fail("TimedOut")
       \/ /\ mode = "ready" \/ read = <<>> \/ budget > 0
          /\ Until = 0
          /\ Return("WouldBlock")
          /\ UNCHANGED <<connected, socket, sender, partial, delivered>>
       \/ /\ read = <<>> \/ budget > 0
          /\ Until > 0
          /\ pc' = "polling"
          /\ UNCHANGED <<mode, left, result, connected, conn, socket, sender,
                         partial, overrun, delivered>>

\* Nothing to read: give up on a frame out of budget, return at the
\* deadline, or poll.
ReadBlocks ==
    /\ pc = "reading" /\ socket = <<>> /\ peerOpen
    /\ \/ read # <<>> /\ budget = 0 /\ Fail("TimedOut")
       \/ /\ read = <<>> \/ budget > 0
          /\ Until = 0
          /\ Return("WouldBlock")
          /\ UNCHANGED <<connected, socket, sender, partial, delivered>>
       \/ /\ read = <<>> \/ budget > 0
          /\ Until > 0
          /\ pc' = "polling"
          /\ UNCHANGED <<mode, left, result, connected, conn, socket, sender,
                         partial, overrun, delivered>>

\* poll_one() wakes for the socket or at its timeout, and the loop reads ...
PollWakes ==
    /\ pc = "polling"
    /\ socket # <<>> \/ ~peerOpen \/ Until = 0
    /\ pc' = "reading"
    /\ UNCHANGED <<mode, left, result, connected, conn, socket, sender, partial,
                   overrun, delivered>>

\* ... or for a signal, which hands control back with the frame kept.
PollInterrupted ==
    /\ pc = "polling" /\ socket = <<>> /\ peerOpen /\ Until > 0
    /\ Return("WouldBlock")
    /\ UNCHANGED <<connected, socket, sender, partial, delivered>>
--------------------------------------------------------------------------------
(* The sender, the network and the clock.                                  *)

\* The sender begins a frame ...
SendFrame ==
    /\ connected /\ peerOpen /\ started < MaxFrames
    /\ sending = NoFrame
    /\ \E h \in Headers : sending' = [len |-> h.len, verdict |-> h.verdict, sent |-> 0]
    /\ started' = started + 1
    /\ UNCHANGED <<pc, mode, left, result, connected, conn, socket, peerOpen,
                   partial, overrun, delivered>>

\* ... and its next bytes arrive, however the network cuts them up.
Arrive(n) ==
    /\ connected /\ sending # NoFrame
    /\ sending.sent + n <= HeaderSize + sending.len
    /\ socket' = socket \o [i \in 1 .. n |-> Byte(sending.sent + i - 1)]
    /\ sending' = IF sending.sent + n = HeaderSize + sending.len THEN NoFrame
                  ELSE [sending EXCEPT !.sent = @ + n]
    /\ UNCHANGED <<pc, mode, left, result, connected, conn, peerOpen, started,
                   partial, overrun, delivered>>

\* The sender closes, possibly in the middle of a frame; a reset also
\* discards what the kernel still held.
PeerCloses ==
    /\ connected /\ peerOpen
    /\ peerOpen' = FALSE /\ sending' = NoFrame
    /\ socket' \in {socket, <<>>}
    /\ UNCHANGED <<pc, mode, left, result, connected, conn, started, partial,
                   overrun, delivered>>

\* remaining_ms() saturates: a deadline in the past leaves nothing to wait for.
Less(n) == IF n > 0 THEN n - 1 ELSE 0

\* Time passes between calls and while a poll waits; the loop's own work is
\* instant, and a poll due to wake wakes on time.
Tick ==
    /\ \/ pc = "idle" /\ read # <<>> /\ age <= BodyBudget + Slice
       \/ pc = "polling" /\ socket = <<>> /\ peerOpen /\ Until > 0
    /\ left' = Less(left) /\ budget' = Less(budget)
    /\ age' = (IF read = <<>> THEN 0 ELSE age + 1)
    /\ overrun' = (IF pc = "polling" /\ left = 0 THEN overrun + 1 ELSE overrun)
    /\ UNCHANGED <<pc, mode, result, connected, conn, socket, sender, read,
                   header, delivered>>

Reader == Read \/ ReadEnds \/ ReadBlocks \/ PollWakes
Caller == \E m \in Modes : Call(m)
Network == SendFrame \/ (\E n \in 1 .. 2 : Arrive(n)) \/ PeerCloses

Next == Connect \/ Caller \/ Reader \/ PollInterrupted \/ Network \/ Tick

\* The reading thread keeps going and the session keeps calling; the clock
\* advances however short the calls are (strong fairness: the calls of a busy
\* caller disable Tick again and again); the sender and the network owe nothing.
Spec ==
    /\ Init /\ [][Next]_vars
    /\ WF_vars(Reader) /\ WF_vars(Caller) /\ SF_vars(Tick)
--------------------------------------------------------------------------------
\* The reader never loses its place: the bytes held are the first bytes of
\* one frame of the connection that is open now, whatever timeouts, partial
\* reads, disconnects and reconnects came before.
Aligned ==
    \A i \in 1 .. Len(read) :
        read[i].conn = conn /\ read[i].frame = read[1].frame /\ read[i].off = i - 1

\* Frames come out as the sender put them in: on each connection the frames
\* returned are consecutive from the first, none lost, repeated or reordered,
\* and a frame the parsers refused is followed by no other of its connection.
DeliveredInOrder ==
    \A k \in 1 .. Len(delivered) :
        IF k > 1 /\ delivered[k - 1][1] = delivered[k][1]
        THEN delivered[k][2] = delivered[k - 1][2] + 1
        ELSE delivered[k][2] = 1

\* The stream is read in step with the sender.
StreamInStep == Aligned /\ DeliveredInOrder

\* receive_until() and receive_ready() keep their deadline even when a frame
\* has begun: the audio worker has a ring to feed then.  receive() outlasts
\* it by no more than the body budget.
Punctual ==
    IF mode = "receive" THEN overrun <= BodyBudget ELSE overrun = 0

\* A frame that has begun arriving cannot hold a caller for long: nobody is
\* parked on one older than its budget and the caller's own slice, however
\* slowly its bytes trickle in and however many calls it has been spread over.
StallBounded ==
    pc = "polling" /\ read # <<>> => age < BodyBudget + Slice

\* Neither the caller's deadline nor the frame's budget is outlasted.
DeadlinesKept == Punctual /\ StallBounded

\* A frame that has begun is finished or given up, and the socket with it: a
\* sender that stops in the middle of one cannot hold the channel for ever.
FrameResolved == (read # <<>>) ~> (read = <<>>)

\* Every receive call returns.
CallReturns == (pc # "idle") ~> (pc = "idle")

\* Nothing waits for ever: not a call, and not a frame over many calls.
ReceiveEnds == FrameResolved /\ CallReturns
================================================================================
