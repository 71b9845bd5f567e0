------------------------------ MODULE VideoOutput ------------------------------
(***************************************************************************)
(* The DRM presenter of crates/omt-receiver/src/video.rs: one VideoOutput, *)
(* its flip chain of Buffers surfaces, and the display driver beside it.   *)
(*                                                                         *)
(* Two actors interleave.  The presenter is the video session's thread: it *)
(* configures a chain for a format, decodes into one surface, waits for    *)
(* the outstanding page flip and queues the next one.  The kernel          *)
(* completes a queued flip at a vblank of its own choosing, or never, and  *)
(* reports it as an event the presenter reads from the card.               *)
(*                                                                         *)
(* A frame is abstracted to its format and to what the decoder says of it. *)
(***************************************************************************)
EXTENDS Naturals

CONSTANTS
    Buffers,      \* DRM_BUFFERS: surfaces in the flip chain
    SkipBudget,   \* SKIP_BUDGET: undecodable frames held over in a row
    Formats,      \* video formats a sender may switch between
    OverCeiling,  \* formats the board's decode ceiling refuses
    Unshowable,   \* formats with no usable mode, decoder or placement
    EventSpace,   \* flip events the kernel will hold for one open card
    EventBatch,   \* flip events that fit the buffer of one read of the card
    None          \* no format, no surface

ASSUME VideoOutputAssumption ==
    /\ Buffers \in Nat /\ Buffers >= 3
    /\ SkipBudget \in Nat /\ EventSpace \in Nat /\ EventBatch \in Nat \ {0}
    /\ OverCeiling \subseteq Formats /\ Unshowable \subseteq Formats
    /\ None \notin Formats /\ None \notin Nat

VARIABLES
    pc,           \* where the presenter's thread is
    want,         \* the format of the frame being presented
    configured,   \* VideoOutput.cfg is Some
    format,       \* Config.format
    front,        \* Config.front
    flipPending,  \* Config.flip_pending
    presented,    \* Config.presented
    skips,        \* Config.skips
    rejected,     \* VideoOutput.rejected: a format remembered as unsupported
    built,        \* surfaces pushed on the chain under construction
    alive,        \* dumb buffers the kernel holds for this process
    onscreen,     \* the surface the CRTC scans out
    queued,       \* the surface of the flip the kernel has not completed
    events,       \* flip-complete events waiting to be read from the card
    owed,         \* events the kernel still owes for chains already released
    outcome,      \* what the last present() returned
    held,         \* history: frames skipped since the last one presented
    abandoned     \* history: a release gave up on a flip of this open card

chain  == <<configured, format, front, flipPending, presented, skips, built,
            alive>>
kernel == <<onscreen, queued, events, owed>>
vars   == <<pc, want, chain, rejected, kernel, outcome, held, abandoned>>

Surfaces == 0 .. Buffers - 1
Outcomes == {"none", "presented", "skipped", "unsupported", "failed"}
Labels   == {"idle", "releasing", "yuv", "bgrx", "decoding", "retiring",
             "flipping", "failed", "closed"}
--------------------------------------------------------------------------------
\* (front + 1) % surfaces.len(): the surface the next frame is decoded into.
NextSurface_DoubleBuffered(i) == IF i = 0 THEN 1 ELSE 0

NextSurface(i) == IF i + 1 = Buffers THEN 0 ELSE i + 1

\* present() returns `result`; a failure ends the session in play.rs.
Return(result) ==
    /\ outcome' = result
    /\ pc' = IF result = "failed" THEN "failed" ELSE "idle"

Init ==
    /\ pc = "idle" /\ want = None
    /\ configured = FALSE /\ format = None /\ front = 0
    /\ flipPending = FALSE /\ presented = FALSE /\ skips = 0
    /\ built = 0 /\ alive = 0
    /\ rejected = None
    /\ onscreen = None /\ queued = None /\ events = 0 /\ owed = 0
    /\ outcome = "none" /\ held = 0 /\ abandoned = FALSE
--------------------------------------------------------------------------------
(* present(): the remembered refusal, then configuration if the format      *)
(* changed, then the decode.                                               *)

\* A format already refused is refused again without reading the connector.
PresentRejected(f) ==
    /\ pc = "idle" /\ rejected = f
    /\ Return("unsupported")
    /\ UNCHANGED <<want, chain, rejected, kernel, held, abandoned>>

\* The format the chain was built for: straight to the decoder.
PresentSame(f) ==
    /\ pc = "idle" /\ rejected # f /\ configured /\ format = f
    /\ rejected' = None /\ want' = f /\ pc' = "decoding"
    /\ UNCHANGED <<chain, kernel, outcome, held, abandoned>>

\* The ceiling is asked before anything is released.
PresentOverCeiling(f) ==
    /\ pc = "idle" /\ rejected # f /\ ~(configured /\ format = f)
    /\ f \in OverCeiling
    /\ rejected' = f
    /\ Return("unsupported")
    /\ UNCHANGED <<want, chain, kernel, held, abandoned>>

PresentNew_AsksCeilingLast(f) ==
    /\ pc = "idle" /\ rejected # f /\ ~(configured /\ format = f)
    /\ rejected' = None /\ want' = f /\ pc' = "releasing"
    /\ UNCHANGED <<chain, kernel, outcome, held, abandoned>>

PresentNew(f) ==
    /\ pc = "idle" /\ rejected # f /\ ~(configured /\ format = f)
    /\ f \notin OverCeiling
    /\ rejected' = None /\ want' = f /\ pc' = "releasing"
    /\ UNCHANGED <<chain, kernel, outcome, held, abandoned>>

Present(f) ==
    \/ PresentRejected(f) \/ PresentSame(f)
    \/ PresentOverCeiling(f) \/ PresentNew(f)
--------------------------------------------------------------------------------
(* configure()                                                             *)

\* wait_for_flip() reads the completion events that wait on the card, takes
\* the first for its own and drops the rest of that read ...
FlipEventRead ==
    /\ flipPending /\ events > 0
    /\ events' = IF events > EventBatch THEN events - EventBatch ELSE 0
    /\ flipPending' = FALSE

\* ... or gives up, after FLIP_TIMEOUT_MS or because the read itself failed,
\* and flip_pending is cleared anyway.
FlipWaitFails ==
    /\ flipPending
    /\ flipPending' = FALSE /\ UNCHANGED events

\* release(): wait for the pending flip, ignoring how the wait ends.
ReleaseWait ==
    /\ pc = "releasing" /\ flipPending
    /\ \/ FlipEventRead /\ UNCHANGED abandoned
       \/ FlipWaitFails /\ abandoned' = TRUE
    /\ UNCHANGED <<pc, want, configured, format, front, presented, skips, built,
                   alive, rejected, onscreen, queued, owed, outcome, held>>

\* Dropping every surface removes its framebuffer.  The kernel lets go of a
\* flip it never completed, whose event may still turn up later.
FreeChain ==
    /\ configured' = FALSE /\ built' = 0 /\ alive' = 0
    /\ onscreen' = None /\ queued' = None
    /\ owed' = owed + (IF queued # None THEN 1 ELSE 0)
    /\ UNCHANGED <<format, front, flipPending, presented, skips>>

\* The chain is gone; the connector, its mode list and the decoder decide
\* whether a new one is built, the format is refused, or the session fails.
ReleaseDone ==
    /\ pc = "releasing" /\ ~flipPending
    /\ FreeChain
    /\ \/ /\ want \notin Unshowable
          /\ pc' = "yuv" /\ UNCHANGED <<outcome, rejected>>
       \/ /\ want \in Unshowable
          /\ rejected' = want /\ Return("unsupported")
       \/ Return("failed") /\ UNCHANGED rejected
    /\ UNCHANGED <<want, events, held, abandoned>>

\* The modeset that scans out the first surface; the frame is decoded next.
Activate ==
    /\ configured' = TRUE /\ format' = want /\ front' = 0
    /\ flipPending' = FALSE /\ presented' = FALSE /\ skips' = 0
    /\ onscreen' = 0 /\ pc' = "decoding"
    /\ UNCHANGED <<built, alive, queued, events, owed, outcome>>

AllocSurface ==
    /\ built < Buffers
    /\ built' = built + 1 /\ alive' = alive + 1
    /\ UNCHANGED <<pc, configured, format, front, flipPending, presented, skips,
                   kernel, outcome>>

\* configure_yuv(): three planar surfaces, a test commit, the modeset.  Any
\* refusal drops what it built and falls back to BGRX.
YuvRefused ==
    /\ built' = 0 /\ alive' = 0 /\ pc' = "bgrx"
    /\ UNCHANGED <<configured, format, front, flipPending, presented, skips,
                   kernel, outcome>>

ConfigureYuv ==
    /\ pc = "yuv"
    /\ \/ AllocSurface
       \/ built = Buffers /\ Activate
       \/ YuvRefused
    /\ UNCHANGED <<want, rejected, held, abandoned>>

\* The BGRX fallback, whose failures are the session's.
ConfigureBgrx ==
    /\ pc = "bgrx"
    /\ \/ AllocSurface
       \/ built = Buffers /\ Activate
       \/ /\ built' = 0 /\ alive' = 0 /\ Return("failed")
          /\ UNCHANGED <<configured, format, front, flipPending, presented,
                         skips, kernel>>
    /\ UNCHANGED <<want, rejected, held, abandoned>>
--------------------------------------------------------------------------------
(* The decode, the wait for the outstanding flip, and the next flip.       *)

\* classify_decode() for damage to this frame's own bitstream.
ClassifyDamage ==
    \/ /\ ~presented
       /\ Return("failed") /\ UNCHANGED <<skips, held>>
    \/ /\ presented /\ skips + 1 <= SkipBudget
       /\ skips' = skips + 1 /\ held' = held + 1 /\ Return("skipped")
    \/ /\ presented /\ skips + 1 > SkipBudget
       /\ skips' = skips + 1 /\ Return("failed") /\ UNCHANGED held

\* Decoding writes NextSurface(front) while the previous flip is outstanding.
Decode ==
    /\ pc = "decoding"
    /\ \/ pc' = "retiring" /\ UNCHANGED <<skips, held, outcome>>
       \/ ClassifyDamage
       \/ Return("unsupported") /\ UNCHANGED <<skips, held>>
       \/ Return("failed") /\ UNCHANGED <<skips, held>>
    /\ UNCHANGED <<want, configured, format, front, flipPending, presented,
                   built, alive, rejected, kernel, abandoned>>

Retire_Blocking ==
    /\ pc = "retiring"
    /\ \/ ~flipPending /\ pc' = "flipping"
          /\ UNCHANGED <<flipPending, events, outcome>>
       \/ FlipEventRead /\ pc' = "flipping" /\ UNCHANGED outcome
    /\ UNCHANGED <<want, configured, format, front, presented, skips, built,
                   alive, rejected, onscreen, queued, owed, held, abandoned>>

\* retire_flip() before queueing; a wait that failed ends the session.
Retire ==
    /\ pc = "retiring"
    /\ \/ ~flipPending /\ pc' = "flipping"
          /\ UNCHANGED <<flipPending, events, outcome>>
       \/ FlipEventRead /\ pc' = "flipping" /\ UNCHANGED outcome
       \/ FlipWaitFails /\ Return("failed")
    /\ UNCHANGED <<want, configured, format, front, presented, skips, built,
                   alive, rejected, onscreen, queued, owed, held, abandoned>>

\* The page-flip ioctl or the atomic commit of FB_ID.  The kernel refuses one
\* while another is outstanding (EBUSY) or its event queue is full (ENOMEM).
KernelTakesFlip == queued = None /\ events + owed < EventSpace

Flip ==
    /\ pc = "flipping"
    /\ \/ /\ KernelTakesFlip
          /\ queued' = NextSurface(front) /\ front' = NextSurface(front)
          /\ flipPending' = TRUE /\ presented' = TRUE /\ skips' = 0 /\ held' = 0
          /\ Return("presented")
       \/ /\ Return("failed")
          /\ UNCHANGED <<queued, front, flipPending, presented, skips, held>>
    /\ UNCHANGED <<want, configured, format, built, alive, rejected, onscreen,
                   events, owed, abandoned>>
--------------------------------------------------------------------------------
(* The display driver, and the life of the open card.                      *)

FlipComplete ==
    /\ queued # None
    /\ onscreen' = queued /\ queued' = None /\ events' = events + 1
    /\ UNCHANGED <<pc, want, chain, rejected, owed, outcome, held, abandoned>>

LateEvent ==
    /\ owed > 0
    /\ owed' = owed - 1 /\ events' = events + 1
    /\ UNCHANGED <<pc, want, chain, rejected, onscreen, queued, outcome, held,
                   abandoned>>

\* Drop: the session ended, by failure or for its own reasons between frames.
Close ==
    /\ pc \in {"idle", "failed"}
    /\ pc' = "closed"
    /\ configured' = FALSE /\ built' = 0 /\ alive' = 0 /\ flipPending' = FALSE
    /\ onscreen' = None /\ queued' = None /\ events' = 0 /\ owed' = 0
    /\ UNCHANGED <<want, format, front, presented, skips, rejected, outcome,
                   held, abandoned>>

\* VideoOutput::open() in the next session.
Open ==
    /\ pc = "closed"
    /\ pc' = "idle" /\ rejected' = None /\ outcome' = "none"
    /\ held' = 0 /\ abandoned' = FALSE
    /\ UNCHANGED <<want, chain, kernel>>

Presenter ==
    \/ ReleaseWait \/ ReleaseDone \/ ConfigureYuv \/ ConfigureBgrx
    \/ Decode \/ Retire \/ Flip

Next ==
    \/ \E f \in Formats : Present(f)
    \/ Presenter
    \/ FlipComplete \/ LateEvent
    \/ Close \/ Open

\* The presenter's thread keeps running; the kernel owes it nothing.
Spec == Init /\ [][Next]_vars /\ WF_vars(Presenter)
--------------------------------------------------------------------------------
TypeOK ==
    /\ pc \in Labels /\ want \in Formats \cup {None}
    /\ configured \in BOOLEAN /\ format \in Formats \cup {None}
    /\ front \in Surfaces /\ flipPending \in BOOLEAN /\ presented \in BOOLEAN
    /\ skips \in 0 .. SkipBudget + 1
    /\ built \in 0 .. Buffers /\ alive \in Nat
    /\ rejected \in Formats \cup {None}
    /\ onscreen \in Surfaces \cup {None} /\ queued \in Surfaces \cup {None}
    /\ events \in Nat /\ owed \in Nat
    /\ outcome \in Outcomes /\ held \in Nat /\ abandoned \in BOOLEAN

\* While the decoder writes a surface, that surface is neither the one being
\* scanned out nor the one queued to be: present() decodes before it retires
\* the outstanding flip, and the third buffer is what makes that safe, stale
\* completion events included.
NoTear ==
    pc = "decoding" =>
        NextSurface(front) # onscreen /\ NextSurface(front) # queued

\* The flip ioctl never meets a flip of this chain still outstanding, because
\* retire_flip() waited for it -- unless a release() of this card gave up on
\* one, whose late event a later wait can mistake for its own.
FlipNeverBusy ==
    (pc = "flipping" /\ ~abandoned) => queued = None

\* A held-over picture exists and is held for at most SkipBudget frames in a
\* row, format changes and refused formats in between notwithstanding.
HoldIsBounded ==
    /\ held <= SkipBudget
    /\ outcome = "skipped" /\ pc = "idle" => configured /\ onscreen # None

\* One chain at a time: the YCbCr attempt's surfaces are gone before the BGRX
\* fallback allocates, a format change releases before it allocates, and a
\* closed output holds nothing.
OneChainAllocated ==
    /\ alive <= Buffers
    /\ configured => alive = Buffers
    /\ pc \in {"idle", "closed"} /\ ~configured => alive = 0

\* A working chain is torn down only for a format the board may decode, or
\* when the output closes: a burst of frames above the ceiling, at whatever
\* point it comes, leaves the picture that is playing alone.
CeilingKeepsPicture ==
    [][configured /\ ~configured' => pc' = "closed" \/ want \notin OverCeiling]_vars

\* What the decoder, the flip ioctl and the allocator may do to the surfaces
\* while a picture is up: nothing the display can see, no picture held over
\* for long, and no leak.
DisplaySound == NoTear /\ FlipNeverBusy /\ HoldIsBounded /\ OneChainAllocated

\* present() always returns: a vanished display that completes no flip ends
\* the wait at its timeout instead of parking the session's thread.
PresentReturns ==
    (pc \notin {"idle", "closed", "failed"}) ~> (pc \in {"idle", "closed", "failed"})
================================================================================
