------------------------------ MODULE OutputProofs ------------------------------
(***************************************************************************)
(* The safety properties of the two outputs.  VideoOutput's hold for every *)
(* chain of three or more surfaces, every skip budget, event space and set *)
(* of formats; AudioOutput's for every ring, every set of durations and    *)
(* holes, and every number of drops the levels leave room for.             *)
(***************************************************************************)
EXTENDS VideoOutput, AudioOutput, WellFoundedInduction, NaturalsInduction, TLAPS


\* Where the thread is says whether there is a chain.  Nothing is scanned out
\* without one; with one, the front surface is the one scanned out, or the one
\* queued, with the surface before it scanned out.
ChainInv ==
    /\ pc \in {"decoding", "retiring", "flipping"} => configured
    /\ pc \in {"yuv", "bgrx", "closed"} => ~configured
    /\ ~configured => onscreen = None /\ queued = None
    /\ configured /\ queued = None => onscreen = front
    /\ configured /\ queued # None =>
          /\ queued = front
          /\ onscreen \in Surfaces /\ NextSurface(onscreen) = front

\* Until a wait gives up, flipPending accounts for exactly one flip: one the
\* kernel has not completed, or one whose event has not been read.
FlipInv ==
    /\ pc \in {"yuv", "bgrx", "flipping", "closed"} => ~flipPending
    /\ pc = "closed" => queued = None /\ events = 0 /\ owed = 0
    /\ ~abandoned /\ pc # "failed" =>
          /\ owed = 0
          /\ ~flipPending => queued = None /\ events = 0
          /\ flipPending => (queued = None <=> events = 1)
          /\ flipPending => (queued # None <=> events = 0)

\* A chain that has shown a frame has counted every frame held over since.
HoldInv ==
    /\ configured /\ pc # "failed" => skips <= SkipBudget
    /\ held <= SkipBudget
    /\ presented => held <= skips
    /\ outcome = "skipped" /\ pc = "idle" => configured

\* The kernel holds the surfaces pushed on the chain and no others.
AllocInv ==
    /\ alive = built
    /\ configured => built = Buffers
    /\ ~configured /\ pc \notin {"yuv", "bgrx"} => built = 0

\* A chain is being released only for a format below the ceiling.
CeilingInv == pc = "releasing" => want \notin OverCeiling

IInv == TypeOK /\ ChainInv /\ FlipInv /\ HoldInv /\ AllocInv /\ CeilingInv
--------------------------------------------------------------------------------
\* The next surface is another one of the chain, and so is the one after it:
\* this is where three surfaces are needed.
LEMMA NextSurfaceOther ==
    ASSUME NEW i \in Surfaces
    PROVE  /\ NextSurface(i) \in Surfaces
           /\ NextSurface(i) # i
           /\ NextSurface(NextSurface(i)) # i
  BY VideoOutputAssumption DEF Surfaces, NextSurface

\* None is no surface.
LEMMA NoneNoSurface == None \notin Surfaces /\ 0 \in Surfaces
  BY VideoOutputAssumption DEF Surfaces

\* A read of the card takes at least one event, so the last one leaves none.
LEMMA ReadTakesEvents ==
    ASSUME events \in Nat, FlipEventRead
    PROVE  /\ events' \in Nat /\ events' < events
           /\ flipPending /\ flipPending' = FALSE
  BY VideoOutputAssumption DEF FlipEventRead

\* The initial state of a receiver that has opened the card.
LEMMA InitIInv == Init => IInv
  <1> SUFFICES ASSUME Init PROVE IInv
    OBVIOUS
  <1>1. /\ configured \in BOOLEAN /\ flipPending \in BOOLEAN
        /\ presented \in BOOLEAN /\ abandoned \in BOOLEAN
    BY DEF Init
  <1>2. TypeOK
    BY <1>1, VideoOutputAssumption DEF Init, TypeOK, Labels, Outcomes, Surfaces
  <1>3. ChainInv /\ FlipInv
    BY DEF Init, ChainInv, FlipInv
  <1>4. HoldInv /\ AllocInv /\ CeilingInv
    BY VideoOutputAssumption DEF Init, HoldInv, AllocInv, CeilingInv
  <1> QED  BY <1>2, <1>3, <1>4 DEF IInv

\* present() deciding what to do: only a format below the ceiling starts a
\* release.
LEMMA PresentKeeps ==
    ASSUME IInv, NEW f \in Formats, Present(f)
    PROVE  IInv'
  <1>1. TypeOK'
    BY DEF IInv, TypeOK, Present, PresentRejected, PresentSame,
           PresentOverCeiling, PresentNew, Return, Labels, Outcomes, chain,
           kernel
  <1>2. ChainInv'
    BY DEF IInv, ChainInv, Present, PresentRejected, PresentSame,
           PresentOverCeiling, PresentNew, Return, chain, kernel
  <1>3. FlipInv'
    BY DEF IInv, FlipInv, Present, PresentRejected, PresentSame,
           PresentOverCeiling, PresentNew, Return, chain, kernel
  <1>4. HoldInv'
    BY DEF IInv, HoldInv, Present, PresentRejected, PresentSame,
           PresentOverCeiling, PresentNew, Return, chain
  <1>5. AllocInv'
    BY DEF IInv, AllocInv, Present, PresentRejected, PresentSame,
           PresentOverCeiling, PresentNew, chain
  <1>6. CeilingInv'
    BY DEF CeilingInv, Present, PresentRejected, PresentSame,
           PresentOverCeiling, PresentNew, Return
  <1> QED  BY <1>1, <1>2, <1>3, <1>4, <1>5, <1>6 DEF IInv

\* release() reading its event, or giving up and saying so in `abandoned`.
LEMMA ReleaseWaitKeeps ==
    ASSUME IInv, ReleaseWait
    PROVE  IInv'
  <1>1. (configured \in BOOLEAN /\ flipPending \in BOOLEAN)'
    BY DEF IInv, TypeOK, ReleaseWait, FlipEventRead, FlipWaitFails
  <1>2. (presented \in BOOLEAN /\ abandoned \in BOOLEAN)'
    BY DEF IInv, TypeOK, ReleaseWait
  <1>3. TypeOK'
    BY <1>1, <1>2, ReadTakesEvents DEF IInv, TypeOK, ReleaseWait, FlipWaitFails
  <1>4. ChainInv'
    BY DEF IInv, ChainInv, ReleaseWait
  <1>5. FlipInv'
    <2>1. CASE FlipEventRead /\ UNCHANGED abandoned
      BY <2>1, ReadTakesEvents DEF IInv, TypeOK, FlipInv, ReleaseWait
    <2>2. CASE FlipWaitFails /\ abandoned' = TRUE
      BY <2>2 DEF IInv, FlipInv, ReleaseWait, FlipWaitFails
    <2> QED  BY <2>1, <2>2 DEF ReleaseWait
  <1>6. HoldInv'
    BY DEF IInv, HoldInv, ReleaseWait
  <1>7. AllocInv'
    BY DEF IInv, AllocInv, ReleaseWait
  <1>8. CeilingInv'
    BY DEF IInv, CeilingInv, ReleaseWait
  <1> QED  BY <1>3, <1>4, <1>5, <1>6, <1>7, <1>8 DEF IInv

\* The chain freed: with no wait given up, the kernel had nothing queued.
LEMMA ReleaseDoneKeeps ==
    ASSUME IInv, ReleaseDone
    PROVE  IInv'
  <1>1. (configured \in BOOLEAN /\ flipPending \in BOOLEAN)'
    BY DEF IInv, TypeOK, ReleaseDone, FreeChain
  <1>2. TypeOK'
    BY VideoOutputAssumption, <1>1
       DEF IInv, TypeOK, ReleaseDone, FreeChain, Return, Labels, Outcomes
  <1>3. ChainInv'
    BY DEF ChainInv, ReleaseDone, FreeChain, Return
  <1>4. FlipInv'
    BY DEF IInv, FlipInv, ReleaseDone, FreeChain, Return
  <1>5. HoldInv'
    BY DEF IInv, HoldInv, ReleaseDone, FreeChain, Return
  <1>6. AllocInv'
    BY DEF AllocInv, ReleaseDone, FreeChain
  <1>7. CeilingInv'
    BY DEF CeilingInv, ReleaseDone, Return
  <1> QED  BY <1>2, <1>3, <1>4, <1>5, <1>6, <1>7 DEF IInv

\* The YCbCr attempt: allocation, activation or a full retreat.
LEMMA ConfigureYuvKeeps ==
    ASSUME IInv, ConfigureYuv
    PROVE  IInv'
  <1>1. (configured \in BOOLEAN /\ flipPending \in BOOLEAN)'
    BY DEF IInv, TypeOK, ConfigureYuv, AllocSurface, Activate, YuvRefused
  <1>2. (presented \in BOOLEAN /\ abandoned \in BOOLEAN)'
    BY DEF IInv, TypeOK, ConfigureYuv, AllocSurface, Activate, YuvRefused
  <1>3. TypeOK'
    BY VideoOutputAssumption, NoneNoSurface, <1>1, <1>2
       DEF IInv, TypeOK, ConfigureYuv, AllocSurface, Activate, YuvRefused,
           Labels, kernel
  <1>4. ChainInv'
    BY DEF IInv, ChainInv, ConfigureYuv, AllocSurface, Activate, YuvRefused,
           kernel
  <1>5. FlipInv'
    BY DEF IInv, FlipInv, ConfigureYuv, AllocSurface, Activate, YuvRefused,
           kernel
  <1>6. HoldInv'
    BY VideoOutputAssumption
       DEF IInv, HoldInv, ConfigureYuv, AllocSurface, Activate, YuvRefused
  <1>7. AllocInv'
    BY DEF IInv, ChainInv, AllocInv, ConfigureYuv, AllocSurface, Activate,
           YuvRefused
  <1>8. CeilingInv'
    BY DEF CeilingInv, ConfigureYuv, AllocSurface, Activate, YuvRefused
  <1> QED  BY <1>3, <1>4, <1>5, <1>6, <1>7, <1>8 DEF IInv

\* The BGRX fallback.
LEMMA ConfigureBgrxKeeps ==
    ASSUME IInv, ConfigureBgrx
    PROVE  IInv'
  <1>1. (configured \in BOOLEAN /\ flipPending \in BOOLEAN)'
    BY DEF IInv, TypeOK, ConfigureBgrx, AllocSurface, Activate
  <1>2. (presented \in BOOLEAN /\ abandoned \in BOOLEAN)'
    BY DEF IInv, TypeOK, ConfigureBgrx, AllocSurface, Activate
  <1>3. TypeOK'
    BY VideoOutputAssumption, <1>1, <1>2
       DEF IInv, TypeOK, ConfigureBgrx, AllocSurface, Activate, Return, Labels,
           Outcomes, Surfaces, kernel
  <1>4. ChainInv'
    BY DEF IInv, ChainInv, ConfigureBgrx, AllocSurface, Activate, Return, kernel
  <1>5. FlipInv'
    BY DEF IInv, FlipInv, ConfigureBgrx, AllocSurface, Activate, Return, kernel
  <1>6. HoldInv'
    BY VideoOutputAssumption
       DEF IInv, HoldInv, ConfigureBgrx, AllocSurface, Activate, Return
  <1>7. AllocInv'
    BY DEF IInv, ChainInv, AllocInv, ConfigureBgrx, AllocSurface, Activate
  <1>8. CeilingInv'
    BY DEF CeilingInv, ConfigureBgrx, AllocSurface, Activate, Return
  <1> QED  BY <1>3, <1>4, <1>5, <1>6, <1>7, <1>8 DEF IInv

\* The decode: skips and held frames move together, within the budget.
LEMMA DecodeKeeps ==
    ASSUME IInv, Decode
    PROVE  IInv'
  <1>1. TypeOK'
    BY VideoOutputAssumption
       DEF IInv, TypeOK, ChainInv, HoldInv, Decode, ClassifyDamage, Return,
           Labels, Outcomes, kernel
  <1>2. ChainInv'
    BY DEF IInv, ChainInv, Decode, ClassifyDamage, Return, kernel
  <1>3. FlipInv'
    BY DEF IInv, FlipInv, Decode, ClassifyDamage, Return, kernel
  <1>4. HoldInv'
    BY VideoOutputAssumption
       DEF IInv, TypeOK, ChainInv, HoldInv, Decode, ClassifyDamage, Return
  <1>5. AllocInv'
    BY DEF IInv, AllocInv, Decode
  <1>6. CeilingInv'
    BY DEF CeilingInv, Decode, ClassifyDamage, Return
  <1> QED  BY <1>1, <1>2, <1>3, <1>4, <1>5, <1>6 DEF IInv

\* retire_flip(): the one flip is accounted for before the next is queued.
LEMMA RetireKeeps ==
    ASSUME IInv, Retire
    PROVE  IInv'
  <1>1. (configured \in BOOLEAN /\ flipPending \in BOOLEAN)'
    BY DEF IInv, TypeOK, Retire, FlipEventRead, FlipWaitFails
  <1>2. TypeOK'
    BY ZenonT(40), <1>1, ReadTakesEvents
       DEF IInv, TypeOK, Retire, FlipWaitFails, Return, Labels, Outcomes
  <1>3. ChainInv'
    BY DEF IInv, ChainInv, Retire, Return
  <1>4. FlipInv'
    <2>1. CASE FlipEventRead
      BY <2>1, ReadTakesEvents
         DEF IInv, TypeOK, FlipInv, Retire, FlipWaitFails, Return
    <2>2. CASE FlipWaitFails /\ Return("failed")
      BY <2>2 DEF IInv, FlipInv, Retire, FlipWaitFails, Return
    <2>3. CASE ~flipPending /\ UNCHANGED <<flipPending, events>>
      BY <2>3 DEF IInv, FlipInv, Retire, FlipEventRead, FlipWaitFails, Return
    <2> QED  BY <2>1, <2>2, <2>3 DEF Retire
  <1>5. HoldInv'
    BY DEF IInv, ChainInv, HoldInv, Retire
  <1>6. AllocInv'
    BY DEF IInv, AllocInv, Retire
  <1>7. CeilingInv'
    BY DEF CeilingInv, Retire, Return
  <1> QED  BY <1>2, <1>3, <1>4, <1>5, <1>6, <1>7 DEF IInv

\* The flip: the new front is queued behind the surface on screen.
LEMMA FlipKeeps ==
    ASSUME IInv, Flip
    PROVE  IInv'
  <1>1. (configured \in BOOLEAN /\ flipPending \in BOOLEAN)'
    BY DEF IInv, TypeOK, Flip
  <1>2. (presented \in BOOLEAN /\ abandoned \in BOOLEAN)'
    BY DEF IInv, TypeOK, Flip
  <1>3. TypeOK'
    BY VideoOutputAssumption, NextSurfaceOther, <1>1, <1>2
       DEF IInv, TypeOK, Flip, Return, Labels, Outcomes
  <1>4. ChainInv'
    BY NoneNoSurface, NextSurfaceOther
       DEF IInv, TypeOK, ChainInv, Flip, KernelTakesFlip, Return
  <1>5. FlipInv'
    BY NoneNoSurface, NextSurfaceOther DEF IInv, TypeOK, FlipInv, Flip, Return
  <1>6. HoldInv'
    BY VideoOutputAssumption DEF IInv, ChainInv, HoldInv, Flip
  <1>7. AllocInv'
    BY DEF IInv, AllocInv, Flip
  <1>8. CeilingInv'
    BY DEF CeilingInv, Flip, Return
  <1> QED  BY <1>3, <1>4, <1>5, <1>6, <1>7, <1>8 DEF IInv

\* The vblank: the queued surface becomes the one on screen.
LEMMA FlipCompleteKeeps ==
    ASSUME IInv, FlipComplete
    PROVE  IInv'
  <1>1. TypeOK'
    BY DEF IInv, TypeOK, FlipComplete, chain
  <1>2. ChainInv'
    BY DEF IInv, ChainInv, FlipComplete, chain
  <1>3. FlipInv'
    BY DEF IInv, FlipInv, FlipComplete, chain
  <1>4. HoldInv'
    BY DEF IInv, HoldInv, FlipComplete, chain
  <1>5. AllocInv'
    BY DEF IInv, AllocInv, FlipComplete, chain
  <1>6. CeilingInv'
    BY DEF IInv, CeilingInv, FlipComplete
  <1> QED  BY <1>1, <1>2, <1>3, <1>4, <1>5, <1>6 DEF IInv

\* An event of a released chain arrives, only after a wait was given up.
LEMMA LateEventKeeps ==
    ASSUME IInv, LateEvent
    PROVE  IInv'
  <1>1. TypeOK'
    BY DEF IInv, TypeOK, LateEvent, chain
  <1>2. ChainInv'
    BY DEF IInv, ChainInv, LateEvent, chain
  <1>3. FlipInv'
    BY DEF IInv, FlipInv, LateEvent, chain
  <1>4. HoldInv'
    BY DEF IInv, HoldInv, LateEvent, chain
  <1>5. AllocInv'
    BY DEF IInv, AllocInv, LateEvent, chain
  <1>6. CeilingInv'
    BY DEF IInv, CeilingInv, LateEvent
  <1> QED  BY <1>1, <1>2, <1>3, <1>4, <1>5, <1>6 DEF IInv

\* Drop leaves no chain, no flip and no event.
LEMMA CloseKeeps ==
    ASSUME IInv, Close
    PROVE  IInv'
  <1>1. (configured \in BOOLEAN /\ flipPending \in BOOLEAN)'
    BY DEF Close
  <1>2. TypeOK'
    BY VideoOutputAssumption, <1>1 DEF IInv, TypeOK, Close, Labels
  <1>3. ChainInv'
    BY DEF ChainInv, Close
  <1>4. FlipInv'
    BY DEF FlipInv, Close
  <1>5. HoldInv'
    BY DEF IInv, HoldInv, Close
  <1>6. AllocInv'
    BY DEF AllocInv, Close
  <1>7. CeilingInv'
    BY DEF CeilingInv, Close
  <1> QED  BY <1>2, <1>3, <1>4, <1>5, <1>6, <1>7 DEF IInv

\* A new session opens the card.
LEMMA OpenKeeps ==
    ASSUME IInv, Open
    PROVE  IInv'
  <1>1. TypeOK'
    BY DEF IInv, TypeOK, Open, Labels, Outcomes, chain, kernel
  <1>2. ChainInv'
    BY DEF IInv, ChainInv, Open, chain, kernel
  <1>3. FlipInv'
    BY DEF IInv, FlipInv, Open, chain, kernel
  <1>4. HoldInv'
    BY VideoOutputAssumption DEF IInv, TypeOK, HoldInv, Open, chain
  <1>5. AllocInv'
    BY DEF IInv, AllocInv, Open, chain
  <1>6. CeilingInv'
    BY DEF CeilingInv, Open
  <1> QED  BY <1>1, <1>2, <1>3, <1>4, <1>5, <1>6 DEF IInv

\* Every step keeps the invariant: present() and what follows it, the display
\* driver completing a flip or delivering a late event, and the end and the
\* start of a session.
LEMMA NextKeeps ==
    ASSUME IInv, [Next]_vars
    PROVE  IInv'
  <1>1. ASSUME NEW f \in Formats, Present(f)
        PROVE  IInv'
    BY <1>1, PresentKeeps
  <1>2. CASE Presenter
    BY <1>2, ReleaseWaitKeeps, ReleaseDoneKeeps, ConfigureYuvKeeps,
       ConfigureBgrxKeeps, DecodeKeeps, RetireKeeps, FlipKeeps
       DEF Presenter
  <1>3. CASE FlipComplete \/ LateEvent
    BY <1>3, FlipCompleteKeeps, LateEventKeeps
  <1>4. CASE Close \/ Open
    BY <1>4, CloseKeeps, OpenKeeps
  <1>5. CASE UNCHANGED vars
    BY <1>5
       DEF vars, chain, kernel, IInv, TypeOK, ChainInv, FlipInv, HoldInv,
           AllocInv, CeilingInv
  <1> QED  BY <1>1, <1>2, <1>3, <1>4, <1>5 DEF Next

\* The inductive invariant holds in every state the presenter, the display
\* driver and any sequence of formats can reach.
THEOREM InvariantHolds == Spec => []IInv
  <1>1. Init => IInv
    BY InitIInv
  <1>2. IInv /\ [Next]_vars => IInv'
    BY NextKeeps
  <1> QED  BY <1>1, <1>2, PTL DEF Spec

\* Every field of VideoOutput and Config keeps its type: the front index stays
\* within the chain and the skip count within its budget.
THEOREM TypeCorrect == Spec => []TypeOK
  <1>1. IInv => TypeOK
    BY DEF IInv
  <1> QED  BY <1>1, InvariantHolds, PTL

\* Decoding ahead of the outstanding flip never writes a surface the display
\* reads or is about to read, whatever the number of surfaces above two.
THEOREM DecodeNeverTears == Spec => []NoTear
  <1>1. ASSUME IInv, pc = "decoding"
        PROVE  NextSurface(front) # onscreen /\ NextSurface(front) # queued
    <2>1. configured /\ front \in Surfaces
      BY <1>1 DEF IInv, TypeOK, ChainInv
    <2>2. CASE queued = None
      BY <1>1, <2>1, <2>2, NextSurfaceOther, NoneNoSurface DEF IInv, ChainInv
    <2>3. CASE queued # None
      <3>1. queued = front /\ onscreen \in Surfaces /\ NextSurface(onscreen) = front
        BY <1>1, <2>1, <2>3 DEF IInv, ChainInv
      <3> QED  BY <2>1, <3>1, NextSurfaceOther
    <2> QED  BY <2>2, <2>3
  <1>2. IInv => NoTear
    BY <1>1 DEF NoTear
  <1> QED  BY <1>2, InvariantHolds, PTL

\* retire_flip() leaves no flip outstanding for the ioctl to collide with, as
\* long as no release() of this card gave up on one.
THEOREM FlipsOneAtATime == Spec => []FlipNeverBusy
  <1>1. IInv => FlipNeverBusy
    BY DEF IInv, FlipInv, FlipNeverBusy
  <1> QED  BY <1>1, InvariantHolds, PTL

\* classify_decode() never holds one picture over for more than SKIP_BUDGET
\* frames, and never without a picture to hold.
THEOREM HoldBounded == Spec => []HoldIsBounded
  <1>1. IInv => HoldIsBounded
    BY NoneNoSurface DEF IInv, TypeOK, ChainInv, HoldInv, HoldIsBounded
  <1> QED  BY <1>1, InvariantHolds, PTL

\* configure() and Drop never leave surfaces of an earlier attempt allocated.
THEOREM ChainsDoNotLeak == Spec => []OneChainAllocated
  <1>1. IInv => OneChainAllocated
    BY VideoOutputAssumption DEF IInv, TypeOK, AllocInv, OneChainAllocated
  <1> QED  BY <1>1, InvariantHolds, PTL

\* A frame above the decode ceiling never costs the chain that is playing.
THEOREM CeilingSparesChain == Spec => CeilingKeepsPicture
  <1>1. ASSUME IInv, [Next]_vars
        PROVE  [configured /\ ~configured' => pc' = "closed" \/ want \notin OverCeiling]_vars
    <2>1. CASE ReleaseDone
      BY <1>1, <2>1 DEF IInv, CeilingInv, ReleaseDone
    <2>2. CASE Close
      BY <2>2 DEF Close
    <2>3. CASE ConfigureYuv \/ ConfigureBgrx
      BY <1>1, <2>3 DEF IInv, ChainInv, ConfigureYuv, ConfigureBgrx
    <2>4. ASSUME \/ \E f \in Formats : Present(f)
                 \/ ReleaseWait \/ Decode \/ Retire \/ Flip
                 \/ FlipComplete \/ LateEvent \/ Open
          PROVE  configured' = configured
      BY <2>4 DEF Present, PresentRejected, PresentSame, PresentOverCeiling,
                  PresentNew, ReleaseWait, Decode, Retire, Flip, FlipComplete,
                  LateEvent, Open, chain
    <2> QED  BY <1>1, <2>1, <2>2, <2>3, <2>4 DEF Next, Presenter
  <1> QED  BY <1>1, InvariantHolds, PTL DEF Spec, CeilingKeepsPicture

\* Whatever the formats, the display driver and a vanishing display do, the
\* surfaces on screen are neither written, flipped over nor leaked, and a
\* picture is held over for at most SKIP_BUDGET frames.
THEOREM DisplayStaysSound == Spec => []DisplaySound
  <1>1. NoTear /\ FlipNeverBusy /\ HoldIsBounded /\ OneChainAllocated => DisplaySound
    BY DEF DisplaySound
  <1> QED
    BY <1>1, DecodeNeverTears, FlipsOneAtATime, HoldBounded, ChainsDoNotLeak, PTL
--------------------------------------------------------------------------------
(* AudioOutput: the invariant.                                             *)

Frame == [dur : Nat \ {0}, hole : Nat]

Phases == {"wait", "feed", "keep", "write", "rest", "loop", "closed", "unopened", "lost",
           "unavailable", "silent", "unwanted"}

Flags ==
    /\ frozen \in BOOLEAN /\ playing \in BOOLEAN /\ anchored \in BOOLEAN /\ got \in BOOLEAN
    /\ fits \in BOOLEAN /\ sending \in BOOLEAN /\ live \in BOOLEAN /\ due \in BOOLEAN

Amounts ==
    /\ dev \in {"closed", "prepared", "running", "xrun", "gone"}
    /\ ring \in 0 .. Capacity /\ queue \in Seq(Frame) /\ phase \in Phases
    /\ job \in {"frame", "silence", "keep"} /\ left \in Nat /\ then \in Nat /\ stalled \in Nat
    /\ wake \in Nat /\ stallAt \in Nat /\ gap \in Nat /\ slips \in Nat
    /\ waits \in {"no", "yes", "over"}

AudioTypeOK == Flags /\ Amounts

\* A device runs from its start threshold on, and one that is being recovered does
\* not run.  A write that waits for a sink that takes something is let go on before
\* its time is counted twice.
SinkInv ==
    /\ dev = "closed" => phase \notin {"write", "rest"}
    /\ dev = "prepared" => ring < Start
    /\ dev = "running" => ring > 0 /\ phase # "rest"
    /\ playing => dev \notin {"closed", "prepared"}
    /\ Blocked /\ stalled > 0 => frozen

\* Periods the current call has still to write, the frame behind a silence included.
Unwritten == left + (IF job = "silence" THEN then ELSE 0)

\* What is written of a frame that fitted fits, with the silence before it; and
\* between two calls nothing is owed.
RoomInv ==
    /\ phase \in {"write", "rest"} /\ fits => ring + Unwritten <= Capacity
    /\ phase \in {"wait", "feed", "keep", "loop"} => left = 0 /\ job = "frame"

\* What a device that is known to play holds: the keep-alive level before each wait,
\* less what late wakes have cost.
FeedInv ==
    /\ dev = "xrun" /\ playing => slips > 1
    /\ dev = "running" /\ playing /\ ~Ended =>
         /\ ring + slips + 1 >= Low
         /\ phase = "wait" => wake <= 1 /\ ring + slips + 1 >= Low + wake
         /\ phase = "write" /\ job = "keep" => ring + left + slips >= Low
         /\ phase = "loop" => ring + slips >= Low

\* The frame last written, or being written, says what the next hole is.
Follows == anchored \/ (phase = "write" /\ job = "frame")

\* What the sender has made good for: what is there, what is queued with the holes
\* before it, and what has been dropped or is due since.
Holding == ring + Unwritten + (IF due THEN 1 ELSE 0) + gap
Waiting(i) == IF i <= Len(queue) THEN 1 + queue[i].hole ELSE 0
Covered == Follows /\ Holding + Waiting(1) + Waiting(2) > Low + MaxDrop

\* Frames that the current drain() may still receive from a live sender.
Expected == IF waits = "over" THEN 0 ELSE IF waits = "no" /\ due THEN 2 ELSE 1

\* A live sender is prompt and drops few frames in a row, and its holes are known.
LiveInv ==
    /\ slips = 0 /\ dev \notin {"xrun", "gone"} /\ phase # "rest" /\ gap <= MaxDrop
    /\ \A i \in 1 .. Len(queue) : queue[i].dur = 1 /\ queue[i].hole <= MaxDrop
    /\ phase = "write" /\ job = "silence" => anchored
    /\ dev # "closed" /\ ~Ended => Follows \/ queue # <<>>
    /\ phase = "write" /\ job = "keep" => playing
    /\ phase # "wait" /\ ~Ended => waits = "no" /\ ~got
    /\ phase = "wait" /\ waits = "no" /\ got => gap = 0 /\ ~due
    /\ phase = "wait" /\ waits = "over" => ~due

\* It makes good for what the device takes, so that a device that has started has its
\* cushion, or is full to the target.
LevelInv == dev = "running" /\ ~Ended =>
    /\ phase \in {"feed", "write"} =>
         ring + Unwritten > Low + MaxDrop \/ (Len(queue) <= 2 /\ Covered)
    /\ phase \in {"keep", "loop"} =>
         IF queue = <<>> THEN Covered ELSE ring >= Target
    /\ phase = "write" /\ job = "keep" => queue = <<>> /\ Covered
    /\ phase = "wait" =>
         \/ ring + 1 >= Target + wake
         \/ /\ Len(queue) + Expected <= 2 /\ Covered
            /\ waits # "over" => Holding >= Low

CushionInv == live => LiveInv /\ LevelInv

\* The first is about one write; the others are about what the worker keeps in the ring.
WriteInv == AudioTypeOK /\ SinkInv /\ RoomInv
AudioInv == WriteInv /\ FeedInv /\ CushionInv
--------------------------------------------------------------------------------
(* AudioOutput: facts about its constants and its queue.                   *)

LEMMA Levels ==
    /\ Capacity \in Nat /\ Start \in Nat /\ Target \in Nat /\ Low \in Nat /\ Backlog \in Nat
    /\ ConcealMax \in Nat /\ WriteTimeout \in Nat /\ MediaStall \in Nat /\ Slice \in Nat
    /\ MaxDrop \in Nat /\ Slips \in Nat
    /\ 0 < Start /\ Start <= Target /\ Target <= Capacity
    /\ 3 <= Low /\ MaxDrop + 1 < Low /\ Low + MaxDrop < Start /\ Low + MaxDrop + 1 < Target
    /\ MaxDrop <= ConcealMax /\ 2 <= Backlog
  BY AudioOutputAssumption

\* A set of naturals has a least element.
LEMMA LeastNatural ==
    ASSUME NEW T \in SUBSET Nat, T # {}
    PROVE  \E x \in T : \A y \in T : x <= y
  <1> DEFINE R == {p \in Nat \X Nat : p[1] < p[2]}
  <1>1. IsWellFoundedOn(R, Nat)
    BY NatLessThanWellFounded DEF OpToRel
  <1>2. \A x, y \in Nat : y < x => <<y, x>> \in R
    OBVIOUS
  <1> HIDE DEF R
  <1>3. PICK x \in T : \A y \in T : ~(<<y, x>> \in R)
    BY <1>1, WFMin
  <1>4. \A y \in T : x \in Nat /\ y \in Nat /\ ~(y < x)
    BY <1>2, <1>3
  <1>5. \A y \in T : x <= y
    BY <1>4
  <1> QED  BY <1>5

\* push() sheds the oldest frames and never the newest; what is no backlog stays.
LEMMA ShedIs ==
    ASSUME NEW s \in Seq(Frame), s # <<>>
    PROVE  /\ \E k \in 0 .. Len(s) - 1 : Shed(s) = SubSeq(s, k + 1, Len(s))
           /\ s[Len(s)].dur = 1 /\ Len(s) <= 2 => Shed(s) = s
  <1> DEFINE ival == s[Len(s)].dur
             rest(k) == SubSeq(s, k + 1, Len(s))
             fine(k) == Len(s) - k <= 1 \/ ival * (Len(s) - k) <= Backlog
             T == {k \in Nat : k <= Len(s) /\ fine(k)}
             First(k) == fine(k) /\ \A j \in 0 .. k - 1 : ~fine(j)
             c == CHOOSE k \in 0 .. Len(s) : First(k)
  <1>0. Len(s) \in Nat /\ Len(s) > 0
    OBVIOUS
  <1>1. Shed(s) = rest(c)
    BY DEF Shed
  <1>2. fine(Len(s) - 1)
    BY <1>0
  <1>3. ival = 1 /\ Len(s) <= 2 => fine(0)
    BY <1>0, Levels
  <1>4. rest(0) = s
    BY <1>0
  <1> HIDE DEF rest, fine, ival
  <1>5. T \in SUBSET Nat /\ Len(s) - 1 \in T
    BY <1>0, <1>2
  <1>6. PICK m \in T : \A j \in T : m <= j
    <2> HIDE DEF T
    <2> QED  BY <1>5, LeastNatural
  <1>7. m \in 0 .. Len(s) /\ First(m)
    BY <1>0, <1>6
  <1>8. c \in 0 .. Len(s) /\ First(c)
    BY <1>7
  <1> HIDE DEF c
  <1>9. c <= Len(s) - 1
    <2> SUFFICES ASSUME ~(c <= Len(s) - 1) PROVE FALSE
      OBVIOUS
    <2>1. Len(s) - 1 \in 0 .. c - 1
      BY <1>0, <1>8
    <2> QED  BY <1>2, <1>8, <2>1
  <1>10. fine(0) => c = 0
    <2> SUFFICES ASSUME fine(0), c # 0 PROVE FALSE
      OBVIOUS
    <2>1. 0 \in 0 .. c - 1
      BY <1>8
    <2> QED  BY <1>8, <2>1
  <1>11. c \in 0 .. Len(s) - 1
    BY <1>0, <1>8, <1>9
  <1> QED  BY <1>1, <1>3, <1>4, <1>10, <1>11 DEF rest, ival

LEMMA ShedSound ==
    ASSUME NEW s \in Seq(Frame), s # <<>>
    PROVE  /\ Shed(s) \in Seq(Frame) /\ Shed(s) # <<>>
           /\ \A i \in 1 .. Len(Shed(s)) : \E j \in 1 .. Len(s) : Shed(s)[i] = s[j]
  <1>1. PICK k \in 0 .. Len(s) - 1 : Shed(s) = SubSeq(s, k + 1, Len(s))
    BY ShedIs
  <1>2. Len(s) \in Nat /\ Len(s) > 0 /\ k \in Nat
    OBVIOUS
  <1> DEFINE r == SubSeq(s, k + 1, Len(s))
  <1>3. r \in Seq(Frame) /\ Len(r) = Len(s) - k /\ \A i \in 1 .. Len(s) - k : r[i] = s[k + i]
    BY <1>2
  <1>4. \A i \in 1 .. Len(s) - k : k + i \in 1 .. Len(s)
    BY <1>2
  <1> HIDE DEF r
  <1>5. r # <<>>
    BY <1>2, <1>3
  <1> QED  BY <1>1, <1>3, <1>4, <1>5 DEF r

\* The queue without its first frame.
LEMMA TailSound ==
    ASSUME NEW s \in Seq(Frame), s # <<>>
    PROVE  /\ Tail(s) \in Seq(Frame) /\ Len(Tail(s)) = Len(s) - 1 /\ Len(s) \in Nat /\ Len(s) > 0
           /\ \A i \in 1 .. Len(s) - 1 : Tail(s)[i] = s[i + 1]
           /\ Head(s) = s[1] /\ s[1] \in Frame /\ s[1].dur \in Nat \ {0} /\ s[1].hole \in Nat
  <1>1. Tail(s) \in Seq(Frame) /\ Len(Tail(s)) = Len(s) - 1 /\ Len(s) \in Nat /\ Len(s) > 0
    OBVIOUS
  <1>2. \A i \in 1 .. Len(s) - 1 : Tail(s)[i] = s[i + 1]
    OBVIOUS
  <1>3. Head(s) = s[1] /\ s[1] \in Frame
    BY <1>1
  <1> QED  BY <1>1, <1>2, <1>3 DEF Frame
--------------------------------------------------------------------------------
(* AudioOutput: every step keeps the types.                                *)

\* The steps by name.
LEMMA AudioSteps ==
    ASSUME AudioNext
    PROVE  \/ Drained \/ Write \/ Reopen \/ Fed \/ KeepAlive \/ KeepNothing \/ WriteSome
           \/ Unavailable \/ Recover \/ RecoverFails \/ Rested \/ PlayDone \/ Silent \/ Turn
           \/ NewSession \/ ReopenFails \/ Unwanted \/ ChannelLost
           \/ (\E d \in Durations, h \in Holes : Receive(d, h))
           \/ Drop \/ StopSending \/ Freeze \/ Vanish \/ Tick
  BY DEF AudioNext, Worker

\* What write() makes of the frame it takes.
LEMMA WriteTakes ==
    ASSUME AudioTypeOK, Write
    PROVE  /\ queue # <<>> /\ Silence(queue[1]) \in Nat
           /\ left' \in Nat /\ then' \in Nat /\ then' = queue[1].dur
           /\ job' \in {"silence", "frame"} /\ stalled' = 0
           /\ Silence(queue[1]) > 0 => job' = "silence" /\ left' = Silence(queue[1])
           /\ Silence(queue[1]) = 0 => job' = "frame" /\ left' = queue[1].dur
           /\ fits' = (queue[1].dur <= Capacity - ring)
           /\ queue' = Tail(queue) /\ phase' = "write" /\ phase = "feed" /\ dev # "closed"
           /\ UNCHANGED <<device, output, got, waits, wake, stallAt, sender, slips>>
  <1>1. queue # <<>> /\ queue \in Seq(Frame)
    BY DEF AudioTypeOK, Flags, Amounts, Write
  <1>2. Head(queue) = queue[1] /\ queue[1].dur \in Nat \ {0} /\ queue[1].hole \in Nat
    BY <1>1, TailSound
  <1>3. Free \in Nat
    BY Levels DEF AudioTypeOK, Flags, Amounts, Free
  <1>4. Silence(queue[1]) \in Nat
    BY <1>2, <1>3 DEF Silence, Least, Beyond, Missing
  <1> HIDE DEF Silence
  <1> QED  BY <1>1, <1>2, <1>4 DEF Write, Play, Free

LEMMA ReceiveTakes ==
    ASSUME AudioTypeOK, NEW d \in Durations, NEW h \in Holes, Receive(d, h)
    PROVE  LET f == [dur |-> d, hole |-> h]
               all == Append(queue, f)
           IN  /\ f \in Frame /\ all \in Seq(Frame) /\ all # <<>>
               /\ queue' = Shed(all) /\ queue' \in Seq(Frame) /\ queue' # <<>>
               /\ anchored' \in BOOLEAN /\ anchored' = (anchored /\ Shed(all) = all)
  <1> DEFINE f == [dur |-> d, hole |-> h]
             all == Append(queue, f)
  <1>1. f \in Frame
    BY AudioOutputAssumption DEF Frame
  <1>2. all \in Seq(Frame) /\ all # <<>>
    BY <1>1 DEF AudioTypeOK, Flags, Amounts
  <1>3. queue' = Shed(all) /\ anchored' = (anchored /\ Shed(all) = all)
    BY DEF Receive
  <1> HIDE DEF all, f
  <1>4. queue' \in Seq(Frame) /\ queue' # <<>>
    BY <1>2, <1>3, ShedSound
  <1>5. anchored' \in BOOLEAN
    BY <1>3 DEF AudioTypeOK, Flags, Amounts
  <1> QED  BY <1>1, <1>2, <1>3, <1>4, <1>5 DEF all, f

LEMMA FlagsKept ==
    ASSUME AudioTypeOK, [AudioNext]_audioVars
    PROVE  Flags'
  <1>1. CASE Drained
    BY <1>1, Zenon DEF AudioTypeOK, Flags, Drained, device, output, call, sender
  <1>2. CASE Write
    <2>1. fits' \in BOOLEAN
      BY <1>2, WriteTakes
    <2> QED  BY <1>2, <2>1, Zenon DEF AudioTypeOK, Flags, Write, Play, device, output, call,
                sender
  <1>3. CASE Reopen
    <2>1. fits' \in BOOLEAN
      BY <1>3 DEF Reopen
    <2> QED  BY <1>3, <2>1, Zenon DEF AudioTypeOK, Flags, Reopen, Play, Opened, device,
                output, call, sender
  <1>4. CASE Fed
    BY <1>4, Zenon DEF AudioTypeOK, Flags, Fed, device, output, call, sender
  <1>5. CASE KeepAlive
    BY <1>5, Zenon DEF AudioTypeOK, Flags, KeepAlive, device, output, call, sender
  <1>6. CASE KeepNothing
    BY <1>6, Zenon DEF AudioTypeOK, Flags, KeepNothing, device, output, call, sender
  <1>7. CASE WriteSome
    BY <1>7, Zenon DEF AudioTypeOK, Flags, WriteSome, device, output, call, sender
  <1>8. CASE Unavailable
    BY <1>8, Zenon DEF AudioTypeOK, Flags, Unavailable, device, output, call, sender
  <1>9. CASE Recover
    BY <1>9, Zenon DEF AudioTypeOK, Flags, Recover, device, output, call, sender
  <1>10. CASE RecoverFails
    BY <1>10, Zenon DEF AudioTypeOK, Flags, RecoverFails, device, output, call, sender
  <1>11. CASE PlayDone
    BY <1>11, Zenon DEF AudioTypeOK, Flags, PlayDone, Play, CallOver, device, output, call,
       sender
  <1>12. CASE Silent
    BY <1>12, Zenon DEF AudioTypeOK, Flags, Silent, device, output, call, sender
  <1>13. CASE Turn
    BY <1>13, Zenon DEF AudioTypeOK, Flags, Turn, device, output, call, sender
  <1>14. CASE NewSession
    BY <1>14, Zenon DEF AudioTypeOK, Flags, NewSession, Closed, CallOver, device, output,
       call, sender
  <1>15. CASE ReopenFails
    BY <1>15, Zenon DEF AudioTypeOK, Flags, ReopenFails, Closed, device, output, call, sender
  <1>16. CASE Unwanted
    BY <1>16, Zenon DEF AudioTypeOK, Flags, Unwanted, device, output, call, sender
  <1>17. CASE ChannelLost
    BY <1>17, Zenon DEF AudioTypeOK, Flags, ChannelLost, device, output, call, sender
  <1>18. CASE \E d \in Durations, h \in Holes : Receive(d, h)
    <2>1. PICK d \in Durations, h \in Holes : Receive(d, h)
      BY <1>18
    <2>2. anchored' \in BOOLEAN
      BY <2>1, ReceiveTakes
    <2> QED  BY <2>1, <2>2, Zenon DEF AudioTypeOK, Flags, Receive, device, output, call, sender
  <1>19. CASE Drop
    BY <1>19, Zenon DEF AudioTypeOK, Flags, Drop, device, output, call, sender
  <1>20. CASE StopSending
    BY <1>20, Zenon DEF AudioTypeOK, Flags, StopSending, device, output, call, sender
  <1>21. CASE Freeze
    BY <1>21, Zenon DEF AudioTypeOK, Flags, Freeze, device, output, call, sender
  <1>22. CASE Vanish
    BY <1>22, Zenon DEF AudioTypeOK, Flags, Vanish, device, output, call, sender
  <1>23. CASE Tick
    BY <1>23, Zenon DEF AudioTypeOK, Flags, Tick, device, output, call, sender
  <1>25. CASE Rested
    BY <1>25, Zenon DEF AudioTypeOK, Flags, Rested, device, output, call, sender
  <1>24. CASE UNCHANGED audioVars
    BY <1>24, Zenon DEF AudioTypeOK, Flags, audioVars, device, output, call, sender
  <1> QED
    BY <1>1, <1>2, <1>3, <1>4, <1>5, <1>6, <1>7, <1>8, <1>9, <1>10, <1>11, <1>12, <1>13,
       <1>14, <1>15, <1>16, <1>17, <1>18, <1>19, <1>20, <1>21, <1>22, <1>23, <1>24, <1>25,
       AudioSteps

LEMMA AmountsKept ==
    ASSUME AudioTypeOK, SinkInv, [AudioNext]_audioVars
    PROVE  Amounts'
  <1>0. Amounts
    BY DEF AudioTypeOK
  <1>1. CASE Drained
    BY <1>0, <1>1, Levels DEF Amounts, Phases, Drained, device, output, call, sender
  <1>2. CASE Write
    <2>1. queue' \in Seq(Frame)
      BY <1>0, <1>2, WriteTakes, TailSound DEF Amounts
    <2> QED  BY <1>0, <1>2, <2>1, WriteTakes DEF Amounts, Phases, device, output, call, sender
  <1>3. CASE Reopen
    <2>1. queue # <<>> /\ queue' = Tail(queue)
      BY <1>3 DEF Reopen
    <2>2. queue' \in Seq(Frame) /\ Head(queue).dur \in Nat
      BY <1>0, <2>1, TailSound DEF Amounts
    <2> QED  BY <1>0, <1>3, <2>2, Levels DEF Amounts, Phases, Reopen, Play, Opened, device,
                output, call, sender
  <1>4. CASE Fed
    BY <1>0, <1>4, Levels DEF Amounts, Phases, Fed, device, output, call, sender
  <1>5. CASE KeepAlive
    BY <1>0, <1>5, Levels DEF Amounts, Phases, KeepAlive, Play, device, output, call, sender
  <1>6. CASE KeepNothing
    BY <1>0, <1>6, Levels DEF Amounts, Phases, KeepNothing, device, output, call, sender
  <1>7. CASE WriteSome
    BY <1>0, <1>7, Levels DEF Amounts, Phases, WriteSome, Accepted, Least, Free, Writing,
       device, output, call, sender
  <1>8. CASE Unavailable
    BY <1>0, <1>8, Levels DEF Amounts, Phases, Unavailable, Ends, device, output, call, sender
  <1>9. CASE Recover
    BY <1>0, <1>9, Levels DEF Amounts, Phases, Recover, device, output, call, sender
  <1>10. CASE RecoverFails
    BY <1>0, <1>10, Levels DEF Amounts, Phases, RecoverFails, Ends, device, output, call,
       sender
  <1>11. CASE PlayDone
    BY <1>0, <1>11, Levels DEF Amounts, Phases, PlayDone, Play, CallOver, device, output,
       call, sender
  <1>12. CASE Silent
    BY <1>0, <1>12, Levels DEF Amounts, Phases, Silent, Ends, device, output, call, sender
  <1>13. CASE Turn
    BY <1>0, <1>13, Levels DEF Amounts, Phases, Turn, device, output, call, sender
  <1>14. CASE NewSession
    BY <1>0, <1>14, Levels DEF Amounts, Phases, NewSession, Closed, CallOver, Play, device,
       output, call, sender
  <1>15. CASE ReopenFails
    <2>1. queue # <<>> /\ queue' = Tail(queue)
      BY <1>15 DEF ReopenFails
    <2>2. queue' \in Seq(Frame) /\ Head(queue).dur \in Nat
      BY <1>0, <2>1, TailSound DEF Amounts
    <2> QED  BY <1>0, <1>15, <2>2, Levels DEF Amounts, Phases, ReopenFails, Closed, Ends,
                device, output, call, sender
  <1>16. CASE Unwanted
    BY <1>0, <1>16, Levels DEF Amounts, Phases, Unwanted, Ends, device, output, call, sender
  <1>17. CASE ChannelLost
    BY <1>0, <1>17, Levels DEF Amounts, Phases, ChannelLost, Ends, device, output, call, sender
  <1>18. CASE \E d \in Durations, h \in Holes : Receive(d, h)
    <2>1. PICK d \in Durations, h \in Holes : Receive(d, h)
      BY <1>18
    <2>2. queue' \in Seq(Frame)
      BY <2>1, ReceiveTakes
    <2> QED  BY <1>0, <2>1, <2>2 DEF Amounts, Phases, Receive, device, output, call, sender
  <1>19. CASE Drop
    BY <1>0, <1>19, Levels DEF Amounts, Phases, Drop, device, output, call, sender
  <1>20. CASE StopSending
    BY <1>0, <1>20, Levels DEF Amounts, Phases, StopSending, device, output, call, sender
  <1>21. CASE Freeze
    BY <1>0, <1>21, Levels DEF Amounts, Phases, Freeze, device, output, call, sender
  <1>22. CASE Vanish
    BY <1>0, <1>22, Levels DEF Amounts, Phases, Vanish, device, output, call, sender
  <1>23. CASE Tick
    BY <1>0, <1>23, Levels DEF SinkInv, Amounts, Phases, Tick, Less, Stalled, device, output,
       call, sender
  <1>25. CASE Rested
    BY <1>0, <1>25, Levels DEF Amounts, Phases, Rested, device, output, call, sender
  <1>24. CASE UNCHANGED audioVars
    BY <1>0, <1>24 DEF Amounts, Phases, audioVars, device, output, call, sender
  <1> QED
    BY <1>1, <1>2, <1>3, <1>4, <1>5, <1>6, <1>7, <1>8, <1>9, <1>10, <1>11, <1>12, <1>13,
       <1>14, <1>15, <1>16, <1>17, <1>18, <1>19, <1>20, <1>21, <1>22, <1>23, <1>24, <1>25,
       AudioSteps

LEMMA TypesKept ==
    ASSUME AudioTypeOK, SinkInv, [AudioNext]_audioVars
    PROVE  AudioTypeOK'
  BY FlagsKept, AmountsKept DEF AudioTypeOK
--------------------------------------------------------------------------------
(* AudioOutput: what the device is asked.                                  *)

\* An answer is true of the device, give or take the period it is in.
LEMMA AskedBelow ==
    ASSUME AudioTypeOK, NEW n \in Nat
    PROVE  /\ TRUE \in Below(n) => ring <= n
           /\ FALSE \in Below(n) => ring >= n
  <1>1. ring \in Nat
    BY Levels DEF AudioTypeOK, Amounts
  <1>2. TRUE \in Below(n) => ring < n \/ ring <= n
    BY <1>1, Zenon DEF Below
  <1>3. FALSE \in Below(n) => ~(ring < n) \/ ~(ring <= n)
    BY <1>1, Zenon DEF Below
  <1>4. (ring < n => ring <= n) /\ (~(ring < n) => ring >= n) /\ (~(ring <= n) => ring >= n)
    BY <1>1
  <1> QED  BY <1>2, <1>3, <1>4, Zenon

\* The end of play(): a device that is taken to play has reached its threshold.
LEMMA PlayedWhen ==
    ASSUME AudioTypeOK, PlayDone
    PROVE  /\ playing' => playing \/ (~Broken /\ ring >= Start)
           /\ playing => playing'
  <1>1. PICK short \in Short : playing' = (playing \/ ~short)
    BY DEF PlayDone
  <1>2. Broken => short = TRUE
    BY <1>1, Zenon DEF Short
  <1>3. ~Broken => short \in Below(Start)
    BY <1>1, Zenon DEF Short
  <1>4. short \in BOOLEAN
    <2>1. short = TRUE \/ short = (ring < Start) \/ short = (ring <= Start)
      BY <1>2, <1>3, Zenon DEF Below
    <2>2. (ring < Start) \in BOOLEAN /\ (ring <= Start) \in BOOLEAN
      BY Levels DEF AudioTypeOK, Amounts
    <2> QED  BY <2>1, <2>2, Zenon
  <1>5. ~Broken /\ ~short => ring >= Start
    BY <1>3, <1>4, AskedBelow, Levels
  <1> QED  BY <1>1, <1>2, <1>4, <1>5, Zenon

--------------------------------------------------------------------------------
(* AudioOutput: the device and the room in its ring.                       *)

\* SinkInv is kept however the device is asked.
LEMMA SinkKept ==
    ASSUME AudioTypeOK, SinkInv, [AudioNext]_audioVars
    PROVE  SinkInv'
  <1>0. Amounts /\ Flags /\ SinkInv
    BY DEF AudioTypeOK
  <1>1. CASE Drained
    BY <1>0, <1>1 DEF SinkInv, Blocked, Writing, Broken, Amounts, Drained, device, output,
       call, sender
  <1>2. CASE Write
    BY <1>0, <1>2, WriteTakes DEF SinkInv, Blocked, Writing, Broken, Amounts, Write, Play,
       device, output, call, sender
  <1>3. CASE Reopen
    BY <1>0, <1>3, Levels DEF SinkInv, Blocked, Writing, Broken, Amounts, Reopen, Play,
       Opened, device, output, call, sender
  <1>4. CASE Fed
    BY <1>0, <1>4 DEF SinkInv, Blocked, Writing, Broken, Amounts, Fed, device, output, call,
       sender
  <1>5. CASE KeepAlive
    BY <1>0, <1>5, Levels DEF SinkInv, Blocked, Writing, Broken, Amounts, KeepAlive, Play,
       device, output, call, sender
  <1>6. CASE KeepNothing
    BY <1>0, <1>6 DEF SinkInv, Blocked, Writing, Broken, Amounts, KeepNothing, device,
       output, call, sender
  <1>7. CASE WriteSome
    BY <1>0, <1>7, Levels DEF SinkInv, Blocked, Writing, Broken, Amounts, WriteSome,
       Accepted, Least, Free, device, output, call, sender
  <1>8. CASE Unavailable
    BY <1>0, <1>8, Levels DEF SinkInv, Blocked, Writing, Broken, Amounts, Unavailable, Ends,
       device, output, call, sender
  <1>9. CASE Recover
    BY <1>0, <1>9, Levels DEF SinkInv, Blocked, Writing, Broken, Amounts, Recover, device,
       output, call, sender
  <1>10. CASE RecoverFails
    BY <1>0, <1>10 DEF SinkInv, Blocked, Writing, Broken, Amounts, RecoverFails, Ends,
       device, output, call, sender
  <1>11. CASE PlayDone
    <2>1. UNCHANGED device /\ stalled' = 0 /\ phase = "write" /\ phase' # "rest"
      BY <1>11 DEF PlayDone, Play, CallOver
    <2>2. playing' => playing \/ (dev # "prepared" /\ dev # "closed")
      BY <1>0, <1>11, <2>1, PlayedWhen, Levels DEF SinkInv, Amounts
    <2> QED  BY <1>0, <2>1, <2>2 DEF SinkInv, Blocked, Writing, Broken, Amounts, device
  <1>12. CASE Silent
    BY <1>0, <1>12 DEF SinkInv, Blocked, Writing, Broken, Amounts, Silent, Ends, device,
       output, call, sender
  <1>13. CASE Turn
    BY <1>0, <1>13 DEF SinkInv, Blocked, Writing, Broken, Amounts, Turn, device, output,
       call, sender
  <1>14. CASE NewSession
    BY <1>0, <1>14, Levels DEF SinkInv, Blocked, Writing, Broken, Amounts, NewSession,
       Closed, CallOver, Play, device, output, call, sender
  <1>15. CASE ReopenFails
    BY <1>0, <1>15 DEF SinkInv, Blocked, Writing, Broken, Amounts, ReopenFails, Closed, Ends,
       device, output, call, sender
  <1>16. CASE Unwanted
    BY <1>0, <1>16 DEF SinkInv, Blocked, Writing, Broken, Amounts, Unwanted, Ends, device,
       output, call, sender
  <1>17. CASE ChannelLost
    BY <1>0, <1>17 DEF SinkInv, Blocked, Writing, Broken, Amounts, ChannelLost, Ends, device,
       output, call, sender
  <1>18. CASE \E d \in Durations, h \in Holes : Receive(d, h)
    BY <1>0, <1>18 DEF SinkInv, Blocked, Writing, Broken, Amounts, Receive, device, output,
       call, sender
  <1>19. CASE Drop
    BY <1>0, <1>19 DEF SinkInv, Blocked, Writing, Broken, Amounts, Drop, device, output,
       call, sender
  <1>20. CASE StopSending
    BY <1>0, <1>20 DEF SinkInv, Blocked, Writing, Broken, Amounts, StopSending, device,
       output, call, sender
  <1>21. CASE Freeze
    BY <1>0, <1>21 DEF SinkInv, Blocked, Writing, Broken, Amounts, Freeze, device, output,
       call, sender
  <1>22. CASE Vanish
    BY <1>0, <1>22 DEF SinkInv, Blocked, Writing, Broken, Amounts, Vanish, device, output,
       call, sender
  <1>23. CASE Tick
    BY <1>0, <1>23, Levels DEF SinkInv, Blocked, Writing, Broken, Amounts, Tick, Less,
       Stalled, device, output, call, sender
  <1>25. CASE Rested
    BY <1>0, <1>25, Levels DEF SinkInv, Blocked, Writing, Broken, Amounts, Rested, device,
       output, call, sender
  <1>24. CASE UNCHANGED audioVars
    BY <1>0, <1>24 DEF SinkInv, Blocked, Writing, Broken, Amounts, audioVars, device, output,
       call, sender
  <1> QED
    BY <1>1, <1>2, <1>3, <1>4, <1>5, <1>6, <1>7, <1>8, <1>9, <1>10, <1>11, <1>12, <1>13,
       <1>14, <1>15, <1>16, <1>17, <1>18, <1>19, <1>20, <1>21, <1>22, <1>23, <1>24, <1>25,
       AudioSteps

\* RoomInv, because silence_frames() leaves room for the frame behind the silence.
LEMMA RoomKept ==
    ASSUME AudioTypeOK, SinkInv, RoomInv, [AudioNext]_audioVars
    PROVE  RoomInv'
  <1>0. Amounts /\ Flags /\ SinkInv /\ RoomInv
    BY DEF AudioTypeOK
  <1>1. CASE Drained
    BY <1>0, <1>1 DEF RoomInv, Unwritten, Amounts, Drained, device, output, call, sender
  <1>2. CASE Write
    <2>1. queue \in Seq(Frame) /\ queue # <<>>
      BY <1>0, <1>2, WriteTakes DEF Amounts
    <2>2. queue[1].dur \in Nat \ {0} /\ queue[1].hole \in Nat
      BY <2>1, TailSound
    <2>3. Free = Capacity - ring /\ Free \in Nat
      BY <1>0, Levels DEF Amounts, Free
    <2>4. Silence(queue[1]) > 0 => ring + Silence(queue[1]) + queue[1].dur <= Capacity
      BY SMTT(30), <1>0, <2>2, <2>3, Levels DEF Silence, Least, Beyond, Missing, Amounts
    <2>5. fits' => queue[1].dur <= Capacity - ring
      BY <1>2, WriteTakes
    <2>6. ring' = ring /\ then' = queue[1].dur /\ phase' = "write"
      BY <1>2, WriteTakes DEF device
    <2>7. \/ Silence(queue[1]) > 0 /\ job' = "silence" /\ left' = Silence(queue[1])
          \/ job' = "frame" /\ left' = queue[1].dur
      BY <1>2, WriteTakes
    <2>8. ring' + Unwritten' <= Capacity \/ ~fits'
      <3>1. Silence(queue[1]) \in Nat /\ ring \in Nat
        BY <1>0, <1>2, WriteTakes, Levels DEF Amounts
      <3> QED  BY <2>2, <2>4, <2>5, <2>6, <2>7, <3>1, Levels DEF Unwritten
    <2> QED  BY <2>6, <2>8 DEF RoomInv
  <1>3. CASE Reopen
    <2>1. queue \in Seq(Frame) /\ queue # <<>>
      BY <1>0, <1>3 DEF Reopen, Amounts
    <2>2. Head(queue).dur \in Nat
      BY <2>1, TailSound
    <2>3. /\ ring' = 0 /\ left' = Head(queue).dur /\ job' = "frame" /\ phase' = "write"
          /\ fits' => Head(queue).dur <= Capacity
      BY <1>3 DEF Reopen, Play, Opened
    <2> QED  BY <2>2, <2>3, Levels DEF RoomInv, Unwritten
  <1>4. CASE Fed
    BY <1>0, <1>4 DEF RoomInv, Unwritten, Amounts, Fed, device, output, call, sender
  <1>5. CASE KeepAlive
    <2>1. ring <= Low
      BY <1>5, AskedBelow, Levels DEF KeepAlive
    <2>2. ring' = ring /\ left' = 1 /\ job' = "keep" /\ phase' = "write"
      BY <1>5 DEF KeepAlive, Play, device
    <2> QED  BY <1>0, <2>1, <2>2, Levels DEF RoomInv, Unwritten, Amounts
  <1>6. CASE KeepNothing
    BY <1>0, <1>6 DEF RoomInv, Unwritten, Amounts, KeepNothing, device, output, call, sender
  <1>7. CASE WriteSome
    BY <1>0, <1>7, Levels DEF RoomInv, Unwritten, Amounts, WriteSome, Accepted, Least, Free,
       Writing, device, output, call, sender
  <1>8. CASE Unavailable
    BY <1>0, <1>8 DEF RoomInv, Unwritten, Amounts, Unavailable, Ends, device, output, call,
       sender
  <1>9. CASE Recover
    <2>1. /\ phase = "write" /\ phase' \in {"rest", "unavailable"} /\ ring' = 0
          /\ UNCHANGED <<left, job, then, fits>>
      BY <1>9 DEF Recover, Writing
    <2>2. Unwritten' = Unwritten /\ Unwritten \in Nat /\ ring \in Nat
      BY <1>0, <2>1 DEF Unwritten, Amounts
    <2>3. fits => ring + Unwritten <= Capacity
      BY <1>0, <2>1 DEF RoomInv
    <2> QED  BY <2>1, <2>2, <2>3, Levels DEF RoomInv
  <1>10. CASE RecoverFails
    BY <1>0, <1>10 DEF RoomInv, Unwritten, Amounts, RecoverFails, Ends, device, output, call,
       sender
  <1>11. CASE PlayDone
    <2>1. /\ phase = "write" /\ left = 0 /\ ring' = ring
          /\ \/ phase' = "write" /\ job = "silence" /\ job' = "frame"
                /\ left' = then /\ (fits' => fits)
             \/ phase' # "write" /\ left' = 0 /\ job' = "frame"
      BY <1>11 DEF PlayDone, Play, CallOver, device
    <2> QED  BY <1>0, <2>1, Levels DEF RoomInv, Unwritten, Amounts
  <1>12. CASE Silent
    BY <1>0, <1>12 DEF RoomInv, Unwritten, Amounts, Silent, Ends, device, output, call, sender
  <1>13. CASE Turn
    BY <1>0, <1>13 DEF RoomInv, Unwritten, Amounts, Turn, device, output, call, sender
  <1>14. CASE NewSession
    BY <1>0, <1>14 DEF RoomInv, Unwritten, Amounts, NewSession, Closed, CallOver, Play,
       device, output, call, sender
  <1>15. CASE ReopenFails
    BY <1>0, <1>15 DEF RoomInv, Unwritten, Amounts, ReopenFails, Closed, Ends, device,
       output, call, sender
  <1>16. CASE Unwanted
    BY <1>0, <1>16 DEF RoomInv, Unwritten, Amounts, Unwanted, Ends, device, output, call,
       sender
  <1>17. CASE ChannelLost
    BY <1>0, <1>17 DEF RoomInv, Unwritten, Amounts, ChannelLost, Ends, device, output, call,
       sender
  <1>18. CASE \E d \in Durations, h \in Holes : Receive(d, h)
    BY <1>0, <1>18 DEF RoomInv, Unwritten, Amounts, Receive, device, output, call, sender
  <1>19. CASE Drop
    BY <1>0, <1>19 DEF RoomInv, Unwritten, Amounts, Drop, device, output, call, sender
  <1>20. CASE StopSending
    BY <1>0, <1>20 DEF RoomInv, Unwritten, Amounts, StopSending, device, output, call, sender
  <1>21. CASE Freeze
    BY <1>0, <1>21 DEF RoomInv, Unwritten, Amounts, Freeze, device, output, call, sender
  <1>22. CASE Vanish
    BY <1>0, <1>22 DEF RoomInv, Unwritten, Amounts, Vanish, device, output, call, sender
  <1>23. CASE Tick
    BY <1>0, <1>23, Levels DEF RoomInv, Unwritten, Amounts, Tick, Less, Stalled, device,
       output, call, sender
  <1>25. CASE Rested
    BY <1>0, <1>25 DEF RoomInv, Unwritten, Amounts, Rested, device, output, call, sender
  <1>24. CASE UNCHANGED audioVars
    BY <1>0, <1>24 DEF RoomInv, Unwritten, Amounts, audioVars, device, output, call, sender
  <1> QED
    BY <1>1, <1>2, <1>3, <1>4, <1>5, <1>6, <1>7, <1>8, <1>9, <1>10, <1>11, <1>12, <1>13,
       <1>14, <1>15, <1>16, <1>17, <1>18, <1>19, <1>20, <1>21, <1>22, <1>23, <1>24, <1>25,
       AudioSteps

--------------------------------------------------------------------------------
(* AudioOutput: the keep-alive level.                                      *)

\* FeedInv: every turn leaves the keep-alive level behind.
LEMMA FeedKept ==
    ASSUME AudioTypeOK, SinkInv, FeedInv, [AudioNext]_audioVars
    PROVE  FeedInv'
  <1>0. Amounts /\ Flags /\ SinkInv /\ FeedInv
    BY DEF AudioTypeOK
  <1>1. CASE Drained
    BY <1>0, <1>1 DEF FeedInv, Ended, Amounts, Phases, Drained, device, output, call, sender
  <1>2. CASE Write
    BY <1>0, <1>2 DEF FeedInv, Ended, Amounts, Phases, Write, Play, device, output, call,
       sender
  <1>3. CASE Reopen
    BY <1>0, <1>3 DEF FeedInv, Ended, Amounts, Phases, Reopen, Play, Opened, device, output,
       call, sender
  <1>4. CASE Fed
    BY <1>0, <1>4 DEF FeedInv, Ended, Amounts, Phases, Fed, device, output, call, sender
  <1>5. CASE KeepAlive
    <2>1. /\ UNCHANGED device /\ UNCHANGED playing /\ UNCHANGED slips
          /\ left' = 1 /\ phase = "keep" /\ phase' = "write"
      BY <1>5 DEF KeepAlive, Play
    <2> QED  BY <1>0, <2>1, Levels DEF FeedInv, Ended, Amounts, device
  <1>6. CASE KeepNothing
    <2>1. /\ UNCHANGED device /\ UNCHANGED playing /\ UNCHANGED slips
          /\ phase = "keep" /\ phase' = "loop"
      BY <1>6 DEF KeepNothing, output
    <2>2. dev = "running" /\ playing => ring >= Low
      <3> SUFFICES ASSUME dev = "running", playing PROVE ring >= Low
        OBVIOUS
      <3>1. playing /\ ~Broken
        BY DEF Broken
      <3>2. FALSE \in Below(Low)
        BY <1>6, <3>1 DEF KeepNothing
      <3> QED  BY <3>2, AskedBelow, Levels
    <2> QED  BY <1>0, <2>1, <2>2, Levels DEF FeedInv, Ended, Amounts, device
  <1>7. CASE WriteSome
    BY <1>0, <1>7, Levels DEF FeedInv, Ended, Amounts, Phases, WriteSome, Accepted, Least,
       Free, Writing, device, output, call, sender, SinkInv
  <1>8. CASE Unavailable
    BY <1>0, <1>8 DEF FeedInv, Ended, Amounts, Phases, Unavailable, Ends, device, output,
       call, sender
  <1>9. CASE Recover
    BY <1>0, <1>9, Levels DEF FeedInv, Ended, Amounts, Phases, Recover, device, output, call, sender
  <1>10. CASE RecoverFails
    BY <1>0, <1>10 DEF FeedInv, Ended, Amounts, Phases, RecoverFails, Ends, device, output,
       call, sender
  <1>11. CASE PlayDone
    <2>1. /\ UNCHANGED device /\ UNCHANGED slips /\ phase = "write" /\ left = 0
          /\ \/ phase' = "write" /\ job' = "frame"
             \/ phase' = "feed"
             \/ phase' = "loop" /\ job = "keep"
      BY <1>11 DEF PlayDone, Play, device
    <2>2. playing' => playing \/ (~Broken /\ ring >= Start)
      BY <1>11, PlayedWhen
    <2> QED  BY <1>0, <2>1, <2>2, Levels DEF FeedInv, Ended, Amounts, device, Broken
  <1>12. CASE Silent
    BY <1>0, <1>12 DEF FeedInv, Ended, Amounts, Phases, Silent, Ends, device, output, call,
       sender
  <1>13. CASE Turn
    BY <1>0, <1>13, Levels DEF FeedInv, Ended, Amounts, Phases, Turn, device, output, call,
       sender
  <1>14. CASE NewSession
    BY <1>0, <1>14 DEF FeedInv, Ended, Amounts, Phases, NewSession, Closed, CallOver, Play,
       device, output, call, sender
  <1>15. CASE ReopenFails
    BY <1>0, <1>15 DEF FeedInv, Ended, Amounts, Phases, ReopenFails, Closed, Ends, device,
       output, call, sender
  <1>16. CASE Unwanted
    BY <1>0, <1>16 DEF FeedInv, Ended, Amounts, Phases, Unwanted, Ends, device, output, call,
       sender
  <1>17. CASE ChannelLost
    BY <1>0, <1>17 DEF FeedInv, Ended, Amounts, Phases, ChannelLost, Ends, device, output,
       call, sender
  <1>18. CASE \E d \in Durations, h \in Holes : Receive(d, h)
    BY <1>0, <1>18 DEF FeedInv, Ended, Amounts, Phases, Receive, device, output, call, sender
  <1>19. CASE Drop
    BY <1>0, <1>19 DEF FeedInv, Ended, Amounts, Phases, Drop, device, output, call, sender
  <1>20. CASE StopSending
    BY <1>0, <1>20 DEF FeedInv, Ended, Amounts, Phases, StopSending, device, output, call,
       sender
  <1>21. CASE Freeze
    BY <1>0, <1>21 DEF FeedInv, Ended, Amounts, Phases, Freeze, device, output, call, sender
  <1>22. CASE Vanish
    BY <1>0, <1>22 DEF FeedInv, Ended, Amounts, Phases, Vanish, device, output, call, sender
  <1>23. CASE Tick
    BY <1>0, <1>23, Levels DEF FeedInv, Ended, Amounts, Phases, Tick, Less, Stalled, device,
       output, call, sender, SinkInv, Blocked, Writing, Broken
  <1>25. CASE Rested
    BY <1>0, <1>25, Levels DEF FeedInv, SinkInv, Ended, Amounts, Phases, Rested, device, output,
       call, sender
  <1>24. CASE UNCHANGED audioVars
    BY <1>0, <1>24 DEF FeedInv, Ended, Amounts, Phases, audioVars, device, output, call, sender
  <1> QED
    BY <1>1, <1>2, <1>3, <1>4, <1>5, <1>6, <1>7, <1>8, <1>9, <1>10, <1>11, <1>12, <1>13,
       <1>14, <1>15, <1>16, <1>17, <1>18, <1>19, <1>20, <1>21, <1>22, <1>23, <1>24, <1>25,
       AudioSteps

--------------------------------------------------------------------------------
(* AudioOutput: the cushion of a live sender.                              *)

\* Arithmetic on what a step changes.
LEMMA Sums ==
    /\ \A r, l, s, n \in Nat : r >= s /\ s > n => r + l > n
    /\ \A n \in Nat : n + 1 <= 2 => n = 0 \/ n = 1
    /\ \A n \in Nat : n + 2 <= 2 => n = 0 /\ n + 1 <= 2
    /\ \A n, e \in Nat : n = 0 /\ e <= 2 => n + e <= 2
    /\ \A h, k, g, l, m \in Nat : h = k + 1 + g /\ h > l + m /\ g <= m => k >= l
  OBVIOUS

LEMMA HolesAre ==
    ASSUME NEW s \in Seq(Frame)
    PROVE  \A i \in 1 .. Len(s) : s[i].hole \in Nat
  <1>1. \A i \in 1 .. Len(s) : s[i] \in Frame
    OBVIOUS
  <1> QED  BY <1>1 DEF Frame

\* A sender stays what it is.
LEMMA LiveStays ==
    ASSUME AudioTypeOK, [AudioNext]_audioVars
    PROVE  live' = live
  <1>1. ASSUME NEW d \in Durations, NEW h \in Holes, Receive(d, h) PROVE live' = live
    BY <1>1 DEF Receive
  <1>2. CASE \/ Drained \/ Write \/ Reopen \/ Fed \/ KeepAlive \/ KeepNothing \/ WriteSome
             \/ Unavailable \/ Recover \/ RecoverFails \/ Rested \/ PlayDone \/ Silent \/ Turn
    BY <1>2 DEF Drained, Write, Reopen, Fed, KeepAlive, KeepNothing, WriteSome, Unavailable,
                Recover, RecoverFails, Rested, PlayDone, Silent, Turn, sender
  <1>3. CASE \/ NewSession \/ ReopenFails \/ Unwanted \/ ChannelLost \/ Drop \/ StopSending
             \/ Freeze \/ Vanish \/ Tick
    BY <1>3 DEF NewSession, ReopenFails, Unwanted, ChannelLost, Drop, StopSending, Freeze,
                Vanish, Tick, sender
  <1> QED  BY <1>1, <1>2, <1>3, AudioSteps DEF audioVars, sender

\* A device that has been fed by a live sender is not below the keep-alive level.
LEMMA NeverStarved ==
    ASSUME AudioTypeOK, RoomInv, LiveInv, LevelInv, phase = "keep", dev = "running"
    PROVE  ring >= Low
  <1>1. ring \in Nat /\ gap \in Nat /\ due \in BOOLEAN
    BY Levels DEF AudioTypeOK, Amounts, Flags
  <1>2. IF queue = <<>> THEN Covered ELSE ring >= Target
    BY DEF LevelInv, Ended
  <1>3. CASE queue # <<>>
    BY <1>1, <1>2, <1>3, Levels
  <1>4. CASE queue = <<>>
    <2>1. Waiting(1) = 0 /\ Waiting(2) = 0
      BY <1>4 DEF Waiting
    <2>2. Holding = ring + (IF due THEN 1 ELSE 0) + gap /\ Holding \in Nat
      BY <1>1 DEF Holding, Unwritten, RoomInv
    <2>3. Holding > Low + MaxDrop
      BY <1>2, <1>4, <2>1, <2>2 DEF Covered
    <2> QED  BY <1>1, <2>2, <2>3, Levels DEF LiveInv
  <1> QED  BY <1>3, <1>4

\* A device that a live sender has started does not run dry in a tick.
LEMMA NeverDry ==
    ASSUME live, AudioTypeOK, RoomInv, LiveInv, LevelInv, Tick, dev = "running"
    PROVE  ring > 1
  <1>1. ring \in Nat /\ gap \in Nat /\ due = FALSE /\ wake \in Nat
    BY Levels DEF AudioTypeOK, Amounts, Flags, Tick
  <1>2. CASE Blocked
    BY <1>1, <1>2, Levels DEF Blocked
  <1>3. CASE ~Blocked
    <2>1. phase = "wait" /\ waits # "over"
      BY <1>3, Levels DEF Tick, LiveInv, AudioTypeOK, Amounts
    <2>2. ring + 1 >= Target + wake \/ Holding >= Low
      BY <2>1 DEF LevelInv, Ended
    <2>3. Holding = ring + gap
      BY <1>1, <2>1 DEF Holding, Unwritten, RoomInv
    <2> QED  BY <1>1, <2>2, <2>3, Levels DEF LiveInv
  <1> QED  BY <1>2, <1>3

\* A frame written under a live sender, and the hole before it.
LEMMA LiveWrite ==
    ASSUME AudioTypeOK, LiveInv, Write
    PROVE  /\ queue[1].dur = 1 /\ queue[1].hole \in Nat
           /\ Silence(queue[1]) > 0 => anchored
           /\ anchored => \/ Silence(queue[1]) = queue[1].hole
                          \/ ring + Silence(queue[1]) + 1 >= Capacity
  <1>1. queue # <<>> /\ queue \in Seq(Frame) /\ ring \in Nat /\ ring <= Capacity
    BY WriteTakes, Levels DEF AudioTypeOK, Amounts
  <1>2. Len(queue) \in Nat /\ Len(queue) > 0 /\ queue[1].hole \in Nat
    BY <1>1, TailSound
  <1>3. queue[1].dur = 1 /\ queue[1].hole <= MaxDrop
    BY <1>2 DEF LiveInv
  <1>4. ~Broken
    BY DEF LiveInv, Broken
  <1>5. Missing(queue[1]) = queue[1].hole
    BY <1>2, <1>3, Levels DEF Missing
  <1>6. Silence(queue[1]) > 0 => anchored
    BY DEF Silence
  <1>7. anchored => Silence(queue[1]) = Least(queue[1].hole, Beyond(Capacity - ring, 1))
    BY <1>3, <1>4, <1>5 DEF Silence, Free
  <1> QED  BY <1>1, <1>2, <1>3, <1>6, <1>7, Levels DEF Least, Beyond

\* LiveInv under a live sender.
LEMMA LiveKept ==
    ASSUME live, AudioTypeOK, SinkInv, RoomInv, LiveInv, LevelInv, [AudioNext]_audioVars
    PROVE  LiveInv'
  <1>0. Amounts /\ Flags /\ SinkInv /\ LiveInv /\ live
    BY DEF AudioTypeOK
  <1>1. CASE Drained
    BY <1>0, <1>1 DEF LiveInv, Ended, Follows, Amounts, Phases, Drained, device, output,
       call, sender
  <1>2. CASE Write
    <2>1. queue \in Seq(Frame) /\ queue # <<>>
      BY <1>0, <1>2, WriteTakes DEF Amounts
    <2>2. \A i \in 1 .. Len(queue') : queue'[i].dur = 1 /\ queue'[i].hole <= MaxDrop
      <3>1. queue' = Tail(queue)
        BY <1>2, WriteTakes
      <3> QED  BY <1>0, <2>1, <3>1 DEF LiveInv
    <2>3. job' # "keep" /\ phase' = "write" /\ (job' = "silence" => anchored')
      <3>1. Silence(queue[1]) \in Nat
        BY <1>2, WriteTakes
      <3> QED  BY <1>2, <3>1, WriteTakes, LiveWrite DEF output
    <2>4. UNCHANGED <<slips, dev, gap, got, waits>> /\ phase = "feed"
      BY <1>2, WriteTakes DEF device, sender
    <2>5. Follows'
      BY <1>2, <2>3, WriteTakes DEF Follows
    <2> QED  BY <1>0, <2>2, <2>3, <2>4, <2>5 DEF LiveInv, Ended
  <1>3. CASE Reopen
    BY <1>0, <1>3 DEF LiveInv, Ended, Follows, Amounts, Phases, Reopen, Play, Opened, device,
       output, call, sender
  <1>4. CASE Fed
    BY <1>0, <1>4 DEF LiveInv, Ended, Follows, Amounts, Phases, Fed, device, output, call,
       sender
  <1>5. CASE KeepAlive
    BY <1>0, <1>5 DEF LiveInv, Ended, Follows, Amounts, Phases, KeepAlive, Play, device, output,
       call, sender
  <1>6. CASE KeepNothing
    BY <1>0, <1>6 DEF LiveInv, Ended, Follows, Amounts, Phases, KeepNothing, device, output,
       call, sender
  <1>7. CASE WriteSome
    <2>1. /\ UNCHANGED <<slips, phase, gap, queue, job, anchored, playing, waits, got, due>>
          /\ phase = "write" /\ (dev' = dev \/ dev' = "running")
      BY <1>7 DEF WriteSome, Writing, output, sender
    <2>2. dev # "closed"
      BY <1>0, <2>1 DEF SinkInv
    <2> QED  BY <1>0, <2>1, <2>2 DEF LiveInv, Ended, Follows
  <1>8. CASE Unavailable
    BY <1>0, <1>8 DEF LiveInv, Ended, Follows, Amounts, Phases, Unavailable, Ends, device,
       output, call, sender
  <1>9. CASE Recover
    BY <1>0, <1>9 DEF LiveInv, Ended, Follows, Amounts, Phases, Recover, device, output,
       call, sender, Broken
  <1>10. CASE RecoverFails
    BY <1>0, <1>10 DEF LiveInv, Ended, Follows, Amounts, Phases, RecoverFails, Ends, device,
       output, call, sender
  <1>11. CASE PlayDone
    BY <1>0, <1>11 DEF LiveInv, Ended, Follows, Amounts, Phases, PlayDone, Play, CallOver,
       device, output, call, sender
  <1>12. CASE Silent
    BY <1>0, <1>12 DEF LiveInv, Ended, Follows, Amounts, Phases, Silent, Ends, device,
       output, call, sender
  <1>13. CASE Turn
    BY <1>0, <1>13 DEF LiveInv, Ended, Follows, Amounts, Phases, Turn, device, output, call,
       sender
  <1>14. CASE NewSession
    BY <1>0, <1>14 DEF LiveInv, Ended, Follows, Amounts, Phases, NewSession, Closed,
       CallOver, Play, device, output, call, sender
  <1>15. CASE ReopenFails
    BY <1>0, <1>15 DEF LiveInv, Ended, Follows, Amounts, Phases, ReopenFails, Closed, Ends,
       device, output, call, sender
  <1>16. CASE Unwanted
    BY <1>0, <1>16 DEF LiveInv, Ended, Follows, Amounts, Phases, Unwanted, Ends, device,
       output, call, sender
  <1>17. CASE ChannelLost
    BY <1>0, <1>17 DEF LiveInv, Ended, Follows, Amounts, Phases, ChannelLost, Ends, device,
       output, call, sender
  <1>18. CASE \E d \in Durations, h \in Holes : Receive(d, h)
    <2>1. PICK d \in Durations, h \in Holes : Receive(d, h)
      BY <1>18
    <2>2. d = 1 /\ h = gap /\ phase = "wait"
      BY <2>1 DEF Receive
    <2> DEFINE all == Append(queue, [dur |-> d, hole |-> h])
    <2>3. all \in Seq(Frame) /\ all # <<>> /\ queue' = Shed(all) /\ queue' # <<>>
      BY <2>1, ReceiveTakes
    <2>4. \A i \in 1 .. Len(all) : all[i].dur = 1 /\ all[i].hole <= MaxDrop
      BY <1>0, <2>2, Levels DEF LiveInv, Amounts
    <2> HIDE DEF all
    <2>5. \A i \in 1 .. Len(queue') : queue'[i].dur = 1 /\ queue'[i].hole <= MaxDrop
      BY <2>3, <2>4, ShedSound
    <2>6. /\ UNCHANGED <<slips, dev, job, phase>> /\ gap' = 0 /\ due' = FALSE
          /\ waits' = IF waits = "yes" THEN "over" ELSE waits
      BY <2>1 DEF Receive, device, call
    <2> QED  BY <1>0, <2>2, <2>3, <2>5, <2>6, Levels DEF LiveInv
  <1>19. CASE Drop
    BY <1>0, <1>19, Levels DEF LiveInv, Ended, Follows, Amounts, Phases, Drop, device,
       output, call, sender
  <1>20. CASE StopSending
    BY <1>20 DEF StopSending
  <1>21. CASE Freeze
    BY <1>21 DEF Freeze
  <1>22. CASE Vanish
    BY <1>22 DEF Vanish
  <1>23. CASE Tick
    <2>1. /\ slips' = slips /\ UNCHANGED <<queue, phase, job, gap, got, anchored, playing>>
          /\ \/ phase = "wait" /\ waits' = "yes"
             \/ phase = "write" /\ waits' = waits
      BY <1>0, <1>23 DEF Tick, Blocked, Writing, output, Amounts, LiveInv
    <2>2. dev' = dev
      BY <1>0, <1>23, NeverDry DEF Tick, Amounts, LiveInv
    <2> QED  BY <1>0, <2>1, <2>2 DEF LiveInv, Ended, Follows
  <1>25. CASE Rested
    BY <1>0, <1>25 DEF LiveInv, Rested
  <1>24. CASE UNCHANGED audioVars
    BY <1>0, <1>24 DEF LiveInv, Ended, Follows, Amounts, Phases, audioVars, device, output,
       call, sender
  <1> QED
    BY <1>1, <1>2, <1>3, <1>4, <1>5, <1>6, <1>7, <1>8, <1>9, <1>10, <1>11, <1>12, <1>13,
       <1>14, <1>15, <1>16, <1>17, <1>18, <1>19, <1>20, <1>21, <1>22, <1>23, <1>24, <1>25,
       AudioSteps

\* LevelInv under a live sender.
LEMMA LevelKept ==
    ASSUME live, AudioTypeOK, SinkInv, RoomInv, LiveInv, LevelInv, [AudioNext]_audioVars
    PROVE  LevelInv'
  <1>0. Amounts /\ Flags /\ LiveInv /\ LevelInv /\ RoomInv /\ live
    BY DEF AudioTypeOK
  <1>a. /\ ring \in Nat /\ left \in Nat /\ then \in Nat /\ wake \in Nat /\ gap \in Nat
        /\ queue \in Seq(Frame) /\ Len(queue) \in Nat /\ Unwritten \in Nat
        /\ Expected \in Nat
    BY <1>0, Levels DEF Amounts, Unwritten, Expected
  <1>b. \A i \in 1 .. Len(queue) : queue[i].hole \in Nat
    BY <1>a, HolesAre
  <1>c. Waiting(1) \in Nat /\ Waiting(2) \in Nat
    BY <1>a, <1>b DEF Waiting
  <1>1. CASE Drained
    <2>1. /\ UNCHANGED <<dev, ring, queue, left, job, then, due, gap, anchored>>
          /\ phase = "wait" /\ phase' = "feed"
      BY <1>1 DEF Drained, device, output, call, sender
    <2>2. Unwritten' = Unwritten /\ Holding' = Holding
          /\ Waiting(1)' = Waiting(1) /\ Waiting(2)' = Waiting(2)
      BY <2>1 DEF Unwritten, Holding, Waiting
    <2>3. Covered => Covered'
      BY <2>1, <2>2 DEF Covered, Follows
    <2> QED  BY <1>0, <1>a, <2>1, <2>2, <2>3, Levels DEF LevelInv, Ended
  <1>2. CASE Write
    <2>1. /\ queue # <<>> /\ queue' = Tail(queue) /\ phase = "feed" /\ phase' = "write"
          /\ UNCHANGED <<dev, ring, due, gap, anchored>> /\ then' = 1
      BY <1>2, WriteTakes, LiveWrite DEF device, output, sender
    <2>2. Unwritten = 0
      BY <1>0, <2>1 DEF RoomInv, Unwritten
    <2> DEFINE s == Silence(queue[1])
    <2>3. s \in Nat /\ Unwritten' = s + 1
      <3>1. s \in Nat /\ (s > 0 => job' = "silence" /\ left' = s)
            /\ (s = 0 => job' = "frame" /\ left' = 1)
        BY <1>2, WriteTakes, LiveWrite
      <3> HIDE DEF s
      <3> QED  BY <2>1, <3>1 DEF Unwritten
    <2>4. Follows'
      <3>1. s > 0 => anchored
        BY <1>2, LiveWrite
      <3>2. s = 0 => job' = "frame"
        BY <1>2, WriteTakes
      <3> HIDE DEF s
      <3> QED  BY <2>1, <2>3, <3>1, <3>2 DEF Follows
    <2>a. job' # "keep"
      BY <1>2, WriteTakes
    <2> SUFFICES ASSUME dev = "running"
                 PROVE  (ring + Unwritten > Low + MaxDrop \/ (Len(queue) <= 2 /\ Covered))'
      BY <2>1, <2>a DEF LevelInv
    <2>5. CASE ring + Unwritten > Low + MaxDrop
      <3> HIDE DEF s
      <3> QED  BY <1>a, <2>1, <2>2, <2>3, <2>5, Levels
    <2>6. CASE Len(queue) <= 2 /\ Covered
      <3>1. anchored
        BY <2>1, <2>6 DEF Covered, Follows
      <3>2. s = queue[1].hole \/ ring + s + 1 >= Capacity
        BY <1>2, <3>1, LiveWrite
      <3> HIDE DEF s
      <3>3. CASE ring + s + 1 >= Capacity
        BY <1>a, <2>1, <2>3, <3>3, Levels
      <3>4. CASE s = queue[1].hole
        <4>1. Len(queue) > 0 /\ Len(queue') = Len(queue) - 1
              /\ (Len(queue) = 2 => queue'[1] = queue[2])
          BY <1>a, <2>1, TailSound
        <4>2. Waiting(1) = 1 + s /\ Waiting(1)' = Waiting(2) /\ Waiting(2)' = 0
          BY <1>a, <2>6, <3>4, <4>1 DEF Waiting
        <4>3. Holding' = Holding + 1 + s
          BY <1>a, <2>1, <2>2, <2>3 DEF Holding
        <4>4. Holding \in Nat
          BY <1>a DEF Holding
        <4> QED  BY <1>a, <1>c, <2>3, <2>4, <2>6, <4>1, <4>2, <4>3, <4>4 DEF Covered
      <3> QED  BY <3>2, <3>3, <3>4
    <2> QED  BY <1>0, <2>1, <2>5, <2>6 DEF LevelInv, Ended
  <1>3. CASE Reopen
    BY <1>3 DEF LevelInv, Reopen, Opened
  <1>4. CASE Fed
    <2>1. /\ UNCHANGED <<dev, ring, queue, left, job, then, due, gap, anchored>>
          /\ phase = "feed" /\ phase' = "keep" /\ (queue = <<>> \/ FALSE \in Room)
      BY <1>4 DEF Fed, device, output, call, sender
    <2>2. Unwritten = 0 /\ Unwritten' = 0 /\ Holding' = Holding
      BY <1>0, <2>1 DEF RoomInv, Unwritten, Holding
    <2>3. Waiting(1)' = Waiting(1) /\ Waiting(2)' = Waiting(2)
      BY <2>1 DEF Waiting
    <2> SUFFICES ASSUME dev = "running"
                 PROVE  (IF queue = <<>> THEN Covered ELSE ring >= Target)'
      BY <2>1 DEF LevelInv
    <2>4. CASE queue # <<>>
      <3>1. FALSE \in Below(Target)
        BY <2>1, <2>4 DEF Room, Broken
      <3> QED  BY <2>1, <2>4, <3>1, AskedBelow, Levels
    <2>5. CASE queue = <<>>
      <3>1. Follows'
        BY <1>0, <2>1, <2>5 DEF LiveInv, Ended, Follows
      <3>2. Covered \/ Holding > Low + MaxDrop
        BY <1>0, <1>a, <2>1, <2>2, Levels DEF LevelInv, Ended, Holding
      <3>3. Holding \in Nat
        BY <1>a DEF Holding
      <3>4. Holding' + Waiting(1)' + Waiting(2)' > Low + MaxDrop
        BY <1>c, <2>2, <2>3, <3>2, <3>3, Levels DEF Covered
      <3> QED  BY <2>1, <2>5, <3>1, <3>4 DEF Covered
    <2> QED  BY <2>4, <2>5
  <1>5. CASE KeepAlive
    <2>1. /\ UNCHANGED <<dev, ring, queue, then, due, gap, anchored>> /\ left' = 1
          /\ job' = "keep" /\ phase = "keep" /\ phase' = "write"
      BY <1>5 DEF KeepAlive, Play, device, sender
    <2>2. Unwritten = 0 /\ Unwritten' = 1 /\ Holding' = Holding + 1 /\ Holding \in Nat
          /\ Waiting(1)' = Waiting(1) /\ Waiting(2)' = Waiting(2)
      BY <1>0, <1>a, <2>1 DEF RoomInv, Unwritten, Holding, Waiting
    <2>3. Covered => Covered'
      BY <1>c, <2>1, <2>2, Levels DEF Covered, Follows
    <2> SUFFICES ASSUME dev = "running" PROVE (queue = <<>> /\ Len(queue) <= 2 /\ Covered)'
      BY <2>1 DEF LevelInv
    <2>4. ring <= Low
      BY <1>5, AskedBelow, Levels DEF KeepAlive
    <2>5. queue = <<>> /\ Covered
      BY <1>0, <1>a, <2>1, <2>4, Levels DEF LevelInv, Ended
    <2> QED  BY <2>1, <2>3, <2>5
  <1>6. CASE KeepNothing
    <2>1. /\ UNCHANGED <<dev, ring, queue, left, job, then, due, gap, anchored>>
          /\ phase = "keep" /\ phase' = "loop"
      BY <1>6 DEF KeepNothing, device, output, call, sender
    <2>2. Unwritten' = Unwritten /\ Holding' = Holding
          /\ Waiting(1)' = Waiting(1) /\ Waiting(2)' = Waiting(2)
      BY <2>1 DEF Unwritten, Holding, Waiting
    <2>3. Covered => Covered'
      BY <2>1, <2>2 DEF Covered, Follows
    <2> QED  BY <1>0, <2>1, <2>3 DEF LevelInv, Ended
  <1>7. CASE WriteSome
    <2>1. /\ UNCHANGED <<queue, phase, job, then, due, gap, anchored>> /\ phase = "write"
          /\ dev' = dev \/ (dev = "prepared" /\ ring' >= Start)
      BY <1>0, <1>7 DEF WriteSome, Writing, Broken, SinkInv, Amounts, output, sender
    <2>0. PICK n \in Nat : n <= left /\ ring' = ring + n /\ left' = left - n
      <3>1. Accepted \in Nat /\ Accepted <= left
        BY <1>0, Levels DEF Accepted, Least, Free, Amounts
      <3> QED  BY <1>7, <3>1 DEF WriteSome
    <2>2. Unwritten' \in Nat /\ ring' + Unwritten' = ring + Unwritten
      <3>1. Unwritten' = Unwritten - n /\ Unwritten - n \in Nat
        BY <1>a, <2>0, <2>1 DEF Unwritten
      <3>2. (ring + n) + (Unwritten - n) = ring + Unwritten
        BY <1>a, <2>0
      <3> QED  BY <2>0, <3>1, <3>2
    <2>3. Holding' = Holding /\ Waiting(1)' = Waiting(1) /\ Waiting(2)' = Waiting(2)
      BY <1>a, <2>1, <2>2 DEF Holding, Waiting
    <2>4. Covered => Covered'
      BY <2>1, <2>3 DEF Covered, Follows
    <2>5. ring' >= Start => ring' + Unwritten' > Low + MaxDrop
      <3>1. ring' \in Nat /\ Unwritten' \in Nat
        BY <1>a, <2>0, <2>2
      <3>2. Start \in Nat /\ Low + MaxDrop \in Nat /\ Start > Low + MaxDrop
        BY Levels
      <3> QED  BY <3>1, <3>2, Sums, Zenon
    <2>6. dev = "prepared" => job' # "keep"
      BY <1>0, <2>1 DEF LiveInv, SinkInv
    <2> QED  BY <1>0, <2>1, <2>2, <2>4, <2>5, <2>6 DEF LevelInv, Ended
  <1>8. CASE Unavailable
    BY <1>8 DEF LevelInv, Ended, Unavailable, Ends
  <1>9. CASE Recover
    BY <1>9 DEF LevelInv, Recover
  <1>10. CASE RecoverFails
    BY <1>10 DEF LevelInv, Ended, RecoverFails, Ends
  <1>11. CASE PlayDone
    <2>1. /\ UNCHANGED <<dev, ring, queue, due, gap>> /\ phase = "write" /\ left = 0
          /\ \/ phase' = "write" /\ job = "silence" /\ job' = "frame" /\ left' = then
             \/ phase' = "feed" /\ job = "frame" /\ job' = "frame" /\ left' = 0 /\ anchored'
             \/ /\ phase' = "loop" /\ job = "keep" /\ job' = "frame" /\ left' = 0
                /\ anchored' = anchored
      BY <1>0, <1>11 DEF PlayDone, Play, CallOver, LiveInv, device, sender
    <2>2. Unwritten' = Unwritten /\ (Follows => Follows')
      BY <1>a, <2>1 DEF Unwritten, Follows
    <2>3. Holding' = Holding /\ Waiting(1)' = Waiting(1) /\ Waiting(2)' = Waiting(2)
      BY <2>1, <2>2 DEF Holding, Waiting
    <2>4. Covered => Covered'
      BY <2>2, <2>3 DEF Covered
    <2> QED  BY <1>0, <2>1, <2>2, <2>4 DEF LevelInv, Ended
  <1>12. CASE Silent
    BY <1>12 DEF LevelInv, Ended, Silent, Ends
  <1>13. CASE Turn
    <2>1. /\ UNCHANGED <<dev, ring, queue, left, job, then, due, gap, anchored, waits>>
          /\ phase = "loop" /\ phase' = "wait" /\ (queue # <<>> => wake' = 1)
      BY <1>13 DEF Turn, device, output, call, sender
    <2>2. Unwritten' = Unwritten /\ Holding' = Holding
          /\ Waiting(1)' = Waiting(1) /\ Waiting(2)' = Waiting(2)
      BY <2>1 DEF Unwritten, Holding, Waiting
    <2>3. Covered => Covered'
      BY <2>1, <2>2 DEF Covered, Follows
    <2>4. queue = <<>> => Len(queue) = 0
      OBVIOUS
    <2>5. Expected' <= 2
      BY DEF Expected
    <2>6. queue = <<>> /\ Covered => Holding >= Low
      <3>1. queue = <<>> => Waiting(1) = 0 /\ Waiting(2) = 0
        BY <2>4 DEF Waiting
      <3>2. Holding \in Nat
        BY <1>a DEF Holding
      <3> QED  BY <3>1, <3>2, Levels DEF Covered
    <2> SUFFICES ASSUME dev = "running"
                 PROVE  (\/ ring + 1 >= Target + wake
                         \/ /\ Len(queue) + Expected <= 2 /\ Covered
                            /\ waits # "over" => Holding >= Low)'
      BY <2>1 DEF LevelInv
    <2>7. CASE queue = <<>>
      <3>1. Covered
        BY <1>0, <2>1, <2>7 DEF LevelInv, Ended
      <3>2. Len(queue') + Expected' <= 2
        <4>1. Len(queue') = 0 /\ Len(queue') \in Nat /\ Expected' \in Nat
          BY <2>1, <2>4, <2>7 DEF Expected
        <4> QED  BY <2>5, <4>1, Sums, Zenon
      <3> QED  BY <2>2, <2>3, <2>6, <2>7, <3>1, <3>2
    <2>8. CASE queue # <<>>
      <3>1. ring >= Target /\ wake' = 1 /\ ring' = ring
        BY <1>0, <2>1, <2>8 DEF LevelInv, Ended
      <3> QED  BY <1>a, <3>1, Levels
    <2> QED  BY <2>7, <2>8
  <1>14. CASE NewSession
    BY <1>14 DEF LevelInv, NewSession, Closed
  <1>15. CASE ReopenFails
    BY <1>15 DEF LevelInv, Ended, ReopenFails, Ends
  <1>16. CASE Unwanted
    BY <1>16 DEF LevelInv, Ended, Unwanted, Ends
  <1>17. CASE ChannelLost
    BY <1>17 DEF LevelInv, Ended, ChannelLost, Ends
  <1>18. CASE \E d \in Durations, h \in Holes : Receive(d, h)
    <2>1. PICK d \in Durations, h \in Holes : Receive(d, h)
      BY <1>18
    <2>2. /\ d = 1 /\ h = gap /\ phase = "wait" /\ due /\ due' = FALSE /\ gap' = 0
          /\ UNCHANGED <<dev, ring, phase, left, job, then, wake>>
      BY <1>0, <2>1 DEF Receive, device, call
    <2> DEFINE all == Append(queue, [dur |-> d, hole |-> h])
    <2>3. /\ all \in Seq(Frame) /\ all # <<>> /\ queue' = Shed(all)
          /\ anchored' = (anchored /\ Shed(all) = all)
      BY <2>1, ReceiveTakes
    <2> SUFFICES ASSUME dev = "running", ~(ring + 1 >= Target + wake)
                 PROVE  (/\ Len(queue) + Expected <= 2 /\ Covered
                         /\ waits # "over" => Holding >= Low)'
      BY <2>2 DEF LevelInv
    <2>a. Len(queue) + Expected <= 2 /\ Covered
      BY <1>0, <2>2 DEF LevelInv, Ended
    <2>b. \/ waits = "no" /\ waits' = "no" /\ Expected = 2 /\ Expected' = 1
          \/ waits = "yes" /\ waits' = "over" /\ Expected = 1 /\ Expected' = 0
      BY <1>0, <2>1, <2>2 DEF Receive, Expected, LiveInv, Amounts
    <2>4. Len(queue) + 1 <= 2 /\ Covered
      BY <1>a, <2>a, <2>b, Sums
    <2>5. Len(all) = Len(queue) + 1 /\ all[Len(all)].dur = 1 /\ all[Len(all)].hole = gap
      BY <1>a, <2>2
    <2>6. \A i \in 1 .. Len(queue) : all[i] = queue[i]
      BY <1>a
    <2> HIDE DEF all
    <2>7. Shed(all) = all
      BY <1>a, <2>3, <2>4, <2>5, ShedIs
    <2>8. queue' = all /\ Follows'
      BY <2>2, <2>3, <2>4, <2>7 DEF Covered, Follows
    <2>9. Waiting(1)' + Waiting(2)' = Waiting(1) + Waiting(2) + 1 + gap
      <3>1. CASE Len(queue) = 0
        <4>1. Len(queue') = 1 /\ queue'[1].hole = gap
          BY <2>5, <2>8, <3>1
        <4>2. Waiting(1)' = 1 + gap /\ Waiting(2)' = 0 /\ Waiting(1) = 0 /\ Waiting(2) = 0
          BY <3>1, <4>1 DEF Waiting
        <4> QED  BY <1>a, <4>2
      <3>2. CASE Len(queue) = 1
        <4>1. Len(queue') = 2 /\ queue'[2].hole = gap /\ queue'[1] = queue[1]
          BY <2>5, <2>6, <2>8, <3>2
        <4>2. Waiting(1)' = Waiting(1) /\ Waiting(2)' = 1 + gap /\ Waiting(2) = 0
          BY <3>2, <4>1 DEF Waiting
        <4> QED  BY <1>a, <1>c, <4>2
      <3>3. Len(queue) = 0 \/ Len(queue) = 1
        BY <1>a, <2>4, Sums, Zenon
      <3> QED  BY <3>1, <3>2, <3>3
    <2>10. Holding = Holding' + 1 + gap /\ Holding' \in Nat
      BY <1>a, <2>2 DEF Holding, Unwritten
    <2>11. Waiting(1)' \in Nat /\ Waiting(2)' \in Nat
      <3>1. \A i \in 1 .. Len(all) : all[i].hole \in Nat
        BY <2>3, HolesAre
      <3> QED  BY <2>3, <2>8, <3>1 DEF Waiting
    <2>12. Holding' + Waiting(1)' + Waiting(2)' > Low + MaxDrop
      <3>1. Holding + Waiting(1) + Waiting(2) > Low + MaxDrop
        BY <2>4 DEF Covered
      <3>2. gap \in Nat /\ Low \in Nat /\ MaxDrop \in Nat
        BY <1>a, Levels
      <3> QED  BY <1>c, <2>9, <2>10, <2>11, <3>1, <3>2
    <2>13. Covered'
      BY <2>8, <2>12 DEF Covered
    <2>14. Len(queue') + Expected' <= 2
      BY <1>a, <2>a, <2>b, <2>5, <2>8
    <2>15. waits' # "over" => Holding' >= Low
      <3> SUFFICES ASSUME waits' # "over" PROVE Holding' >= Low
        OBVIOUS
      <3>1. Len(queue) = 0
        BY <1>a, <2>a, <2>b
      <3>2. Waiting(1) = 0 /\ Waiting(2) = 0
        BY <3>1 DEF Waiting
      <3>3. Holding > Low + MaxDrop
        BY <1>a, <2>4, <2>10, <3>2 DEF Covered
      <3>4. gap <= MaxDrop
        BY <1>0 DEF LiveInv
      <3>5. Holding \in Nat /\ Low \in Nat /\ MaxDrop \in Nat /\ gap \in Nat
        BY <1>a, Levels DEF Holding
      <3> QED  BY <2>10, <3>3, <3>4, <3>5, Sums, Zenon
    <2> QED  BY <2>13, <2>14, <2>15
  <1>19. CASE Drop
    <2>1. /\ UNCHANGED <<dev, ring, queue, phase, left, job, then, anchored, wake, waits>>
          /\ due /\ due' = FALSE /\ gap' = gap + 1
      BY <1>19 DEF Drop, device, output, call
    <2>2. Unwritten' = Unwritten /\ Holding' = Holding
          /\ Waiting(1)' = Waiting(1) /\ Waiting(2)' = Waiting(2)
      <3>1. Waiting(1)' = Waiting(1) /\ Waiting(2)' = Waiting(2)
        BY <2>1 DEF Waiting
      <3>2. Unwritten' = Unwritten /\ Unwritten \in Nat
        BY SMTT(30), <1>a, <2>1 DEF Unwritten
      <3>3. Holding' = Holding
        BY SMTT(30), <1>a, <2>1, <3>2 DEF Holding
      <3> QED  BY <3>1, <3>2, <3>3
    <2>3. Covered => Covered'
      BY <2>1, <2>2 DEF Covered, Follows
    <2>4. Expected' <= Expected /\ Expected' \in Nat
      BY <2>1 DEF Expected
    <2> QED  BY <1>0, <1>a, <2>1, <2>2, <2>3, <2>4 DEF LevelInv, Ended
  <1>20. CASE StopSending
    BY <1>0, <1>20 DEF StopSending
  <1>21. CASE Freeze
    BY <1>0, <1>21 DEF Freeze
  <1>22. CASE Vanish
    BY <1>0, <1>22 DEF Vanish
  <1>23. CASE Tick
    <2>1. /\ UNCHANGED <<queue, phase, job, left, then, gap, anchored>> /\ ~due /\ due' = TRUE
          /\ ring' = ring \/ (ring' = ring - 1 /\ dev = "running")
          /\ dev' = "running" => dev = "running" /\ ring > 0
          /\ \/ /\ phase = "wait" /\ wake > 0 /\ wake' = wake - 1
                /\ waits # "over" /\ waits' = "yes"
             \/ Blocked /\ phase = "write"
      BY <1>0, <1>23 DEF Tick, Less, SinkInv, Blocked, Writing, output, Amounts, LiveInv
    <2> SUFFICES ASSUME dev' = "running"
                 PROVE  LevelInv'
      BY DEF LevelInv
    <2>2. CASE Blocked /\ phase = "write"
      <3>1. ring = Capacity /\ left > 0 /\ left' = left
        BY <2>1, <2>2 DEF Blocked, Writing
      <3>2. Unwritten' = Unwritten /\ Unwritten > 0
        BY <1>a, <2>1, <3>1 DEF Unwritten
      <3>3. ring' + Unwritten' > Low + MaxDrop
        BY <1>a, <2>1, <3>1, <3>2, Levels
      <3>5. Waiting(1)' = Waiting(1) /\ Waiting(2)' = Waiting(2)
        BY <2>1 DEF Waiting
      <3>6. Holding' >= Holding /\ Holding \in Nat /\ Holding' \in Nat
        BY <1>a, <2>1, <3>2 DEF Holding
      <3>7. Covered => Covered'
        BY <1>c, <2>1, <3>5, <3>6, Levels DEF Covered, Follows
      <3> QED  BY <1>0, <2>1, <2>2, <3>3, <3>7 DEF LevelInv, Ended
    <2>3. CASE phase = "wait" /\ wake > 0 /\ wake' = wake - 1 /\ waits # "over" /\ waits' = "yes"
      <3>1. Expected = 1 /\ Expected' = 1
        BY <1>0, <2>1, <2>3 DEF Expected, Amounts
      <3>2. Unwritten' = Unwritten /\ Waiting(1)' = Waiting(1) /\ Waiting(2)' = Waiting(2)
        BY <2>1 DEF Unwritten, Waiting
      <3>3. Holding' >= Holding /\ Holding \in Nat /\ Holding' \in Nat
        BY <1>a, <2>1, <3>2 DEF Holding
      <3>4. Covered => Covered'
        BY <1>c, <2>1, <3>2, <3>3, Levels DEF Covered, Follows
      <3> QED  BY <1>0, <1>a, <2>1, <2>3, <3>1, <3>3, <3>4, Levels DEF LevelInv, Ended
    <2> QED  BY <2>1, <2>2, <2>3
  <1>25. CASE Rested
    BY <1>0, <1>25 DEF LiveInv, Rested
  <1>24. CASE UNCHANGED audioVars
    BY <1>0, <1>24 DEF LevelInv, Ended, Covered, Follows, Holding, Unwritten, Waiting, Expected,
       audioVars, device, output, call, sender
  <1> QED
    BY <1>1, <1>2, <1>3, <1>4, <1>5, <1>6, <1>7, <1>8, <1>9, <1>10, <1>11, <1>12, <1>13,
       <1>14, <1>15, <1>16, <1>17, <1>18, <1>19, <1>20, <1>21, <1>22, <1>23, <1>24, <1>25,
       AudioSteps

--------------------------------------------------------------------------------
(* AudioOutput: the theorems.                                              *)

LEMMA AudioInitInv == AudioInit => AudioInv
  <1> SUFFICES ASSUME AudioInit PROVE AudioInv
    OBVIOUS
  <1>1. Flags
    BY Zenon DEF AudioInit, Flags
  <1>2. Amounts
    BY Levels DEF AudioInit, Amounts, Phases
  <1>3. SinkInv /\ RoomInv /\ FeedInv
    BY Levels DEF AudioInit, SinkInv, RoomInv, FeedInv, Blocked, Writing
  <1>4. LiveInv /\ LevelInv
    BY Levels DEF AudioInit, LiveInv, LevelInv, Ended
  <1> QED  BY <1>1, <1>2, <1>3, <1>4 DEF AudioInv, WriteInv, AudioTypeOK, CushionInv

LEMMA WriteInvKept == WriteInv /\ [AudioNext]_audioVars => WriteInv'
  BY TypesKept, SinkKept, RoomKept DEF WriteInv

LEMMA AudioInvKept ==
    ASSUME AudioInv, [AudioNext]_audioVars
    PROVE  AudioInv'
  <1>1. AudioTypeOK /\ SinkInv /\ RoomInv /\ FeedInv /\ CushionInv
    BY DEF AudioInv, WriteInv
  <1>2. AudioTypeOK' /\ SinkInv' /\ RoomInv'
    BY <1>1, TypesKept, SinkKept, RoomKept
  <1>3. FeedInv'
    BY <1>1, FeedKept
  <1>4. CushionInv'
    <2> SUFFICES ASSUME live' PROVE LiveInv' /\ LevelInv'
      BY DEF CushionInv
    <2>1. live
      BY <1>1, LiveStays
    <2>2. LiveInv /\ LevelInv
      BY <1>1, <2>1 DEF CushionInv
    <2> QED  BY <1>1, <1>3, <2>1, <2>2, LiveKept, LevelKept
  <1> QED  BY <1>2, <1>3, <1>4 DEF AudioInv, WriteInv

\* Every variable of an audio session keeps its type, the device runs from its
\* threshold on, and what is written of a frame that fitted fits.
THEOREM WriteInvariant == AudioSpec => []WriteInv
  <1>1. AudioInit => WriteInv
    BY AudioInitInv DEF AudioInv
  <1> QED  BY <1>1, WriteInvKept, PTL DEF AudioSpec

\* However far a device has moved when it is asked, what the ring holds and what a live
\* sender has made good for keep the device fed.
THEOREM AudioInvariant == AudioSpec => []AudioInv
  <1>1. AudioInv /\ [AudioNext]_audioVars => AudioInv'
    BY AudioInvKept
  <1> QED  BY <1>1, AudioInitInv, PTL DEF AudioSpec

\* The keep-alive level of a device known to play absorbs a late wake, the silence written for a hole never
\* makes a frame wait that had room, and what a live sender drops is made up for.
THEOREM RingIsKept == AudioSpec => []RingKept
  <1>1. ASSUME AudioInv PROVE RingKept
    <2>1. AudioTypeOK /\ RoomInv /\ FeedInv /\ CushionInv
      BY <1>1 DEF AudioInv, WriteInv
    <2>2. UnderrunMeansLate
      BY <2>1 DEF FeedInv, UnderrunMeansLate
    <2>3. ConcealFits
      <3>1. /\ ring \in Nat /\ left \in Nat /\ then \in Nat
        BY <2>1, Levels DEF AudioTypeOK, Amounts
      <3> QED  BY <2>1, <3>1, Levels DEF RoomInv, ConcealFits, Blocked, Writing, Unwritten
    <2>4. CushionKept
      <3> SUFFICES ASSUME live
                   PROVE  dev # "xrun" /\ (phase = "keep" /\ dev = "running" => ring >= Low)
        BY DEF CushionKept
      <3>1. LiveInv /\ LevelInv
        BY <2>1 DEF CushionInv
      <3> QED  BY <2>1, <3>1, NeverStarved DEF LiveInv
    <2> QED  BY <2>2, <2>3, <2>4 DEF RingKept
  <1> QED  BY <1>1, AudioInvariant, PTL

\* play() gives a sink up only if it takes nothing any more, or has failed again.
THEOREM LiveSinksAreKept == AudioSpec => LiveSinkKept
  <1>1. ASSUME WriteInv, [AudioNext]_audioVars
        PROVE  [phase # "unavailable" /\ Ends("unavailable") => frozen \/ Broken]_audioVars
    <2> SUFFICES ASSUME AudioNext, phase # "unavailable", phase' = "unavailable"
                 PROVE  frozen \/ Broken
      BY <1>1, Zenon DEF Ends
    <2>1. SinkInv /\ AudioTypeOK
      BY <1>1 DEF WriteInv
    <2>2. CASE Unavailable
      BY <2>1, <2>2, Levels DEF SinkInv, Unavailable, AudioTypeOK, Amounts
    <2>3. CASE Recover
      BY <2>3 DEF Recover
    <2>4. CASE \/ Drained \/ Write \/ Reopen \/ Fed \/ KeepAlive \/ KeepNothing
               \/ RecoverFails \/ Rested \/ PlayDone \/ Silent \/ Turn \/ NewSession
               \/ ReopenFails \/ Unwanted \/ ChannelLost
      <3>1. PlayDone => phase' # "unavailable"
        BY DEF PlayDone
      <3> QED  BY <2>4, <3>1 DEF Drained, Write, Reopen, Fed, KeepAlive, KeepNothing,
            RecoverFails, Rested, Silent, Turn, NewSession, ReopenFails, Unwanted,
            ChannelLost, Ends
    <2>5. CASE WriteSome \/ Drop \/ StopSending \/ Freeze \/ Vanish \/ Tick
      BY <2>5 DEF WriteSome, Drop, StopSending, Freeze, Vanish, Tick
    <2>6. CASE \E d \in Durations, h \in Holes : Receive(d, h)
      BY <2>6 DEF Receive
    <2> QED  BY <2>2, <2>3, <2>4, <2>5, <2>6, AudioSteps
  <1> QED  BY <1>1, WriteInvariant, PTL DEF AudioSpec, LiveSinkKept
================================================================================
