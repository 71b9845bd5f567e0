------------------------------- MODULE VideoPath -------------------------------
(***************************************************************************)
(* A received frame's way through the receiver: the queue of Handoff, and  *)
(* for video the session's thread that takes the newest frame, chooses a   *)
(* mode (choose_mode, Placement::fit of crates/omt-receiver), and decodes  *)
(* with the worker pool of crates/omt-vmx/src/lib.rs.                      *)
(*                                                                         *)
(* Every thread of the pool writes rows of one output buffer without a     *)
(* lock; what keeps them apart is the claim counter, the row ranges of the *)
(* slices and the count of running workers.  An action that holds the pool *)
(* lock is one step.  A stream is the number of the frame it came from;    *)
(* whether its bits decode is chosen when a thread decodes it.             *)
(***************************************************************************)
EXTENDS Handoff, Integers, FiniteSetsExt

CONSTANTS
    Workers,      \* DECODE_WORKERS: threads of a pool, the session's included
    SliceHeight,  \* SLICE_HEIGHT, in rows
    Videos,       \* the video headers a sender may switch between; rates
                  \* are in hundredths of a hertz
    Ceiling,      \* VideoCeiling.shapes
    Displays,     \* the mode lists a connector may report
    MaxDecodes    \* bound: video frames the session takes

ASSUME VideoPathAssumption ==
    /\ Workers \in Nat \ {0} /\ SliceHeight \in Nat \ {0}
    /\ \A v \in Videos : v.w \in Nat \ {0} /\ v.h \in Nat \ {0} /\ v.rate \in Nat
    /\ \A d \in Displays : Len(d) \in Nat /\ \A i \in 1 .. Len(d) :
           d[i].w \in Nat \ {0} /\ d[i].h \in Nat \ {0} /\ d[i].rate \in Nat

VARIABLES
    at,        \* where each thread is; thread 0 is the session's
    after,     \* what the session's thread does once a pool is joined
    wanted,    \* the header of the frame being presented
    rejected,  \* VideoOutput.rejected
    decoder,   \* Decoder, with the mode and path its Config holds
    streams,   \* Shared.slices: the frame whose dc and ac stream each holds
    placed,    \* Slice.placed: the destination rows of each slice
    pool,      \* Shared.state: PoolState
    next,      \* Shared.next
    failed,    \* Shared.failed
    seen,      \* the last generation each worker took
    job,       \* the job each thread works on
    mine,      \* the slice each thread has claimed
    out,       \* history: the rows this decode has written
    result     \* what the last present() came to

poolVars == <<pool, next, failed, seen, job, mine>>
vars == <<queueVars, at, after, wanted, rejected, decoder, streams, placed, poolVars,
          out, result>>

Threads == 0 .. Workers - 1
None    == [w |-> 0, h |-> 0, rate |-> 0]
--------------------------------------------------------------------------------
(* Which mode the display is set to, and where the picture goes in it.     *)

\* admits(): any one shape of the ceiling.
Admitted(v) ==
    \E s \in Ceiling : v.w <= s.w /\ v.h <= s.h /\ v.rate <= s.rate + 1

\* usable(): a mode is its place in the display's list.
Usable(d) == {i \in 1 .. Len(d) : ~d[i].interlaced /\ d[i].rate > 0}

\* RATE_TOLERANCE is 0.02 Hz.
Near(a, b) == a - b < 2 /\ b - a < 2

\* best_rate(): twice a rate below 40 Hz, the rate, its whole number, 60 Hz,
\* or else the fastest; the first such mode of the list.
BestRate(d, candidates, rate) ==
    LET asked   == <<IF rate < 4000 THEN 2 * rate ELSE rate, rate,
                     ((rate + 50) \div 100) * 100, 6000>>
        hits(k) == {i \in candidates : Near(d[i].rate, asked[k])}
        level   == {k \in 1 .. 4 : hits(k) # {}}
        fastest == {i \in candidates : \A j \in candidates : d[j].rate <= d[i].rate}
    IN  Min(IF level # {} THEN hits(Min(level)) ELSE fastest)

Area(m) == m.w * m.h

SameSize(d, size) == {i \in Usable(d) : d[i].w = size.w /\ d[i].h = size.h}

\* choose_mode() when no mode has the video's size: the largest it reduces
\* into, the last of equals; or the smallest there is, the first of equals.
NearestSize(d, v) ==
    LET into == {i \in Usable(d) : d[i].w <= v.w /\ d[i].h <= v.h}
    IN  IF into # {}
        THEN d[Max({i \in into : \A j \in into : Area(d[j]) <= Area(d[i])})]
        ELSE d[Min({i \in Usable(d) : \A j \in Usable(d) : Area(d[i]) <= Area(d[j])})]

ChooseMode(d, v) ==
    IF SameSize(d, v) # {}
    THEN [mode |-> d[BestRate(d, SameSize(d, v), v.rate)], scaled |-> FALSE]
    ELSE [mode |-> d[BestRate(d, SameSize(d, NearestSize(d, v)), v.rate)], scaled |-> TRUE]

\* Placement::fit(): as large as the mode allows, centred, at least a pixel.
Fit(v, m) ==
    LET tall == v.w * m.h <= m.w * v.h
        w == Max({1, IF tall THEN (v.w * m.h) \div v.h ELSE m.w})
        h == Max({1, IF tall THEN m.h ELSE (m.w * v.h) \div v.w})
    IN  [x |-> (m.w - w) \div 2, y |-> (m.h - h) \div 2, w |-> w, h |-> h]

\* sample(): the source coordinate under the centre of a destination pixel.
Sample(i, n, source) == Min({((2 * i + 1) * source) \div (2 * n), source - 1})

\* Scaler::new(): the source row of each destination row.
Rows(v, p) == [y \in 0 .. p.h - 1 |-> Sample(y, p.h, v.h)]
--------------------------------------------------------------------------------
(* The slices.                                                             *)

Slices(v) == 0 .. (v.h + SliceHeight - 1) \div SliceHeight - 1

\* prepare_placement(): every index a worker will follow is checked first.
Acceptable(v, p, surface) ==
    /\ p.w > 0 /\ p.h > 0
    /\ \A x \in 0 .. p.w - 1 : Sample(x, p.w, v.w) < v.w
    /\ \A y \in 0 .. p.h - 1 : Rows(v, p)[y] < v.h
    /\ \A y \in 1 .. p.h - 1 : Rows(v, p)[y - 1] <= Rows(v, p)[y]
    /\ p.x + p.w <= surface.w /\ p.y + p.h <= surface.h

\* How many leading rows of the table lie above the end of slice i.
Upto_Inclusive(rows, n, i) ==
    CHOOSE k \in 0 .. n : /\ \A y \in 0 .. k - 1 : rows[y] <= (i + 1) * SliceHeight
                          /\ k < n => rows[k] > (i + 1) * SliceHeight

Upto(rows, n, i) ==
    CHOOSE k \in 0 .. n : /\ \A y \in 0 .. k - 1 : rows[y] < (i + 1) * SliceHeight
                          /\ k < n => rows[k] >= (i + 1) * SliceHeight

PlacedRanges(v, p) ==
    [i \in Slices(v) |-> [first |-> IF i = 0 THEN 0 ELSE Upto(Rows(v, p), p.h, i - 1),
                          end   |-> Upto(Rows(v, p), p.h, i)]]

\* The rows of slice i inside the visible image.
Band(v, i) == {r \in 0 .. v.h - 1 : r \div SliceHeight = i}

\* The rows decode_slice() writes for slice i: to which, from which.
Writes(j, i) ==
    IF j.placed
    THEN {[to |-> j.fit.y + y, from |-> Rows(j.video, j.fit)[y]] :
              y \in placed[i].first .. placed[i].end - 1}
    ELSE {[to |-> r, from |-> r] : r \in Band(j.video, i)}

\* Out::row(): inside the buffer, or the slice fails.
Fits(j, i) == \A w \in Writes(j, i) : w.to < j.surface.h

\* What is in a row once written: the source row if this slice holds it,
\* and the frames its coefficients and its matrix came from.
Content(j, i, w) ==
    [to |-> w.to, from |-> IF w.from \in Band(j.video, i) THEN w.from ELSE -1,
     dc |-> streams[i].dc, ac |-> streams[i].ac, matrix |-> j.matrix]
--------------------------------------------------------------------------------
NoJob     == [placed |-> FALSE]
NoDecoder == [video |-> None, loaded |-> FALSE]
FreshPool == [generation |-> 0, running |-> 0, shutdown |-> FALSE, job |-> NoJob]

Init ==
    /\ QueueInit
    /\ at = [t \in Threads |-> IF t = 0 THEN "idle" ELSE "none"]
    /\ after = "idle" /\ wanted = None /\ rejected = None /\ decoder = NoDecoder
    /\ streams = <<>> /\ placed = <<>>
    /\ pool = FreshPool /\ next = 0 /\ failed = FALSE
    /\ seen = [t \in Threads |-> 0] /\ job = [t \in Threads |-> NoJob]
    /\ mine = [t \in Threads |-> 0]
    /\ out = {} /\ result = "none"

\* The session's thread goes on at `label`.
Goto(label) == at' = [at EXCEPT ![0] = label]

Awake(labels) == [t \in Threads |-> IF t > 0 /\ labels[t] = "asleep" THEN "check" ELSE labels[t]]

\* The pool's own workers that exist.
Spawned == {t \in Threads \ {0} : at[t] # "none"}

\* present() returns and the session recycles the frame; a failure, or damage
\* before a picture is shown, ends the session, which drops its decoder.
Returns(r) ==
    /\ result' = r /\ Recycle
    /\ IF r = "failed" THEN after' = "over" /\ Goto("release")
       ELSE UNCHANGED after /\ Goto("idle")

queueKept == <<kind, frames, bytes, interval, dropped, stored, consumed, lastTaken>>
--------------------------------------------------------------------------------
(* The session's thread between decodes.                                   *)

\* drain(): frames are taken from the socket only between two decodes.
Receive ==
    /\ at[0] = "idle" /\ (kind = "Video" => stored <= MaxDecodes) /\ Accept
    /\ UNCHANGED <<at, after, wanted, rejected, decoder, streams, placed, poolVars, out, result>>

PlayAudio ==
    /\ Consume
    /\ UNCHANGED <<at, after, wanted, rejected, decoder, streams, placed, poolVars, out, result>>

\* pop() and the start of present(): the remembered refusal, the format the
\* decoder was made for, or a configuration that asks the ceiling first.
Take(v) ==
    /\ kind = "Video" /\ at[0] = "idle" /\ consumed < MaxDecodes /\ Pop
    /\ wanted' = v /\ out' = {}
    /\ \/ /\ v = rejected /\ Returns("unsupported") /\ UNCHANGED rejected
       \/ /\ v # rejected /\ v = decoder.video
          /\ rejected' = None /\ Goto("load") /\ UNCHANGED <<spares, after, result>>
       \/ /\ v # rejected /\ v # decoder.video /\ ~Admitted(v)
          /\ rejected' = v /\ Returns("unsupported")
       \/ /\ v # rejected /\ v # decoder.video /\ Admitted(v)
          /\ rejected' = None /\ after' = "configure" /\ Goto("release")
          /\ UNCHANGED <<spares, result>>
    /\ UNCHANGED <<decoder, streams, placed, poolVars>>

\* Decoder::drop(): shutdown under the lock, everyone woken ...
Release ==
    /\ at[0] = "release"
    /\ pool' = [pool EXCEPT !.shutdown = TRUE]
    /\ at' = [Awake(at) EXCEPT ![0] = "join"]
    /\ UNCHANGED <<queueVars, after, wanted, rejected, decoder, streams, placed, next, failed,
                   seen, job, mine, out, result>>

\* ... and every worker joined.
Joined ==
    /\ at[0] = "join" /\ \A t \in Spawned : at[t] = "exited"
    /\ at' = [t \in Threads |-> IF t = 0 THEN after ELSE "none"]
    /\ decoder' = NoDecoder /\ streams' = <<>> /\ placed' = <<>>
    /\ pool' = FreshPool /\ next' = 0 /\ failed' = FALSE
    /\ seen' = [t \in Threads |-> 0] /\ job' = [t \in Threads |-> NoJob]
    /\ mine' = [t \in Threads |-> 0]
    /\ UNCHANGED <<queueVars, after, wanted, rejected, out, result>>

\* configure(): the connector, a mode, then Decoder::new() for an even width.
\* The display takes the planar path or the decoder converts, and a scaled
\* picture is placed by the decoder only then.
Configure(d, yuv) ==
    /\ at[0] = "configure"
    /\ IF Usable(d) = {} \/ wanted.w % 2 # 0
       THEN Goto("refuse") /\ UNCHANGED <<decoder, streams, placed>>
       ELSE /\ LET c == ChooseMode(d, wanted)
                   placing == c.scaled /\ ~yuv
               IN  decoder' = [video |-> wanted, loaded |-> FALSE, placing |-> placing,
                               fit |-> IF placing THEN Fit(wanted, c.mode) ELSE None,
                               surface |-> IF yuv THEN wanted ELSE c.mode, matrix |-> 0]
            /\ streams' = [i \in Slices(wanted) |-> [dc |-> 0, ac |-> 0]]
            /\ placed' = [i \in Slices(wanted) |-> [first |-> 0, end |-> 0]]
            /\ Goto("spawn")
    /\ UNCHANGED <<queueVars, after, wanted, rejected, poolVars, out, result>>

\* A format that cannot be shown is remembered until another one comes.
Refuse ==
    /\ at[0] = "refuse" /\ rejected' = wanted /\ Returns("unsupported")
    /\ UNCHANGED <<queueKept, wanted, decoder, streams, placed, poolVars, out>>

\* No connector, no encoder, no surface: the session fails.
ConfigureFails ==
    /\ at[0] = "configure" /\ Returns("failed")
    /\ UNCHANGED <<queueKept, wanted, rejected, decoder, streams, placed, poolVars, out>>

\* No more workers than slices, and one of them is the session's thread.
PoolSize == Min({Workers, Cardinality(Slices(decoder.video))})

Spawn ==
    /\ at[0] = "spawn"
    /\ LET n == Cardinality(Spawned) + 1
       IN  at' = IF n < PoolSize THEN [at EXCEPT ![n] = "check"] ELSE [at EXCEPT ![0] = "load"]
    /\ UNCHANGED <<queueVars, after, wanted, rejected, decoder, streams, placed, poolVars, out, result>>

\* A thread that cannot be made: the workers made before it are joined.
SpawnFails ==
    /\ at[0] = "spawn" /\ Cardinality(Spawned) + 1 < PoolSize
    /\ after' = "refuse" /\ Goto("release")
    /\ UNCHANGED <<queueVars, wanted, rejected, decoder, streams, placed, poolVars, out, result>>
--------------------------------------------------------------------------------
(* load() and decode_*() on the session's thread.                          *)

\* classify_decode(): damage is skipped while a picture is up, or is fatal.
Damaged == Returns("skipped") \/ Returns("failed")

\* Stream::load() replaces a stream whole; first all dc streams, then all ac.
Replaced(n) ==
    [i \in DOMAIN streams |->
        [dc |-> IF i < n THEN lastTaken ELSE streams[i].dc,
         ac |-> IF Cardinality(DOMAIN streams) + i < n THEN lastTaken ELSE streams[i].ac]]

Load ==
    /\ at[0] = "load"
    /\ streams' = Replaced(2 * Cardinality(DOMAIN streams))
    /\ decoder' = [decoder EXCEPT !.loaded = TRUE, !.matrix = lastTaken]
    /\ Goto("prepare")
    /\ UNCHANGED <<queueVars, after, wanted, rejected, placed, poolVars, out, result>>

\* An envelope refused at its n-th stream: those before it are replaced, and
\* nothing may be decoded until a whole frame is loaded.
LoadFails(n) ==
    /\ at[0] = "load" /\ n < 2 * Cardinality(DOMAIN streams)
    /\ streams' = Replaced(n)
    /\ decoder' = [decoder EXCEPT !.loaded = FALSE]
    /\ Damaged \/ (n = 0 /\ Returns("unsupported"))
    /\ UNCHANGED <<queueKept, wanted, rejected, placed, poolVars, out>>

TheJob ==
    [placed |-> decoder.placing, video |-> decoder.video, fit |-> decoder.fit,
     surface |-> decoder.surface, matrix |-> decoder.matrix]

\* check_packed(), prepare_placement() and the start of run(); the row
\* buffers a placement needs may not be had.
Prepare ==
    /\ at[0] = "prepare"
    /\ LET v == decoder.video
           s == decoder.surface
       IN  \/ /\ decoder.placing /\ Acceptable(v, decoder.fit, s)
              /\ placed' = PlacedRanges(v, decoder.fit) /\ next' = 0 /\ failed' = FALSE
              /\ Goto("publish") /\ UNCHANGED <<spares, after, result>>
           \/ /\ ~decoder.placing /\ s.w >= v.w /\ s.h >= v.h
              /\ next' = 0 /\ failed' = FALSE
              /\ Goto("publish") /\ UNCHANGED <<placed, spares, after, result>>
           \/ /\ decoder.placing \/ s.w < v.w \/ s.h < v.h
              /\ Returns("failed") /\ UNCHANGED <<placed, next, failed>>
    /\ UNCHANGED <<queueKept, wanted, rejected, decoder, streams, pool, seen, job, mine, out>>

\* The job is published under the pool lock, and every worker woken.
Publish ==
    /\ at[0] = "publish"
    /\ job' = [job EXCEPT ![0] = TheJob]
    /\ pool' = IF Spawned = {} THEN pool
               ELSE [pool EXCEPT !.job = TheJob, !.running = Cardinality(Spawned),
                                 !.generation = @ + 1]
    /\ at' = [Awake(at) EXCEPT ![0] = "claim"]
    /\ UNCHANGED <<queueVars, after, wanted, rejected, decoder, streams, placed, next, failed,
                   seen, mine, out, result>>
--------------------------------------------------------------------------------
(* decode_claimed(), on every thread.                                      *)

\* Where a thread goes when nothing is left to claim.
Through(t) == IF t = 0 THEN "wait" ELSE "report"

\* next.fetch_add(1).
Claim(t) ==
    /\ at[t] = "claim"
    /\ next' = next + 1
    /\ IF next \in DOMAIN streams
       THEN mine' = [mine EXCEPT ![t] = next] /\ at' = [at EXCEPT ![t] = "write"]
       ELSE UNCHANGED mine /\ at' = [at EXCEPT ![t] = Through(t)]
    /\ UNCHANGED <<queueVars, after, wanted, rejected, decoder, streams, placed, pool, failed,
                   seen, job, out, result>>

\* decode_slice(): the planes decode and the rows are written ...
Write(t) ==
    /\ at[t] = "write" /\ Fits(job[t], mine[t])
    /\ out' = out \cup {Content(job[t], mine[t], w) : w \in Writes(job[t], mine[t])}
    /\ at' = [at EXCEPT ![t] = "claim"]
    /\ UNCHANGED <<queueVars, after, wanted, rejected, decoder, streams, placed, poolVars, result>>

\* ... or the bits are damaged, which fails the frame ...
WriteFails(t) ==
    /\ at[t] = "write"
    /\ failed' = TRUE /\ at' = [at EXCEPT ![t] = "stop"]
    /\ UNCHANGED <<queueVars, after, wanted, rejected, decoder, streams, placed, pool, next,
                   seen, job, mine, out, result>>

\* ... and stops the claiming for every thread.
StopClaims(t) ==
    /\ at[t] = "stop"
    /\ next' = Cardinality(DOMAIN streams) /\ at' = [at EXCEPT ![t] = Through(t)]
    /\ UNCHANGED <<queueVars, after, wanted, rejected, decoder, streams, placed, pool, failed,
                   seen, job, mine, out, result>>

WaitDone_OnceWoken == at[0] = "wait" /\ pool' = [pool EXCEPT !.job = NoJob]

\* run()'s end: once no worker runs, the job is taken back.
WaitDone == at[0] = "wait" /\ pool.running = 0 /\ pool' = [pool EXCEPT !.job = NoJob]

Finish ==
    /\ WaitDone
    /\ IF failed THEN Damaged ELSE Returns("ok")
    /\ UNCHANGED <<queueKept, wanted, rejected, decoder, streams, placed, next, failed, seen,
                   job, mine, out>>

Wait ==
    /\ at[0] = "wait" /\ pool.running > 0 /\ Goto("asleep")
    /\ UNCHANGED <<queueVars, after, wanted, rejected, decoder, streams, placed, poolVars, out, result>>
--------------------------------------------------------------------------------
(* worker_main()                                                           *)

\* The loop's head, under the lock: leave, sleep, or take the new job.
Check(t) ==
    /\ t > 0 /\ at[t] = "check"
    /\ \/ /\ pool.shutdown /\ at' = [at EXCEPT ![t] = "exited"] /\ UNCHANGED <<seen, job>>
       \/ /\ ~pool.shutdown /\ pool.generation = seen[t]
          /\ at' = [at EXCEPT ![t] = "asleep"] /\ UNCHANGED <<seen, job>>
       \/ /\ ~pool.shutdown /\ pool.generation # seen[t]
          /\ seen' = [seen EXCEPT ![t] = pool.generation]
          /\ job' = [job EXCEPT ![t] = pool.job]
          /\ at' = [at EXCEPT ![t] = IF pool.job = NoJob THEN "report" ELSE "claim"]
    /\ UNCHANGED <<queueVars, after, wanted, rejected, decoder, streams, placed, pool, next,
                   failed, mine, out, result>>

Notified_Never(labels) == labels

\* finished.notify_one(): only the session's thread waits there.
Notified(labels) ==
    [labels EXCEPT ![0] = IF labels[0] = "asleep" /\ pool.running = 1 THEN "wait" ELSE labels[0]]

\* The frame is reported done and the lock kept to the loop's head.
Report(t) ==
    /\ at[t] = "report"
    /\ pool' = [pool EXCEPT !.running = @ - 1]
    /\ at' = Notified([at EXCEPT ![t] = IF pool.shutdown THEN "exited"
                                        ELSE IF pool.generation = seen[t] THEN "asleep"
                                        ELSE "check"])
    /\ UNCHANGED <<queueVars, after, wanted, rejected, decoder, streams, placed, next, failed,
                   seen, job, mine, out, result>>

\* A condition variable may wake its waiter for no reason.
Spurious(t) ==
    /\ at[t] = "asleep" /\ at' = [at EXCEPT ![t] = IF t = 0 THEN "wait" ELSE "check"]
    /\ UNCHANGED <<queueVars, after, wanted, rejected, decoder, streams, placed, poolVars, out, result>>
--------------------------------------------------------------------------------
Session ==
    \/ Release \/ Joined \/ Refuse \/ Spawn \/ SpawnFails \/ Load \/ Prepare \/ Publish
    \/ ConfigureFails \/ \E d \in Displays, yuv \in BOOLEAN : Configure(d, yuv)
    \/ \E n \in 0 .. 2 * Cardinality(DOMAIN streams) : LoadFails(n)
    \/ Finish \/ Wait

Thread(t) == Claim(t) \/ Write(t) \/ WriteFails(t) \/ StopClaims(t) \/ Check(t) \/ Report(t)

Next ==
    \/ Receive \/ PlayAudio \/ \E v \in Videos : Take(v)
    \/ Session \/ \E t \in Threads : Thread(t) \/ Spurious(t)

\* The operating system runs every thread that can run.
Spec ==
    Init /\ [][Next]_vars /\ WF_vars(Session) /\ \A t \in Threads : WF_vars(Thread(t))
--------------------------------------------------------------------------------
Decoding == {"claim", "write", "stop", "wait", "asleep"}

\* The picture: each row of it, and the source row that belongs there.
Picture ==
    IF decoder.placing
    THEN {[to |-> decoder.fit.y + y, from |-> Sample(y, decoder.fit.h, wanted.h)] :
              y \in 0 .. decoder.fit.h - 1}
    ELSE {[to |-> r, from |-> r] : r \in 0 .. wanted.h - 1}

\* A frame given to the display is whole: every row of the picture was written
\* from the slice that holds its source row, with both streams and the matrix
\* of that very frame, and no row was written twice or for nothing.
WholePicture ==
    result = "ok" /\ at[0] = "idle" =>
        out = {[to |-> w.to, from |-> w.from, dc |-> lastTaken, ac |-> lastTaken,
                matrix |-> lastTaken] : w \in Picture}

\* The shared output is safe: two threads never write the same row, none
\* writes outside the surface, and once decode returns no worker touches the
\* buffer or the slices any more.
OutputSafe ==
    /\ \A t \in Threads : at[t] = "write" => Fits(job[t], mine[t])
    /\ \A s, t \in Threads :
           s # t /\ at[s] = "write" /\ at[t] = "write" =>
               /\ mine[s] # mine[t]
               /\ {w.to : w \in Writes(job[s], mine[s])}
                      \cap {w.to : w \in Writes(job[t], mine[t])} = {}
    /\ at[0] \notin Decoding =>
           \A t \in Threads \ {0} : at[t] \notin {"claim", "write", "stop", "report"}

\* Nobody waits for ever: whatever the pool is doing, the session's thread
\* comes back to the socket or the session is over.
SessionReturns == []<>(at[0] \in {"idle", "over"})

\* The queue keeps its promises while its consumer is away decoding.
QueueSound == Contiguous /\ NoSilentLoss /\ Bounded
================================================================================
