# A TLA+ model of rpi-omt-client

rpi-omt-client turns a Raspberry Pi into an appliance that shows one OMT (Open
Media Transport) source on HDMI, with a web interface for its operator and a
deployer that installs it over SSH. This directory models its concurrent and
failure-handling parts in twelve TLA+ modules, checks them with TLC on small
instances, and proves all of their safety properties but one with TLAPS, for every
value of the constants.

## The system

| Part | State it keeps | Operations | Talks to |
|---|---|---|---|
| Playback supervisor, `omt-receiver/src/play.rs` | reconnect count, grace and stall deadlines, video queue; the worker's `active` flag | `run`, `session`, `drain`, `wait_with_heartbeat`; `AudioWorker::start/stop`, `audio_loop`, `audio_session` | everything below; the stop flag raised by a signal |
| Status document, `omt-receiver-core/src/status.rs` | the current document and the published one, under one lock | `video`, `audio`, `heartbeat`, `stopped`, all through `publish` | both receiver threads; the web interface reads the file |
| Frame channel, `channel.rs` | socket, partial frame, its header and budget | `connect`, `close`, `receive`, `receive_until`, `receive_ready` | the OMT sender over TCP |
| Frame handoff, `handoff.rs` | queued frames, byte count, audio interval, spare buffers | `push`, `pop`, `recycle`, `take_spare` | fed by the channel, emptied by the presenter or the audio worker |
| VMX decoder, `omt-vmx`, with `scale.rs` and `choose_mode` | slices and their streams, a pool of threads, the chosen mode | `Decoder::new`, `load`, `decode_*`, drop | the presenter |
| DRM video output, `video.rs` | flip chain, front surface, pending flip, skip count, remembered refusal | `open`, `present`, `configure`, `release`, drop | the kernel: flips complete, or not, at its own time |
| ALSA audio output, `audio.rs` | PCM handle, ring fill, timeline | open, write, recover, keep alive | ALSA |
| Discovery, `discovery.rs`, `mdns.rs`, `dbus.rs` | a browse in progress, queued signals | browse, resolve, probe | Avahi over D-Bus, a discovery server, the web interface that runs it |
| Control scripts, `deploy/container/` | lock, PID record | start, stop, restart, status | the web interface runs them under a timeout |
| Web interface, `omt-web` | password, session registry, rate limiter, saved target and settings, source cache | the HTTP routes | control scripts, discovery, host services |
| Host services, `deploy/host/` | request, result and capture files | watcher, reboot, diagnostics | the web interface through shared files |
| Deployment transaction, `deploy/transaction.sh` | journal directory, backups, final files | `promote`, `recover` | run as root by the deployer over SSH, and at boot |
| Deployment operations, `omt-deploy`, and the front ends | the job, its digests and session; the page's fields and question | prepare a card, set up Alpine, deploy, manage, Wi-Fi | the Pi over SSH, a container engine, a download server |
| SSH client, `omt-deploy/src/ssh` | keys and sequence numbers, one channel, windows, SFTP requests in flight | open, authenticate, run, upload | an SSH server |

What is hard to get right in it, and where:

* threads that share memory or a document: the decoder's pool writes one buffer
  without a lock; the session and the audio worker report through one document;
  the deployer's worker and page share its lines and result;
* actors with a time of their own: a kernel that completes page flips when it
  likes, an audio device that must not run dry, a Pi that keeps answering while
  it goes down, an Avahi that interleaves signals with replies;
* streams cut anywhere, calls with budgets that span several of them, a rekey in
  the middle of data, remains of a cancelled operation that meet the next one;
* commands that are killed half way by their caller's timeout;
* queues, tables and caps at their limits;
* files several processes read and write, under loss of power: requests, results,
  the deployment, the session registry;
* things that must end: a session, a wait, a scheduled reboot.

`PROJECT.json` lists the hazards one by one with the properties that cover them.

## Modules

| Module | Models | Actors that interleave |
|---|---|---|
| `VideoOutput` | `video.rs` | the presenter's thread, the display driver |
| `FrameChannel` | `channel.rs`, the order of parsers of `omt-protocol` | the reading thread and its caller, the sender and the network, the clock |
| `Handoff` | `handoff.rs`, with `accept_frame` of `play.rs` | producer, consumer |
| `VideoPath`, extends `Handoff` | `omt-vmx/src/lib.rs`, `choose_mode`, `scale.rs`, `ceiling.rs`, the session around them | the session's thread, the pool's threads, the audio worker |
| `Playback` | `play.rs`, `connector.rs`, the reporting rules of `status.rs` | main thread, audio worker, signals, hotplug, discovery, the clock |
| `AudioOutput` | `audio.rs` and the audio session of `play.rs` | the audio worker, the PCM, the sender, the clock |
| `PlaybackControl` | `control-omt.sh`, `start-omt.sh`, `omt-web/src/playback.rs`, `fsio.rs`, the timeout of `proc.rs` | the web server and its controller, a controller of a shell, the receiver processes, the clock |
| `WebAccess` | `omt-web/src/auth.rs` and the routes, preambles and limiter of `app.rs` | browsers with open tabs, the network back to them, a restarting server, the clock |
| `HostRequests` | `omt-web/src/diagnostics.rs`, `host-event-watcher.sh`, `host-reboot.sh`, `reboot-request.sh`, `host-diagnostics.sh` | the web server, two watchers, two actions, the power |
| `Discovery` | `discovery.rs`, `mdns.rs`, `dbus.rs`, the `discover` and `probe` commands, `network.rs` and the source cache | the receiver process, Avahi, a discovery server, the web server, the clock |
| `DeployTransaction` | `deploy/transaction.sh` | the script, signals, kills, write-back, power loss |
| `AtomicDeploy` | what a deployment promises | -- |
| `Deployer` | `ops.rs`, `jobs.rs`, `core.rs`, `sd_card.rs`, `https.rs`, the GUI's `app.rs` and `server.rs`, the command line's `main.rs` | the page, the worker thread, the Pi, its container, the network |
| `SshSession` | `omt-deploy/src/ssh` | the client, the network each way, the server and its processes |
| `OutputProofs` | the theorems about `VideoOutput` and `AudioOutput` | -- |
| `ChannelProofs` | those about `FrameChannel` and `SshSession` | -- |
| `VideoPathProofs` | those about `Handoff` and `VideoPath` | -- |
| `WebProofs` | those about `WebAccess` and `Discovery` | -- |
| `DeployProofs` | those about `DeployTransaction` and `Deployer` | -- |
| `PlaybackProofs`, `PlaybackControlProofs`, `HostRequestsProofs` | those about one component each | -- |
| `MC*` | instances for TLC | -- |

How they fit: `VideoPath` composes the queue with its consumer and the decoder;
what `present()` then does with the display is `VideoOutput`, and what surrounds
a session is `Playback`. `Playback` takes the audio session as one turn, which
`AudioOutput` opens up. The receiver that `PlaybackControl` starts and stops is
`Playback`. `Deployer` takes a promotion as one step, which `DeployTransaction`
justifies by refining `AtomicDeploy`, and a command over SSH as one step that
succeeds, fails or loses its session, which is what `SshSession` promises
(`ResultHonest`, `UploadWhole`).

A proof module may extend two components, so the names they would share carry a
prefix in one of them (`AudioSpec`, `SshSpec`, `DiscoverySpec`, `DeployerSpec`).
A definition named `X_Variant` is the definition `X` as a plausible defect would
have it; `PROJECT.json` names the property that each one violates.

### VideoOutput

`pc` is where the presenting thread is inside `present()`; the fields of
`Config` keep their names. `onscreen`, `queued`, `events` and `owed` are the
kernel's side. A frame is its format, and what the decoder says of it is chosen
nondeterministically; a format is ordinary, above the decode ceiling
(`OverCeiling`), or without a mode, decoder or placement (`Unshowable`). A
release that stops waiting for a flip leaves that flip's event to arrive later
(`owed`), which is the case `wait_for_flip` cannot tell from its own; `abandoned`
records that it happened.

### FrameChannel

A byte carries the connection, the frame and the offset it belongs to, so that
a reader that lost its place is visible as a sequence of bytes that do not
belong together. Deadlines are ticks left. `Tick` runs only between calls and
while a poll waits: the loop's own work takes no time. The parsers' answer is a
`verdict` the sender fixes with the frame; bytes that are not one frame's parse
as anything.

### Handoff and VideoPath

A frame is its number, size and duration. `Trimmed` is the last loop of
`push()`; `Lost` is what `push()` returns. Which of the two kinds the queue is,
the video slot or the audio queue, is chosen in `Init`. The audio backlog is
measured as the code measures it, the newest frame's duration times the number
of frames.

`at` is where each thread is, the session's being thread 0. An action that holds
the pool's lock is one step; claiming a slice, writing its rows, stopping the
claims and reporting are steps of their own, and a condition variable may wake
its waiter for nothing. A row written is recorded with the frame whose two
streams and matrix produced it, so that a picture put together from two frames
is visible. `ChooseMode`, `Fit` and `Sample` are the code's integer arithmetic on
small displays; only rows are followed, since a slice is a range of rows. Bits,
transform, colour conversion and the threads' signal mask are left out; whether
a stream decodes is chosen when a thread decodes it. The skip budget of a
damaged frame is `VideoOutput`'s.

### Playback

`pc` follows `run()` and, inside a session, `session()`; `aud` follows the audio
worker. `cur` is the document as last reported and `published` the one on disk,
a `Document` that `RecordValid` (the web interface's check) accepts.
`Sysfs` gives what the connector's path may answer: nothing, or an id, connected
or not; a session is bound to the id it found. One tick is 500 ms, the value of
`RECEIVE_SLICE_MS`, of the connector check and of the heartbeat; the age of the
document is not modelled. `recoveries` counts reconnects since a frame was
queued, which is what bounded recovery is about, while `attempts` is the code's
own count. `Faults` bounds how often a status write fails.

### AudioOutput

The unit is a period of 20 ms, which is what a running device takes in a tick
and what the worker waits while one plays; the ring, start threshold, fill target
and keep-alive level have the values of the code (12, 5, 8, 3). A frame is its
duration and the hole before it in the sender's timeline. Whether the next
frame needs the device opened anew is a choice (`Stale`), except with a live
sender, which keeps its format. `slips` counts the ticks the worker missed its
wakes by. A running device may have moved into its next period when it is asked
how full it is (`Below`), which matters exactly at a threshold: a device asked
right after the write that started it may or may not be known to play. A `live`
sender owes a frame, or a drop, every tick; any other sends anything at any time,
and only its sink freezes, vanishes or meets a late worker. A device may fail at
any point of a write and again after each recovery; `stalled` runs on through the
recoveries, as `stalled_since` does, and `Rested` is the end of the wait behind
one. What the queue sheds is `Handoff`'s subject.

### PlaybackControl

`ctl` is where each controller script is; a process id and its start time are one
value, so a recycled id is another process, as the script's check makes it. The
waits after SIGTERM, after SIGKILL and for the launch are ticks of a second;
`reap`, which waits for a process already sent SIGKILL, takes none. The target
and the video limit are files the web server replaces or removes outside the
lock, each of which may fail before or after the change is in place; the
launcher reads both. `ShellRuns` bounds the commands given beside the web server:
the entrypoint's start, or an operator's inside the container. The web server
handles one request at a time. `cut` records that the web server's timeout killed
a controller between the launch of a process and the record of its PID, the one
case in which a process is lost sight of.

### WebAccess

A handler runs to its end, so it is one step. A browser has one session cookie
and one open form, whose token may be older than its cookies; the answer to a
request may be lost. The registry's write fails before its rename, which changes
nothing (`LoginRefused`), or after it, which leaves a session nobody was given
(`LoginStray`, which also stands for a lost answer). A stored password
carries its salt, so storing the same password again is another one. `rates`
keeps what is left of each counted attempt. `born` and `stray` are history, kept
with each record: the password a session was made under, and that its browser
never had it or let go of it without a stored logout. One stray session excuses
no other.

### HostRequests

`web`, `watcher` and `act` are where the web server, the watchers and the
actions are. Request ids are fresh. `events` are the close-after-write
notifications a watcher has not read; a watcher that dies leaves its action
running (`orphan`). A capture is known by its number. `cut` records a power
failure.

### Discovery

`rcv` is the receiver process the web server waits for, with its list, removal
set, resolvers and queue of pending signals; `asks`, `avahi` and `wire` are the
daemon's side. A message that a reader would refuse is "odd", one that does not
parse is "bad". `hist` adds up what the receiver has read, independently of the
code, and `lossy` records that a bounded table was full. A save of the network
settings fails before its rename or after it (`NetworkFails`); `unsure` records
that the second happened under a cached list. In a probe, `left` is the time to
its deadline and `until` what must be left when video's share ends; `body` is what
is left of the body budget of the frame the sample in progress has begun, which
runs past both, since `sample()` calls `receive()`. A connection is open or was
closed by its sender, for instance over a frame that outlasted its budget
(`torn`); `missed` records a video frame that was whole only when video's sample
was over. The discovery checks of the diagnostics page change no state.

### DeployTransaction and AtomicDeploy

`disk` is the directory as the script sees it and `saved` what a power loss
would leave of it. Metadata is assumed to reach the medium in order (a
journalling file system), at the latest at the next `sync`; the bytes of
`state.tsv` may be missing until a `sync -f` (`dirty`, `torn`). `Recovered(d)` is
what `recover_pending()` makes of a directory `d`, and is the refinement mapping:
`installed` is `Recovered(disk)` and `durable` is `Recovered(saved)`.

### Deployer

A job is the list of steps it still has to do (`Steps`, one list per job of
`run_job`), with what it captured when it started. A step is done, fails on the
Pi, loses the session or meets the cancellation; or the Pi does it and the answer
is given up, because the operator cancels or nothing is heard for a minute
(`Unanswered`), after which the job has failed and what it did is there. A step's
effect on the Pi is an operator of its own (`MadeStage`, `Promoted`, `Leaving` ...)
which the step and `Unanswered` share. The removal of a stage may fail, and is
ignored then. The Wi-Fi script runs on the Pi to its end whether or not anyone
waits for it, beside those of other jobs: it adds a profile, or with the others
kept overwrites the key of one with the same name; it saves at once, or first
waits for the association. A connection of `wait_for_reboot` is refused by the Pi
or lost on the network (`job.lost`), which the code cannot tell apart. A password
is read (`job.read`) and, at the end of a wait for the appliance that ends well,
reported (`job.shown`).

The Pi's `boot`, `conn` and container have their own actions. `hist` holds what the
properties compare with: what the operator agreed to, how many lines were
reported, whether a container printed a password during this deployment (`made`),
whether its log could not be read in time or the wait for the appliance ended badly
(`late`), whether a session was lost (`cut`), whether a command that makes or
removes a stage was given up (`stray`), whether the operator asked for an untested
replacement of the Wi-Fi profiles (`blind`) or a profile's key was overwritten
(`over`), and whether the Pi went down under a session that had a stage (`fell`).
The last was found by the proof: with three jobs the reboot of one can take the Pi
down under a later one, whose stage then stays, which two jobs cannot show.

### SshSession

A packet carries the key and sequence number it was sealed with; a receiver that
is not at both refuses it. Signatures and ciphers are ideal. `srv` and `file` are
the server, its processes and the uploaded file, which run on their own time. A
server may ask for new keys at any time after the first exchange, with credentials
on their way too, and answer with another host key. A later key exchange that fails
or times out ends the session of the model, while in the code the error ends the
operation and `remove_stage` may still try the transport.
`loose` records the one case `UploadWhole` excludes (below).

## Runs

| Run | Instance | Distinct states | Shows |
|---|---|---|---|
| `video_output` | 3 surfaces, budget 2, 4 formats, 3 event slots, 2 events per read | 15,310 | `DisplaySound`: no tearing, no flip over a flip, bounded hold, no leaked chain; the ceiling spares the picture; `present()` returns |
| `frame_channel` | header 2 bytes, bodies 0 to 2, 2 frames on each of 2 connections, body budget 2 ticks, slice 1 | 283,634 | `StreamInStep`: alignment and order; `DeadlinesKept`: punctual returns and bounded stalls; `ReceiveEnds`: every partial frame is resolved and every call returns |
| `video_path` | queue cap 6, backlog 4; 3 threads, slices of 2 rows, 4 headers, 3 displays (one with interlaced modes only), 2 decodes | 811,358 | `WholePicture`, `OutputSafe`, `QueueSound` (only the oldest shed, every loss counted, bounds hold), `SessionReturns` |
| `playback` | named source, a connector that is renumbered, 2 attempts, grace and stall 1, one failing status write | 337,575 | `SessionSound`: one worker, honest document, bounded recovery; `SessionsEnd`: a stop is obeyed, silence and unplugging end the session |
| `audio_output` | the code's levels, durations 1 and 7, holes 0, 1 and 6, a live sender dropping every other frame at worst, two late ticks | 671,734 | `RingKept`: one late period does not empty the ring of a device known to play, concealment never blocks a frame and keeps the cushion; back-pressure is no fault; `WorkerFree`: writes return, however often the device fails, and a sender that stops ends the session |
| `playback_control` | 2 targets, a limit, an unreadable limit file, 2 processes, waits of 1, 0 and 1 s, timeout 3 s, one shell command | 291,321 | `ReceiverManaged`: one receiver, none forgotten, what is saved is played; a stop stopped; every command returns |
| `web_access` | 2 browsers, 1 password typed, cap of 2 sessions, 4 ids, life 2 s, 1 attempt per second, a limiter of one key and four scopes, 2 stored passwords | 438,374 | sessions follow the password, none is orphaned but those that went astray one by one, guesses are bounded, a login sticks |
| `host_requests` | 2 requests, age 1, cooldown 2, patience 1, one failure | 351,703 | what the operator is told is true, reboots are spaced, a bundle is of one request, a scheduled reboot happens |
| `discovery` | 2 names, 2 addresses, 2 servers, tables of 1 or 2, 4 messages a browse, a probe and a body budget of 3 ticks | 3,490,914 | the printed list is what was read, the cache follows the transport, a probe is fair |
| `deploy_transaction` | 2 files, 2 promotions | 74,872 | `JournalSound`: readable journal, acknowledged deployments survive; refinement of `AtomicDeploy` |
| `deployer` | 2 members, 2 passwords, 5 kinds of job, 5 ways to become root, 2 jobs, one edit of the tree, one poll, one redirect | 1,118,708 | verified files only and no stage left, the first password is shown, Wi-Fi is never stranded, the page is honest, no session to the old system, each but for what its comment names |
| `ssh_session` | 3 host keys, 2 operations of 3 kinds, 2 chunks, 2 writes in flight, one rekey, one wait that runs out, a disk full at the last write, sequence numbers modulo 2 | 2,359,400 | both ends in step, secrets guarded, uploads whole, results honest |

The bounds are the smallest at which each case the properties distinguish
happens. Three surfaces are what the code has. Two connections are what it takes
to carry a partial frame from one to another, two frames to lose a place between
them. Three threads are what the pool needs for two of its own to race each other
as well as the session's; pictures of 3 to 5 rows over slices of 2 give slices
that are full, cut short and, when placed, empty. Two decodes show one frame's
remains in the next. The audio instance keeps the levels of the code, because the
property is about their distances; a frame of 7 periods is the one that cannot
fit above the target, and a hole of 6, the longest that is concealed, the one that
may fit only without the frame behind it. A write timeout of one tick lets a second
failure come before it and after it. Two processes are what it takes to
have one receiver too many, and the timeout of `playback_control` is as long as
its longest restart, so that it can strike at every point. A cap of two sessions
is full with two browsers and exceeded by a second login, and two ids more are
enough for a stale cookie of each browser; a limiter of one key is
full with one. Two requests are a request and the one behind it, and the cooldown
is longer than the age so that both reasons to reject occur. Tables of one and two
entries overflow within four messages; a body budget as long as the probe lets one
frame use up all of it. Two files show a mixture of two
deployments, two promotions let the recovery of the second meet the success of
the first. Two jobs are one that leaves something behind and one that meets it,
and so are two operations of an SSH session. The two fields of the page that only
an installation reads are at their first values when a deployment or a Wi-Fi job is
started (`Plain`), which tells no behaviour of those jobs apart. `EventSpace`, `MaxFrames`,
`MaxConns`, `MaxDecodes`, `MaxDrop`, `Slips`, `Faults`, `ShellRuns`, `IdCount`,
`Changes`, `Requests`, `Failures`, `Signals`, `MaxDeploys`, `Jobs`, `Edits`,
`Ops`, `Rekeys` and `Slow` are bounds of the model.

`web_access` and `discovery` use symmetry (browsers; names and addresses), which is
sound because they check no liveness and no definition picks one of them.
Deadlock is not checked where the bounds let the system stop: `video_path`,
`web_access`, `deployer` and `ssh_session`.

## Fairness

* `VideoOutput`: weak fairness of the presenter's thread only. The kernel owes
  nothing: a flip may never complete.
* `FrameChannel`: weak fairness of the reading loop and of its caller, which is a
  loop too; strong fairness of `Tick`, because the calls of a busy caller disable
  it again and again while real time passes all the same. The sender and the
  network owe nothing.
* `VideoPath`: weak fairness of the session's steps and of each pool thread, which
  the operating system schedules. A spurious wake-up is owed to nobody.
* `Playback`: weak fairness of both threads, strong fairness of `Tick` for the
  same reason. A signal, a display and a transport owe nothing.
* `AudioOutput`: weak fairness of the worker, strong fairness of `Tick`. The sender
  and the device owe nothing.
* `PlaybackControl`: weak fairness of the controllers and of the web server's
  replies and timeout; strong fairness of taking the lock, since `flock` queues
  its waiters and wakes them in turn, and of `Tick`; a process sent SIGKILL goes.
  A receiver owes nothing, not even to a SIGTERM.
* `HostRequests`: weak fairness of the host's scripts, of the web server and of
  `Tick`. A watcher may die and the power may fail.
* The other modules state safety only and have no fairness.

## Where the code and its words differ, and what the properties exclude

Met while modelling; each is a condition of a property above or a case outside
them. For the first five the words of the repository are given as a formula over
the model's variables: TLC refutes each on the instance of its component, and the
counterexample is the case described.

* `audio.rs:394`: the device starts inside the write that reaches its threshold.
  If it has moved before `play()` asks how full it is, `playing` stays false, the
  worker waits a whole receive slice, and the ring can run dry under a prompt
  worker, although `audio.rs:14` says it "is never allowed to run dry" and the
  field's comment (`audio.rs:143`) that such a device "must be kept fed"
  (refuted: `dev = "xrun" => slips > 1`). `RingKept` says what remains: a device
  that is known to play is kept, and a live sender keeps any.
* `omt-receiver.rs:195`: video is sampled in its share of the probe only, so a frame
  that is whole after it is not reported if audio stays silent, although the
  comment at line 162 says whatever arrives is (refuted:
  `rcv.pc = "report" /\ probe.got = {} => probe.ready = {}`). A video frame
  that has begun is finished on the body budget (`receive()`, line 140) and may use
  up audio's share; `ProbeFair` excludes exactly these two.
* `ops.rs:1184`: the first password, read before the reboot, is reported only when
  the wait for the appliance ends well; otherwise it is dropped and the job
  completes, although `docs/SETUP.md:392` says it is printed (refuted:
  `worker.run = "ok" /\ job.req.kind = "deploy" /\ job.read => job.shown`).
* `ops.rs:1006`: `remove_stage` uses the session that has just failed, and ignores
  its own failure, although the comment at line 1133 includes transport errors
  (refuted: `worker.run = "failed" /\ pi.staging => hist.stray`). A command that makes the stage and is given up while its
  answer is awaited leaves it too, since `ops.rs:1132` returns before anything owns
  it.
* `ops.rs:98`: with the other profiles kept, a profile of the same name is given the
  new key and saved untested, so a mistyped key for the network the Pi is on is the
  only one left, although `docs/SETUP.md:247` says that existing profiles are
  preserved (refuted: `hist.blind \/ pi.saved \cap pi.works # {}`).
* `play.rs:293`: a sink that stops with the ring at its target is never written
  to again, so the write timeout that `docs/ARCHITECTURE.md:335` relies on never
  runs and the session goes on silently.
* `play.rs:213`: a frame that arrives in the drain that then loses the socket does
  not clear the reconnect count, although `docs/ARCHITECTURE.md:406` says any
  frame does.
* `play.rs:544`: nothing republishes the status during a session's media grace
  period, although `docs/ARCHITECTURE.md:573` promises a 500 ms heartbeat.
* `control-omt.sh:137`: with the shipped periods a restart can take 16 s and the
  web server allows 15, so a controller can be killed between the launch of a
  receiver and the record of its PID, which the comment at line 154 says must not
  happen. `ReceiverManaged` shows that this is the only way to forget a receiver
  (`cut`).
* The keep-alive writes one period a wake, so a second late wake in one
  starvation empties the ring; `RingKept` promises no more.
* `fsio.rs:122`: a replace may be reported as failed after the new file is in
  place. A login then leaves a session nobody was given (`stray`), and a change of
  the discovery server leaves the cached names of the old one, since
  `network_post` refreshes only after a success (`unsure`). An unreadable video
  limit makes every launch exit.
* A picture of odd width passes the protocol's checks and is refused by
  `Decoder::new`.
* `WebAccess`: the limiter is forgotten at a restart; a session made under the
  emergency password is good again if the same one is set again and nobody logged
  in between; a logout whose registry write fails leaves the session live; among
  equal expiries the key decides, so the fresh session may be the one evicted
  (`LoginSticks` says so).
* `HostRequests`: a request rejected for the cooldown and left in the file by a
  power failure can be accepted after the boot (`cut`); emptying the file wipes a
  newer request; a result that cannot be synced after it was written ends the action
  before the reboot although it can be read, a failure the model leaves out
  (`host-reboot.sh:54`); diagnostics has no lock, so a request run twice can replace a
  capture under its reader, which the digest check turns into a failed bundle.
* `Deployer`: a retry after a deployment that failed after the container had started
  never shows the password of that container; `wait_for_reboot` takes any failed
  connection for the Pi being down and may then return the old system, if its boot
  id cannot be read (`job.lost`, which `SessionIsNew` excludes by account);
  `/api/confirm` does not say which
  question it answers, and quitting replaces an open one; `prepare-sd` accepts a
  64-digit key that `derive_wpa_psk` refuses only after the download; the digests
  of the capsule's members are taken one after the other. Of a command that is given
  up the model knows at once whether it ran; only the Wi-Fi script goes on later. A
  saved profile counts whether or not `select_network` disabled it meanwhile, and a
  profile's number is never given again.
* `SshSession`: an SFTP attempt given up while its OPEN is unanswered may truncate
  the file after the fallback wrote it (`loose`); the comment at `sftp.rs:207` that
  any outstanding id is accepted does not hold for replies out of order, which end
  in the fallback; a cancellation inside a write leaves the channel open on the
  server.
* `Discovery`: `docs/CONFIGURATION.md:91` says that a stored server that is not
  valid stays correctable, but `update_settings_xml` (`network.rs:220`) refuses to
  save over it; the web form accepts an address the receiver ignores;
  `docs/ARCHITECTURE.md:51` states a message cap of 64 KiB and `dbus.rs:17` has
  256; a name removed and announced again within one browse is not shown, and one
  removed on one interface is hidden on all; a full list refuses a new address of
  a listed name; a discovery that was killed caches an empty list.

## Proofs

| Module | Theorem | Property |
|---|---|---|
| `OutputProofs` | `DisplayStaysSound`, `CeilingSparesChain` | `DisplaySound`, `CeilingKeepsPicture` |
| | `RingIsKept`, `LiveSinksAreKept` | `RingKept`, `LiveSinkKept` |
| `ChannelProofs` | `StreamStaysInStep`, `DeadlinesAreKept` | `StreamInStep`, `DeadlinesKept` |
| | `EndsStayInStep`, `SecretsAreGuarded`, `ResultsAreHonest` | `InStep`, `SecretsGuarded`, `ResultHonest` |
| `VideoPathProofs` | `OutputIsSafe`, `PicturesAreWhole`, `QueueIsSound` | `OutputSafe`, `WholePicture`, `QueueSound` |
| `PlaybackProofs` | `SessionsAreSound` | `SessionSound` |
| `PlaybackControlProofs` | `ReceiverIsManaged`, `StopsAreStops` | `ReceiverManaged`, `StopMeansStopped` |
| `WebProofs` | `SessionsDieWithThePassword`, `NoSessionIsOrphaned`, `LoginsStick`, `GuessesAreBounded` | `SessionsFollowPassword`, `NoOrphanSession`, `LoginSticks`, `GuessesBounded` |
| | `ListsAreExact`, `CacheIsCurrent`, `ProbesAreFair` | `ListExact`, `CacheCurrent`, `ProbeFair` |
| `HostRequestsProofs` | `RebootAnswersAreTrue`, `BundlesBelongTogether`, `RebootsAreSpaced` | `RebootHonest`, `BundleConsistent`, `RebootsSpaced` |
| `DeployProofs` | `JournalStaysSound`, `PromotionIsAtomic` | `JournalSound`, `ImplementsAtomicDeploy` |
| | `StagingIsSound`, `PasswordIsShown`, `WifiIsNeverStranded`, `PageIsHonest`, `SessionsAreNew` | `StagingSound`, `PasswordShown`, `WifiNeverStrands`, `PageHonest`, `SessionIsNew` |

For each component an invariant is first shown to be inductive (`InvariantHolds`,
`AudioInvariant`, `ChannelInvariant`, `SshInvariant`, `HonestInvariant`,
`PathInvariant`, `PlaybackInvariant`, `ControlInvariant`, `SessionInvariant`, `DiscoveryInvariant`,
`HostInvariant`, `DeployerInvariant`): it holds initially, and every action keeps
every part of it. Hardly any of the properties is inductive alone; what each
invariant adds, and why:

`VideoOutput`: proved for every number of surfaces from three up and every
value of the other constants are type correctness, `DisplaySound` (through
`NoTear`, `FlipNeverBusy`, `HoldIsBounded` and `OneChainAllocated`, a theorem each)
and `CeilingKeepsPicture`. The invariant `IInv` adds

* `ChainInv`: the front surface is the one on screen, or queued with its
  predecessor on screen -- from which `NoTear` follows by the lemma that with three
  surfaces neither the next surface nor the one after it is the current one;
* `FlipInv`: until a wait gives up, `flipPending` stands for exactly one flip,
  outstanding or completed and unread -- the accounting behind `FlipNeverBusy`;
* `HoldInv`, `AllocInv`, `CeilingInv`: the counters agree with what they count, and
  a chain is released only for a format below the ceiling.

`AudioOutput`: how the ring is kept is a matter of levels, and the proof says which
distances between them it takes (they are the module's assumption): a keep-alive
level of three periods, so that a wait costs one, a late wake another and one is
left; a start threshold and a target above that level by more than a live
sender's longest run of drops; a backlog of two frames. `SinkInv` says that a
device runs from its threshold on and that a wait is counted only while the sink
takes nothing, from which `LiveSinkKept` follows; `RoomInv` that the silence before
a frame leaves room for it; `FeedInv` that before every wait the ring of a device that
is known to play holds the keep-alive level, less what late wakes have cost. For a
live sender `CushionInv` says more, and of any device that has started. It adds up
what the sender has made good for: what the ring holds, what
the call has still to write, what is queued with the holes before it, and what was
dropped or is due since. Every step leaves that sum alone, a tick moves one period
from the ring to what is due, and the sum was above the level when the device
started; or the ring is full to its target, where the queue may shed (`LevelInv`,
which also counts the frames the current wait may still receive, because a device
not known to play is waited for much longer than a period). The proof also showed
that a reopened device was taken to have room for a frame longer than its ring:
`fits` now says otherwise.

`DeployTransaction`: proved for every set of files and number of
deployments are type correctness, `JournalSound` (through `JournalReadable` and
`AckedSurvives`) and the refinement `Spec => Atomic!Spec`. Its invariant says of
the script's position what the journal holds (`JournalInv`), which files are
backed up and which are installed during a promotion (`PromoteInv`) and during a
rollback (`RollbackInv`), that the bytes of a ready journal are on the medium
(`TornInv`), and that nothing acknowledged can be lost by recovering either
directory (`AckInv`). The refinement goes step by step: only `Commit` changes what
recovery arrives at, and there it changes every name of the manifest at once.

`FrameChannel` has two independent parts. For the stream: what has been
read of the frame in hand followed by what waits in the socket is one sequence,
`Stream`, which is `Framed` (from every first byte on come the bytes of that frame
and then the first byte of the next one) and which the sender `Continues` (its
next byte goes on where the stream ends). An arrival appends to it, a read moves
the border inside it, a complete frame drops a whole frame from its front, a close
empties it; `Expected`, the frame after the last one returned, is the one at its
front. For the clock: a frame's age and what is left of its budget never exceed
the budget, a call outlasts its deadline only for a frame that has begun, and a
poll on a partial frame ends within the budget and one slice.

`VideoPath` has an arithmetic part and a part about threads. The first shows
what the placement that `Prepare` accepts is worth: `choose_mode` returns a mode of
the display's list, every sampled row is a row of the picture, and `Upto` counts
exactly the leading rows above a slice's end (`UptoIs`), so that a destination row
is in the range of exactly the slice that holds its source row (`RangeOf`). Hence
the slices write inside the surface, without overlap, and together the whole
picture (`SlicesShare`). Where these lemmas need induction over a table of rows
they take the least counterexample (`Least`, from the well-foundedness of the
naturals). The second part is the invariant: `pool.running` is the number of
workers owed (`Owing`: at work, or yet to take the published job), nobody is owed
while the session's thread is not decoding, and whoever works has seen the current
generation (`CountInv`); every thread's job is the decoder's (`JobInv`); claimed
slices are below `next` and distinct (`ClaimInv`); streams and matrix are of the
frame last taken (`LoadedInv`); and until a slice fails, the rows on the surface
are those of the slices claimed and finished (`OutInv`). When nobody is owed and
every slice is claimed, the finished slices are all of them, which is
`WholePicture`. The queue of `Handoff` is a third part: `QueueInv` joins the types, the
bound of what was taken by what was stored, and the three parts of `QueueSound`,
which are inductive only together. That `bytes` is the sum of the queued lengths is
a fact about a fold; the lemmas on it take the least prefix at which it could fail.

`Playback`: the invariant adds that a session that is ending has a failure or the stop flag
to show for it (without which the document could be left saying "running" between
sessions), that `recoveries` never outnumbers the code's own `attempts`, and that a
reconnect is begun only while `attempts` has room. A worker that takes a step is
then the worker of a session that is still on, so its reports need no further
care; what remains is the outer loop, where the worker has been joined.

`PlaybackControl`: the lock belongs to whoever is past it (`LockInv`); a
controller is only where its command takes it (`CmdInv`); the PID record names a
receiver or one that has exited, and whoever starts a process has removed the
record first (`PidInv`); every live process is the recorded one or the one being
started (`OwnInv`, unless `cut`); and once a restart has launched a process, what
it has read so far of the saved choices is what they are (`PlayInv`). `StopsAreStops`
follows because a stop that reports success stood alone behind the lock and
removed the record of the only process alive.

`WebAccess`: a record's digest is that of the password it was made under, ids
are unique, and a record in time that did not go astray is held by a browser
*whatever password it is bound to*. The last is stronger than `NoOrphanSession` and has to be: a record that
is dead under this password is live again when the password is set back.
`GuessInv` ties the limiter to what it is there for: of any age, a peer has had no
more guesses verified than the limiter remembers of it at that age, whatever other
peers and routes made of the table. A full window in `GuessesBounded` would need a
full list, and a full list lets nothing through.

`Discovery`: the list a browse prints is compared with `hist`, which adds up what was
read. Between a message's arrival and its effect on the list lie the queue and the
removal set, so `BrowseInv` says what the queued messages still have to do to the
list, unless a table overflowed. `TransportInv` says that the command that fills the
cache asks the server the settings name, and that the cache is from there unless a
failed save left it unsure; `ProbeInv` that while video is sampled the time that audio
may still need is kept, unless the sample is committed to a frame that has begun, that
only the sample in progress is, and that what a sample was in time for it takes.

`SshSession`: `SshInv` makes each of the two streams a `Chain` from the key and number
its reader is at to those its writer is at: every packet is sealed where the one
before it leaves the cipher, and `NEWKEYS` is where key and number start again. A
wrong guess stands right behind its KEXINIT, so that what `DropGuess` throws away is
never a `NEWKEYS`. Credentials are sent only behind the first exchange, whose host key
was known (`UpGuarded`, `KnownHost`); and no step but the reply of the first exchange
changes the key the session is bound to (`StepKeepsKey`), so a later exchange, with
credentials on their way or not, ends the session or keeps it.

`HonestInv` follows one command through the queues between it and the client. A
channel number is used once, and nothing on its way bears one not given out yet
(`FreshInv`): what an operation before left behind, in either stream, held back during
a key exchange or said by a process still running, is never taken for the command's.
The command was asked for once, after its channel was opened, and the client closes no
channel the server has not closed unless the command is given up (`AskInv`,
`OnceInv`). The server sends output before the exit status and that before the close
(`SpokenInv`); each unit a command has said was received or is on its way, and an exit
status is on its way or was received after all output (`TellInv`). When the client has
read the close nothing of it can be on its way, so the status it has is the command's
and its output is complete.

`HostRequests`: no id is known before it is made (`FreshInv`); an action that
has accepted a request has recorded it, and emptied the file before it publishes
(`ActInv`); whatever was asked before the last acceptance is at least as old as it,
wherever it is now (`AgeInv`); a request that has rebooted the host can nowhere be
read again (`AnswerInv`); a rejected one only until its file is emptied
(`RejectInv`). A request that is acceptable is younger than `MaxAge` and so, the
cooldown being longer, younger than the last acceptance: it cannot be an old one
met again, which gives the spacing.

`Deployer`: a job has passed a prefix of its steps, so the steps are numbered from the
last (`Place`, `Left`), and the invariant says what each step passed is worth: the job
does its own steps, and is what the operator agreed to (`PlanInv`, `PageInv`);
unless the operator had all replaced untested or a key overwritten, one saved profile
and one of the running list work, which a script that breaks off, or meets another,
keeps too (`WifiInv`);
the card and the stage hold what the job has verified so far (`CardInv`,
`ContentInv`); a stage outlives its job only where the loss is recorded
(`StagingInv`); an account the Pi refused while the job waits for a reboot, and no
connection to which was lost, is refused until the new system is up (`BootInv`); and a
container that runs before the reboot is read before it, one deferred to the reboot
after it, also when the job came back to the old system, so that a password made is
read before its log is gone, and what was read is what is reported at the end
(`BannerInv`).

The assumptions are the `ASSUME`s of the component modules and nothing else. Beyond
types they say:

* `FrameChannel`: `Slice > 0`. Every caller computes a deadline ahead of it; with a
  slice of nothing a poll could begin on a frame whose budget has just run out.
  The budget and the header are not empty.
* `HostRequests`: `MaxAge < Cooldown`, as in `host-reboot.sh:29` (a request is stale
  after 30 s, the cooldown is 60).
* `PlaybackControl`: "no holder" and "no record" are not names of controllers or
  processes.
* `AudioOutput`: the distances between the levels given above, which those of
  `audio.rs` have with a sender that drops one frame in a row.
* `SshSession`: more than one sequence number, so that a number can be told from the
  next one; something to upload and room for it.
* `Discovery`: no table or budget is empty. `Deployer`: the password a container makes
  up is none that the operator types, and there is a password that is not weak.
* `Playback`: at least one reconnect is allowed. `WebAccess`: a session lives for
  some time. `VideoOutput`: three surfaces at least. `VideoPath`: at least one
  thread, one row to a slice, one pixel to a picture and to a mode.

TLC was used on the invariants before they were proved, to find what they lacked: on
the instances above.

Only model-checked:

* all liveness properties: reasoning under fairness is outside the provers;
* `UploadWhole` of `SshSession`. `HonestInv` follows a command; an upload adds the
  requests of two attempts, an SFTP process given up and still serving its input behind
  the `cat` that follows it, and needs an invariant about both processes and the file.

## Not modelled

* Cryptography, the SSH key derivation and private key formats: ideal in
  `SshSession`.
* The VMX bit stream, transform and colour conversion: arithmetic without state,
  compared bit for bit by the crate's tests.
* The layout of wire, D-Bus, JSON and XML messages; templates (`tv.rs`) and texts; Unicode
  tables.
* The HTTP and TLS loop of `omt-web/src/http.rs`: one thread, whose effect on the
  rest is that an answer arrives or is lost. The HTTP admission of the deployer's
  page, the ring of its log, the archive of its capsule.
* `set-hostname.sh`, log rotation and the entrypoint's preparation: single
  commands without state of their own in this repository.
* `install.sh`, `setup-sys.sh`, `bootstrap.sh`, `uninstall.sh`: packages, kernel and
  firmware configuration; one step that may fail in `Deployer`.
* Bindings of `omt-sys`, the test sender, fuzzers and build scripts.
* Clocks that step: deadlines are what is left of them.

## Plan

1. The requests of an upload's two attempts through the queues of `SshSession`, as
   `HonestInv` follows a command, and from it `UploadWhole`.
2. `Playback` composed with `PlaybackControl`, so that a stop's escalation meets
   the receiver's own end.
3. The HTTP loop of `omt-web` with its connection limits.
