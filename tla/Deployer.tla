------------------------------- MODULE Deployer --------------------------------
(***************************************************************************)
(* The workstation's deployer and the Raspberry Pi it works on: the        *)
(* operations of crates/omt-deploy/src/ops.rs (with core.rs, jobs.rs and   *)
(* sd_card.rs), run one at a time on a worker thread by the browser front  *)
(* end (crates/rpi-omt-deploy-gui/src/app.rs and server.rs) or directly by *)
(* the command line (crates/rpi-omt-deploy/src/main.rs).                   *)
(*                                                                         *)
(* A job is the list of steps it still has to do.  A step is a command     *)
(* over the SSH session: it may fail on the Pi, lose the session, or meet  *)
(* the operator's cancellation, before the Pi has run it or after.  The Pi *)
(* reboots, starts its container, runs the Wi-Fi script and prints to its  *)
(* log on its own time; of its other commands one that was given up has    *)
(* run, or never will.  What transaction.sh does with a promoted stage is  *)
(* DeployTransaction's subject; a promotion is one step.  One browser page *)
(* drives the front end.                                                   *)
(***************************************************************************)
EXTENDS Naturals, Sequences, FiniteSets

CONSTANTS
    Members,    \* the capsule's members, uploaded in order
    Passwords,  \* pi passwords an operator types
    Weak,       \* those that validate_os_password() refuses
    Kinds,      \* the kinds of job started
    Hosts,      \* ways to become root a Pi may offer, "su" with the root password
    Jobs,       \* bound: jobs started
    Edits,      \* bound: changes to the project's working tree
    Patience,   \* polls before the deadline of a wait
    Redirects   \* redirects a download follows

ASSUME DeployerAssumption ==
    /\ {Members, Jobs, Edits, Patience, Redirects} \subseteq Nat
    /\ Hosts \subseteq SUBSET {"root", "bash", "sudo", "doas", "su"}
    /\ Members > 0 /\ Weak \subseteq Passwords /\ Passwords # Weak
    /\ "factory" \notin Passwords

VARIABLES
    front,   \* "page" or "cli"
    form,    \* what the page edits: [pi, apply, login]
    confirm, \* the open question: a kind of job, "quit" or "none"
    worker,  \* shared with the job's thread: [run, lines, cancel]
    log,     \* lines in the activity log
    quit,
    job,     \* the job, captured when it starts
    tree,    \* the project's working tree: each member's version
    engine,  \* the workstation's container engine: [windows, arm64]
    card,    \* the boot partition: [overlay, wifi], each absent, cut short or there
    pi,      \* the Raspberry Pi
    started, \* jobs started so far
    hist     \* history: [agreed, said, auto, made, late, cut, fell, stray, blind, over]

view == <<form, confirm, log, quit>>
workstation == <<tree, engine, card>>
deployerVars == <<front, view, worker, job, workstation, pi, started, hist>>

Index   == 1..Members
Nothing == [i \in Index |-> 0]
APassword == CHOOSE p \in Passwords \ Weak : TRUE

\* Slot::job(): the buttons that ask first.
Asks == {"alpine", "restart", "reboot"}

\* prepare_sd_card()
CardSteps == <<"checks", "download", "checksum", "overlay", "wifi_file">>

\* alpine_setup()
AlpineSteps == <<"connect", "probe", "setup", "boot_id", "reboot", "wait">>

\* build_image(): on Windows the emulation is registered first.
BuildSteps(req) ==
    IF req.flag # "rebuild" THEN <<>>
    ELSE IF engine.windows THEN <<"emulate", "build">> ELSE <<"build">>

\* deploy()
DeploySteps(req) ==
    BuildSteps(req)
    \o <<"artifacts", "connect", "probe", "bootstrap", "run", "stage", "upload", "promote",
         "install", "banner", "boot_id", "reboot", "wait", "appliance", "banner">>

\* apply_wifi(): the script is started, and its exit status awaited.
WifiSteps == <<"connect", "wifi", "exit">>

\* test_connection()
TestSteps == <<"connect", "probe">>

\* run_job(): the steps of each job, in order.
Steps(req) ==
    CASE req.kind = "prepare_sd"   -> CardSteps
      [] req.kind = "alpine"       -> AlpineSteps
      [] req.kind = "deploy"       ->
           DeploySteps(req) \o (IF req.flag = "rotate" THEN <<"connect", "set_password">> ELSE <<>>)
      [] req.kind = "restart"      -> <<"connect", "restart">>
      [] req.kind = "reboot"       -> <<"connect", "reboot">>
      [] req.kind = "web_password" -> <<"connect", "set_password">>
      [] req.kind = "wifi"         -> WifiSteps
      [] req.kind = "test"         -> TestSteps
      [] OTHER                     -> <<"connect", "run">>

\* What a form offers beside its button: a new web password after a deployment;
\* a Wi-Fi profile beside the others, in their place once it connects, or in
\* their place untested; a Wi-Fi passphrase or a key.
Flags(kind) ==
    CASE kind = "deploy"     -> {"none", "rotate"}
      [] kind = "wifi"       -> {"keep", "replace", "blind"}
      [] kind = "prepare_sd" -> {"phrase", "key"}
      [] OTHER               -> {"none"}

\* The accounts wait_for_reboot() tries, in order.
Accounts == IF job.req.kind = "alpine" THEN <<"pi", "root">> ELSE <<"login">>

Idle == [todo |-> <<>>, req |-> [kind |-> "test", pi |-> APassword, flag |-> "none", apply |-> FALSE],
         conn |-> 0, boot |-> 0, saw |-> {}, lost |-> {}, account |-> 1, left |-> 0, member |-> 1,
         digest |-> Nothing, read |-> FALSE, shown |-> FALSE, live |-> FALSE, hops |-> 0, body |-> "none"]

DeployerInit ==
    /\ front \in {"page", "cli"}
    /\ form = [pi |-> APassword, apply |-> FALSE, login |-> "factory"]
    /\ confirm = "none" /\ log = 0 /\ quit = FALSE
    /\ worker = [run |-> "none", lines |-> 0, cancel |-> FALSE]
    /\ job = Idle /\ started = 0
    /\ tree = [i \in Index |-> 1]
    /\ engine \in [windows : BOOLEAN, arm64 : BOOLEAN]
    /\ front = "page" => engine = [windows |-> FALSE, arm64 |-> FALSE]
    /\ card = [overlay |-> "none", wifi |-> "none"]
    /\ \E supported \in BOOLEAN, has \in Hosts :
       /\ front = "page" => has = {"root"}
       /\ pi = [boot |-> 1, sshd |-> TRUE, going |-> FALSE, accounts |-> {"login"},
               password |-> "factory", has |-> has, staging |-> FALSE, stage |-> Nothing,
               release |-> Nothing, container |-> "none", hash |-> FALSE, log |-> "none",
               scripts |-> {}, wifi |-> {0}, saved |-> {0}, works |-> {0}, supported |-> supported]
    /\ hist = [agreed |-> "none", said |-> 0, auto |-> FALSE, made |-> FALSE, late |-> FALSE,
               cut |-> FALSE, fell |-> FALSE, stray |-> FALSE, blind |-> FALSE, over |-> FALSE]
--------------------------------------------------------------------------------
(* The front end.                                                          *)

busy == worker.run # "none"

Free == [run |-> "none", lines |-> 0, cancel |-> FALSE]

\* The history that concerns no job any more.
Forgotten == [hist EXCEPT !.said = 0, !.agreed = "none", !.late = FALSE, !.made = FALSE]

\* validate_alpine_setup(), for its passwords.
Valid(kind, p) == kind = "alpine" => p \notin Weak

\* request(): what the job is given.
Request(kind, p, flag) == [kind |-> kind, pi |-> p, flag |-> flag, apply |-> form.apply]

Runs(req) ==
    /\ started < Jobs /\ started' = started + 1
    /\ worker' = [Free EXCEPT !.run = "running"]
    /\ job' = [Idle EXCEPT !.req = req, !.todo = Steps(req), !.left = Patience]

\* A form that is refused, or a job that runs, starts nothing.
Startable(kind) == ~busy /\ Valid(kind, form.pi)

\* start(): the job gets what the form holds now, if precheck() accepts it.
Start(kind) ==
    /\ Startable(kind)
    /\ \E flag \in Flags(kind) : Runs(Request(kind, form.pi, flag))

\* press(): a button that asks first opens its question, even while a job runs.
Press(kind) ==
    /\ front = "page" /\ ~quit /\ confirm = "none" /\ started < Jobs
    /\ IF kind \in Asks
       THEN confirm' = kind /\ UNCHANGED <<worker, job, started, hist>>
       ELSE Start(kind) /\ UNCHANGED <<confirm, hist>>
    /\ UNCHANGED <<front, form, log, quit, workstation, pi>>

\* The process ends, and the job's thread with it.
Exits ==
    /\ quit' = TRUE /\ confirm' = "none" /\ log' = 0
    /\ worker' = Free /\ job' = Idle /\ hist' = Forgotten
    /\ UNCHANGED started

\* confirm_pending()
Accept ==
    /\ confirm # "none" /\ ~quit
    /\ \/ confirm = "quit" /\ Exits
       \/ /\ confirm # "quit" /\ confirm' = "none"
          /\ IF ~Startable(confirm) THEN UNCHANGED <<worker, job, started, hist>>
             ELSE /\ Start(confirm)
                  /\ hist' = [hist EXCEPT !.agreed = confirm, !.auto = @ /\ confirm # "alpine"]
          /\ UNCHANGED <<log, quit>>
    /\ UNCHANGED <<front, form, workstation, pi>>

Decline ==
    /\ confirm # "none" /\ ~quit /\ confirm' = "none"
    /\ UNCHANGED <<front, form, log, quit, worker, job, workstation, pi, started, hist>>

\* request_quit(): quitting asks first while a job runs, over any open question.
Quit ==
    /\ front = "page" /\ ~quit
    /\ IF busy THEN confirm' = "quit" /\ UNCHANGED <<log, quit, worker, job, started, hist>> ELSE Exits
    /\ UNCHANGED <<front, form, workstation, pi>>

Cancel ==
    /\ front = "page" /\ ~quit /\ worker.run # "none" /\ ~worker.cancel
    /\ worker' = [worker EXCEPT !.cancel = TRUE]
    /\ UNCHANGED <<front, view, job, workstation, pi, started, hist>>

SetFields_Always(p, apply) ==
    /\ front = "page" /\ ~quit /\ started < Jobs
    /\ form' = [form EXCEPT !.pi = p, !.apply = apply]
    /\ UNCHANGED <<front, confirm, log, quit, worker, job, workstation, pi, started, hist>>

\* set_fields(): nothing changes while a job runs, or has run and not been
\* looked at.
SetFields(p, apply) ==
    /\ front = "page" /\ ~quit /\ ~busy /\ started < Jobs
    /\ form' = [form EXCEPT !.pi = p, !.apply = apply]
    /\ UNCHANGED <<front, confirm, log, quit, worker, job, workstation, pi, started, hist>>

\* The new pi login, when an installation that asked for it has succeeded.
Switches == worker.run = "ok" /\ job.req.kind = "alpine" /\ job.req.apply

\* poll_worker(): the lines and the result are taken together.
PollWorker ==
    /\ front = "page" /\ ~quit /\ busy
    /\ log' = log + worker.lines
    /\ worker' = IF worker.run = "running" THEN [worker EXCEPT !.lines = 0]
                 ELSE Free
    /\ form' = [form EXCEPT !.login = IF Switches THEN form.pi ELSE @]
    /\ IF worker.run = "running" THEN UNCHANGED <<job, hist>>
       ELSE /\ job' = Idle
            /\ hist' = [Forgotten EXCEPT !.auto = @ \/ Switches, !.said = hist.said]
    /\ UNCHANGED <<front, confirm, quit, workstation, pi, started>>

\* parse(): the options that must or may not be there together.
Options == {"stdin", "interactive", "key", "project", "rebuild", "required"}

Parsed(kind, opts) ==
    /\ ~({"stdin", "interactive"} \subseteq opts)
    /\ "rebuild" \in opts => "project" \in opts /\ kind = "deploy"
    /\ "required" \in opts

\* build_connection() and require_secret(): only a command that connects with a
\* key and sets nothing needs no secret.
HasSecrets(kind, opts) ==
    \/ {"stdin", "interactive"} \cap opts # {}
    \/ "key" \in opts /\ kind \in {"deploy", "restart", "reboot", "test"}

CliFlag(kind, opts) ==
    IF kind # "deploy" THEN Flags(kind)
    ELSE {IF "rebuild" \in opts THEN "rebuild" ELSE IF "project" \in opts THEN "project" ELSE "none"}

\* run() of the command line: one job, no cancellation, then the exit status.
CliRuns(kind, opts) ==
    /\ front = "cli" /\ started = 0 /\ ~quit
    /\ Parsed(kind, opts) /\ HasSecrets(kind, opts)
    /\ \E p \in Passwords, flag \in CliFlag(kind, opts) :
         Valid(kind, p) /\ Runs(Request(kind, p, flag))
    /\ hist' = [hist EXCEPT !.agreed = kind]
    /\ UNCHANGED <<front, view, workstation, pi>>

\* A command line, or a document of secrets, that is refused: the usage, and
\* nothing else.
CliRefused(kind, opts) ==
    /\ front = "cli" /\ started = 0 /\ ~quit
    /\ ~(Parsed(kind, opts) /\ HasSecrets(kind, opts)) \/ "stdin" \in opts
    /\ Exits
    /\ UNCHANGED <<front, form, workstation, pi>>

CliExits ==
    /\ front = "cli" /\ worker.run \in {"ok", "failed"} /\ ~quit
    /\ Exits
    /\ UNCHANGED <<front, form, workstation, pi>>
--------------------------------------------------------------------------------
(* The job.                                                                *)

\* The process is there, and the step is the job's next.
At(step) == worker.run = "running" /\ ~quit /\ job.todo # <<>> /\ Head(job.todo) = step

\* The session is to the system that now runs.
Connected == job.conn = pi.boot /\ pi.sshd

\* s.run() and the uploads look at the cancellation, and need the session.
Does(step) == At(step) /\ Connected /\ ~worker.cancel

Rest == Tail(job.todo)

Others == UNCHANGED <<front, view, worker, workstation, started, hist>>

\* The job fails; from the stage's creation to the promotion the stage is
\* removed first.
Failed ==
    IF Head(job.todo) \in {"upload", "verify", "promote"}
    THEN job' = [job EXCEPT !.todo = <<"unstage">>] /\ UNCHANGED worker
    ELSE worker' = [worker EXCEPT !.run = "failed"] /\ job' = [job EXCEPT !.todo = <<>>]

\* A step fails, by itself, for want of a session or because of a
\* cancellation, and has done nothing.
Fails ==
    /\ worker.run = "running" /\ ~quit /\ job.todo # <<>> /\ Head(job.todo) \notin {"unstage", "over"}
    /\ Failed
    /\ UNCHANGED <<front, view, workstation, pi, started, hist>>

\* remove_stage(), which no cancellation stops, and whose own failure is
\* ignored.
Unstage ==
    /\ At("unstage")
    /\ \/ Connected /\ pi' = [pi EXCEPT !.staging = FALSE, !.stage = Nothing] /\ UNCHANGED hist
       \/ UNCHANGED pi /\ hist' = [hist EXCEPT !.stray = @ \/ Connected]
    /\ worker' = [worker EXCEPT !.run = "failed"] /\ job' = [job EXCEPT !.todo = <<>>]
    /\ UNCHANGED <<front, view, workstation, started>>

\* The last line is reported, and then the outcome is stored.
Report ==
    /\ worker.run = "running" /\ ~quit /\ job.todo = <<>>
    /\ worker' = [worker EXCEPT !.lines = @ + 1] /\ hist' = [hist EXCEPT !.said = @ + 1]
    /\ job' = [job EXCEPT !.todo = <<"over">>]
    /\ UNCHANGED <<front, view, workstation, pi, started>>

Finish ==
    /\ At("over")
    /\ worker' = [worker EXCEPT !.run = "ok"] /\ job' = [job EXCEPT !.todo = <<>>]
    /\ UNCHANGED <<front, view, workstation, pi, started, hist>>

\* validate_sd_settings() and checked_target(): the card is there, and nothing
\* but regular files is in the way; if not, the step fails.
CheckCard ==
    /\ At("checks") /\ ~worker.cancel
    /\ job' = [job EXCEPT !.todo = Rest] /\ UNCHANGED pi
    /\ Others

\* exchange(): what a response without an error is.  A status other than 200,
\* a body too long or cut short, and a redirect without a place to go are
\* errors.
Replies == {"pinned", "other", "https", "elsewhere"}

\* resolve_location() and parse_url(): only HTTPS is followed.
Follows(reply) == reply = "https"

\* get(): one request after another, within one deadline.
Download ==
    /\ At("download") /\ ~worker.cancel
    /\ \E reply \in Replies :
         \/ /\ reply \in {"pinned", "other"}
            /\ job' = [job EXCEPT !.todo = Rest, !.body = reply]
         \/ /\ Follows(reply) /\ job.hops < Redirects
            /\ job' = [job EXCEPT !.hops = @ + 1]
    /\ UNCHANGED pi
    /\ Others

\* download_headless()
Checksum ==
    /\ At("checksum") /\ job.body = "pinned"
    /\ job' = [job EXCEPT !.todo = Rest] /\ UNCHANGED pi
    /\ Others

\* derive_wpa_psk(), after the download, knows passphrases only.
Derives == job.req.flag = "phrase"

\* write_file_sync(): the file is truncated first, so that a failure leaves a
\* part of it.
Writes(file, content) ==
    /\ \/ card' = [card EXCEPT ![file] = content] /\ job' = [job EXCEPT !.todo = Rest] /\ UNCHANGED worker
       \/ /\ card' = [card EXCEPT ![file] = "part"]
          /\ job' = [job EXCEPT !.todo = <<>>] /\ worker' = [worker EXCEPT !.run = "failed"]
    /\ UNCHANGED <<front, view, tree, engine, pi, started, hist>>

WriteOverlay == At("overlay") /\ ~worker.cancel /\ Derives /\ Writes("overlay", job.body)

WriteWifi == At("wifi_file") /\ Writes("wifi", "psk")

Connect ==
    /\ At("connect") /\ ~worker.cancel /\ pi.sshd
    /\ job' = [job EXCEPT !.todo = Rest, !.conn = pi.boot] /\ UNCHANGED pi
    /\ Others

\* require_supported_appliance()
Probe ==
    /\ Does("probe") /\ pi.supported
    /\ job' = [job EXCEPT !.todo = Rest] /\ UNCHANGED pi
    /\ Others

\* A command that changes nothing the model keeps: the recovery of an
\* interrupted deployment, status, logs, the host name.
Run ==
    /\ Does("run")
    /\ job' = [job EXCEPT !.todo = Rest] /\ UNCHANGED pi
    /\ Others

\* parse_host_tooling(): what the scripts need is there.
Tooled == {"bash", "sudo"} \subseteq pi.has

\* needs_su_bootstrap(), with the root password the operator gave.
NeedsSu == pi.has \cap {"root", "sudo"} = {} /\ "su" \in pi.has

\* bootstrap_escalation()
Escalates == pi.has \cap {"root", "sudo", "doas"} # {}

Bootstrapped == [pi EXCEPT !.has = @ \cup {"bash", "sudo"}]

\* ensure_host_bootstrapped(): if there is no way to become root it fails.
Bootstrap ==
    /\ Does("bootstrap") /\ (Tooled \/ NeedsSu \/ Escalates)
    /\ job' = [job EXCEPT !.todo = Rest] /\ pi' = Bootstrapped
    /\ Others

\* setup-sys.sh: the accounts' passwords may or may not change at once.
SetUp(now) == [pi EXCEPT !.password = job.req.pi, !.accounts = @ \cup now]

Setup ==
    /\ Does("setup")
    /\ job' = [job EXCEPT !.todo = Rest]
    /\ \E now \in SUBSET {"pi", "root"} : pi' = SetUp(now)
    /\ Others

\* ensure_arm64_emulation(): tried, registered if need be, and tried again.
Emulate ==
    /\ At("emulate")
    /\ engine' = [engine EXCEPT !.arm64 = TRUE]
    /\ job' = [job EXCEPT !.todo = Rest]
    /\ UNCHANGED <<front, view, worker, tree, card, pi, started, hist>>

\* build_image(), which writes the image among the capsule's files.
Build ==
    /\ At("build") /\ engine.arm64
    /\ tree' = [tree EXCEPT ![Members] = @ + 1]
    /\ job' = [job EXCEPT !.todo = Rest]
    /\ UNCHANGED <<front, view, worker, engine, card, pi, started, hist>>

\* capsule_artifacts(): every member's digest, before the connection is made.
Artifacts ==
    /\ At("artifacts") /\ ~worker.cancel
    /\ job' = [job EXCEPT !.todo = Rest, !.digest = tree] /\ UNCHANGED pi
    /\ Others

MadeStage == [pi EXCEPT !.staging = TRUE, !.stage = Nothing]

Stage ==
    /\ Does("stage")
    /\ job' = [job EXCEPT !.todo = Rest] /\ pi' = MadeStage
    /\ Others

\* One member is uploaded, whole or damaged ...
Uploaded(got) == [pi EXCEPT !.stage[job.member] = got]

Upload ==
    /\ Does("upload")
    /\ \E got \in {tree[job.member], 0} : pi' = Uploaded(got)
    /\ job' = [job EXCEPT !.todo = <<"verify">> \o Rest]
    /\ Others

ArtifactUnchanged == tree[job.member] = job.digest[job.member]

Verify_Fingerprint ==
    /\ Does("verify") /\ ArtifactUnchanged
    /\ job' = IF job.member = Members THEN [job EXCEPT !.todo = Rest]
              ELSE [job EXCEPT !.todo = <<"upload">> \o Rest, !.member = @ + 1]
    /\ UNCHANGED pi
    /\ Others

\* ... and accepted if neither the file nor what arrived differs from its
\* digest; if one does, the step fails.
Verify ==
    /\ Does("verify") /\ ArtifactUnchanged
    /\ pi.stage[job.member] = job.digest[job.member]
    /\ job' = IF job.member = Members THEN [job EXCEPT !.todo = Rest]
              ELSE [job EXCEPT !.todo = <<"upload">> \o Rest, !.member = @ + 1]
    /\ UNCHANGED pi
    /\ Others

Promoted == [pi EXCEPT !.release = pi.stage, !.staging = FALSE, !.stage = Nothing]

PromoteStage ==
    /\ Does("promote") /\ pi' = Promoted
    /\ job' = [job EXCEPT !.todo = Rest]
    /\ Others

\* A host whose display driver is live gets its container at once, the others
\* at the reboot.  The volume may hold a password from an earlier installation.
Installed(live, kept) ==
    [pi EXCEPT !.container = IF live THEN "starting" ELSE "deferred", !.log = "none", !.hash = @ \/ kept]

Install ==
    /\ Does("install") /\ Tooled
    /\ \E live, kept \in BOOLEAN :
         /\ job' = [job EXCEPT !.todo = Rest, !.live = live, !.left = Patience]
         /\ pi' = Installed(live, kept)
    /\ hist' = [hist EXCEPT !.made = FALSE]
    /\ UNCHANGED <<front, view, worker, workstation, started>>

\* first_web_password(): what the log holds of the banner.
FirstWebPassword == pi.log = "banner"

NeedsBanner_AfterReboot == ~job.live /\ ~job.read

\* fetch_initial_web_password() is called before the reboot when the container
\* already runs, and after it when there is no password yet.
NeedsBanner == ~job.read /\ (job.live \/ job.boot # 0)

\* The job has what the log told; only at its end, with the appliance running
\* again, is a password reported.
Told(password) ==
    [job EXCEPT !.todo = Rest, !.read = password, !.shown = password /\ job.boot # 0]

\* It reads the container's log until the banner or the server's own first
\* line is there.
ReadBanner ==
    /\ Does("banner") /\ NeedsBanner
    /\ \/ pi.log # "none" /\ job' = Told(FirstWebPassword) /\ UNCHANGED hist
       \/ /\ pi.log = "none" /\ job.left > 0
          /\ job' = [job EXCEPT !.left = @ - 1] /\ UNCHANGED hist
       \/ /\ pi.log = "none" /\ job.left = 0
          /\ job' = Told(FALSE) /\ hist' = [hist EXCEPT !.late = TRUE]
    /\ UNCHANGED <<front, view, worker, workstation, pi, started>>

\* docker logs failed: no password, and no failure.
NoBanner ==
    /\ Does("banner") /\ NeedsBanner
    /\ job' = Told(FALSE) /\ hist' = [hist EXCEPT !.late = TRUE]
    /\ UNCHANGED <<front, view, worker, workstation, pi, started>>

SkipBanner ==
    /\ At("banner") /\ ~NeedsBanner
    /\ job' = Told(job.read) /\ UNCHANGED pi
    /\ Others

ReadBootId ==
    /\ Does("boot_id")
    /\ job' = [job EXCEPT !.todo = Rest, !.boot = pi.boot] /\ UNCHANGED pi
    /\ Others

Leaving == [pi EXCEPT !.going = TRUE]

\* reboot_host(): the command answers before the host goes down.
Reboot ==
    /\ Does("reboot")
    /\ job' = [job EXCEPT !.todo = Rest, !.conn = 0, !.left = Patience, !.account = 1, !.saw = {},
                          !.lost = {}]
    /\ pi' = Leaving
    /\ Others

NextAccount == IF job.account = Len(Accounts) THEN 1 ELSE job.account + 1

SawDown_Shared(account) == job.saw # {}

\* saw_down is kept for each account.
SawDown(account) == account \in job.saw

\* A round of wait_for_reboot() has ended.
Round == IF job.account = Len(Accounts) THEN job.left - 1 ELSE job.left

\* The Pi would accept a connection to the account.
Accepts(account) == pi.sshd /\ account \in pi.accounts

\* One connection of wait_for_reboot(): refused, or lost on the network, which
\* looks the same; answered by a system whose boot id is new, or whose boot id
\* cannot be read although the account was down before; or the old system again.
TryAccount ==
    /\ At("wait") /\ ~worker.cancel /\ job.left > 0
    /\ LET account == Accounts[job.account]
       IN  \/ job' = [job EXCEPT !.saw = @ \cup {account},
                                 !.lost = IF Accepts(account) THEN @ \cup {account} ELSE @,
                                 !.account = NextAccount, !.left = Round]
           \/ /\ Accepts(account) /\ (pi.boot # job.boot \/ SawDown(account))
              /\ job' = [job EXCEPT !.todo = Rest, !.conn = pi.boot, !.left = Patience]
           \/ /\ Accepts(account) /\ (pi.boot = job.boot \/ ~SawDown(account))
              /\ job' = [job EXCEPT !.account = NextAccount, !.left = Round]
    /\ UNCHANGED pi
    /\ Others

\* wait_for_appliance()
AwaitAppliance ==
    /\ Does("appliance") /\ job.left > 0
    /\ job' = IF pi.container \in {"starting", "running"}
              THEN [job EXCEPT !.todo = Rest, !.left = Patience]
              ELSE [job EXCEPT !.left = @ - 1]
    /\ UNCHANGED pi
    /\ Others

\* A wait that ends badly, because the container does not start in time, the
\* session is lost or the operator cancels, is reported, and a password read
\* before is not; the deployment is complete.
NoAppliance ==
    /\ At("appliance")
    /\ job' = [job EXCEPT !.todo = Tail(Rest)] /\ hist' = [hist EXCEPT !.late = TRUE]
    /\ UNCHANGED <<front, view, worker, workstation, pi, started>>

Restarted == IF pi.container = "none" THEN "none" ELSE "starting"

Served == [pi EXCEPT !.container = Restarted, !.log = "none"]

Restart ==
    /\ Does("restart")
    /\ job' = [job EXCEPT !.todo = Rest] /\ pi' = Served
    /\ Others

Secured == [pi EXCEPT !.hash = TRUE, !.container = "starting", !.log = "none"]

\* change_web_password(): needs the container, and restarts it.
SetPassword ==
    /\ Does("set_password") /\ pi.container \in {"starting", "running"}
    /\ job' = [job EXCEPT !.todo = Rest] /\ pi' = Secured
    /\ Others

\* run_inner(): the Pi has run the command, but its answer is given up, because
\* the operator cancels or nothing is heard for a minute, or it is lost.
Unanswered ==
    /\ \/ Does("bootstrap") /\ (Tooled \/ NeedsSu \/ Escalates) /\ pi' = Bootstrapped
       \/ Does("setup") /\ \E now \in SUBSET {"pi", "root"} : pi' = SetUp(now)
       \/ Does("stage") /\ pi' = MadeStage
       \/ Does("upload") /\ \E got \in {tree[job.member], 0} : pi' = Uploaded(got)
       \/ Does("promote") /\ pi' = Promoted
       \/ Does("install") /\ Tooled /\ \E live, kept \in BOOLEAN : pi' = Installed(live, kept)
       \/ Does("reboot") /\ pi' = Leaving
       \/ Does("restart") /\ pi' = Served
       \/ Does("set_password") /\ pi.container \in {"starting", "running"} /\ pi' = Secured
    /\ Failed
    /\ hist' = [hist EXCEPT !.stray = @ \/ At("stage")]
    /\ UNCHANGED <<front, view, workstation, started>>
--------------------------------------------------------------------------------
(* WIFI_SCRIPT, which runs on the Pi to its end whether or not anyone waits *)
(* for it.  "wifi" is wpa_supplicant's list of profiles, "saved" its file;  *)
(* the n-th job's profile is n, and the Pi's first one is 0.                *)

\* A script goes on, or is gone: one that failed, or whose success was read.
Goes(s, at) == (pi.scripts \ {s}) \cup {[s EXCEPT !.at = at]}
Ends(s)     == pi.scripts \ {s}

StartScript ==
    /\ Does("wifi")
    /\ job' = [job EXCEPT !.todo = Rest]
    /\ pi' = [pi EXCEPT !.scripts = @ \cup {[n |-> started, flag |-> job.req.flag, at |-> "add"]}]
    /\ Others

ReadExit ==
    /\ Does("exit")
    /\ \E s \in pi.scripts : s.n = started /\ s.at = "ok" /\ pi' = [pi EXCEPT !.scripts = Ends(s)]
    /\ job' = [job EXCEPT !.todo = Rest]
    /\ Others

OffJob == UNCHANGED <<front, view, worker, job, workstation, started>>

\* add_network, or with the others kept a profile of the same name, whose key is
\* overwritten; the key is right or wrong.  Unless it must connect first, it is
\* saved at once, with the others or without.  A command that is not answered
\* by OK ends the script.
AddNetwork ==
    /\ pi.sshd
    /\ \E s \in pi.scripts, works \in BOOLEAN, old \in SUBSET pi.wifi :
         /\ s.at = "add" /\ Cardinality(old) <= 1 /\ (old # {} => s.flag = "keep")
         /\ LET wifi == (pi.wifi \ old) \cup {s.n}
                kept == IF s.flag = "blind" THEN {s.n} ELSE wifi
                with(list, file, scripts) ==
                  pi' = [pi EXCEPT !.wifi = list, !.saved = file, !.scripts = scripts,
                                   !.works = IF works THEN @ \cup {s.n} ELSE @]
            IN  \/ s.flag # "replace" /\ with(kept, kept, Goes(s, "ok"))
                \/ s.flag = "replace" /\ with(wifi, pi.saved, Goes(s, "associate"))
                \/ with(wifi, pi.saved, Ends(s))
                \/ s.flag = "blind" /\ with(kept, pi.saved, Ends(s))
         /\ hist' = [hist EXCEPT !.over = @ \/ old # {}, !.blind = @ \/ s.flag = "blind"]
    /\ OffJob

Associate_Untested ==
    /\ pi.sshd
    /\ \E s \in pi.scripts :
         /\ s.at = "associate"
         /\ \/ pi' = [pi EXCEPT !.wifi = {s.n}, !.saved = {s.n}, !.scripts = Goes(s, "ok")]
            \/ pi' = [pi EXCEPT !.wifi = {s.n}, !.scripts = Ends(s)]
            \/ pi' = [pi EXCEPT !.wifi = pi.saved, !.scripts = Ends(s)]
    /\ OffJob /\ UNCHANGED hist

\* Once it has associated, the others are removed and it is saved; unless it
\* does in time, the saved profiles are read again and the script fails.
Associate ==
    /\ pi.sshd
    /\ \E s \in pi.scripts :
         /\ s.at = "associate"
         /\ \/ /\ s.n \in pi.works \cap pi.wifi
               /\ \/ pi' = [pi EXCEPT !.wifi = {s.n}, !.saved = {s.n}, !.scripts = Goes(s, "ok")]
                  \/ pi' = [pi EXCEPT !.wifi = {s.n}, !.scripts = Ends(s)]
            \/ pi' = [pi EXCEPT !.wifi = pi.saved, !.scripts = Ends(s)]
    /\ OffJob /\ UNCHANGED hist
--------------------------------------------------------------------------------
(* The Pi and the network.                                                 *)

\* An earlier job's reboot may take the Pi down under a later job's session.
PiStops ==
    /\ pi.going /\ pi.sshd
    /\ pi' = [pi EXCEPT !.sshd = FALSE, !.scripts = {}]
    /\ hist' = [hist EXCEPT !.fell = @ \/ (job.conn = pi.boot /\ pi.staging)]
    /\ UNCHANGED <<front, view, worker, job, workstation, started>>

PiBoots ==
    /\ ~pi.sshd
    /\ pi' = [pi EXCEPT !.boot = @ + 1, !.sshd = TRUE, !.going = FALSE,
                        !.accounts = {"pi", "root", "login"}, !.log = "none", !.wifi = pi.saved,
                        !.container = Restarted]
    /\ UNCHANGED <<front, view, worker, job, workstation, started, hist>>

\* The entrypoint makes a password if there is none, prints it, and starts the
\* web server.
ContainerPrints ==
    /\ pi.container = "starting" /\ pi.sshd
    /\ pi' = [pi EXCEPT !.container = "running", !.hash = TRUE,
                        !.log = IF pi.hash THEN "listening" ELSE "banner"]
    /\ hist' = [hist EXCEPT !.made = @ \/ ~pi.hash]
    /\ UNCHANGED <<front, view, worker, job, workstation, started>>

\* The session breaks.
LosesSession ==
    /\ worker.run = "running" /\ job.conn # 0 /\ ~hist.cut
    /\ job' = [job EXCEPT !.conn = 0] /\ hist' = [hist EXCEPT !.cut = TRUE]
    /\ UNCHANGED <<front, view, worker, workstation, pi, started>>

\* Someone builds in the working tree after the digests were taken; the capsule
\* compiled into the deployer does not change.
EditTree ==
    /\ worker.run = "running" /\ job.digest # Nothing /\ job.req.flag \in {"project", "rebuild"}
    /\ Cardinality({i \in Index : tree[i] # job.digest[i]}) < Edits
    /\ \E i \in Index : tree' = [tree EXCEPT ![i] = @ + 1]
    /\ UNCHANGED <<front, view, worker, job, engine, card, pi, started, hist>>

JobStep ==
    \/ Fails \/ Unanswered \/ Unstage \/ Report \/ Finish
    \/ CheckCard \/ Download \/ Checksum \/ WriteOverlay \/ WriteWifi
    \/ Emulate \/ Build \/ Connect \/ Probe \/ Run \/ Bootstrap \/ Setup
    \/ Artifacts \/ Stage \/ Upload \/ Verify \/ PromoteStage \/ Install
    \/ ReadBanner \/ NoBanner \/ SkipBanner \/ ReadBootId \/ Reboot
    \/ TryAccount \/ AwaitAppliance \/ NoAppliance
    \/ Restart \/ SetPassword \/ StartScript \/ ReadExit

PiStep == PiStops \/ PiBoots \/ ContainerPrints \/ AddNetwork \/ Associate

\* Only an installation reads these two fields; a deployment or a Wi-Fi job is
\* started with them as they were at first.
Plain == form.pi = APassword /\ ~form.apply

Operator ==
    \/ \E k \in Kinds : (k \in Asks \/ Plain) /\ Press(k)
    \/ \E k \in Kinds, opts \in SUBSET Options : CliRuns(k, opts) \/ CliRefused(k, opts)
    \/ Accept \/ Decline \/ Quit \/ Cancel
    \/ \E p \in Passwords, apply \in BOOLEAN : (apply \/ p = APassword) /\ SetFields(p, apply)

DeployerNext == JobStep \/ PiStep \/ Operator \/ PollWorker \/ CliExits \/ LosesSession \/ EditTree

DeployerSpec == DeployerInit /\ [][DeployerNext]_deployerVars
--------------------------------------------------------------------------------
(* Properties.                                                             *)

\* A job goes on after a reboot only over a session to the system that came up,
\* never over one to the system that is still going down, whichever accounts
\* that one accepted; unless a connection to that account was lost on the
\* network while the Pi would have accepted it, which wait_for_reboot() takes
\* for the Pi being down.
SessionIsNew ==
    [][(At("wait") /\ job'.conn # job.conn) =>
         job'.conn > job.boot \/ Accounts[job.account] \in job.lost]_deployerVars

\* A deployment that completes has reported the web password the appliance made
\* during it, although the container that printed it is replaced at the
\* reboot; unless the log was not to be read in time, or wait_for_appliance()
\* ended badly.
PasswordShown ==
    (worker.run = "ok" /\ job.req.kind = "deploy" /\ hist.made /\ ~hist.late) => job.shown

\* Only what was verified is put anywhere.  What is promoted is, member by
\* member, what the digests were taken of, with the image just built if one was
\* asked for, and never on a board that is not supported; no overlay but the
\* pinned one is written to a card, and a card reported ready holds all of it;
\* and a deployment that ended, however it ended, leaves no stage, unless a
\* session broke, the Pi went down under one, the command that makes the stage
\* or the one that removes it was given up, or the deployer was quit.
StagingSound ==
    /\ pi.release # Nothing => pi.supported /\ \A i \in Index : pi.release[i] # 0
    /\ At("install") =>
         /\ pi.release = job.digest
         /\ job.req.flag = "rebuild" => pi.release[Members] > 1
    /\ card.overlay # "other"
    /\ (worker.run = "ok" /\ job.req.kind = "prepare_sd") => card = [overlay |-> "pinned", wifi |-> "psk"]
    /\ (worker.run \in {"ok", "failed"} /\ pi.staging) => (hist.cut \/ hist.fell \/ hist.stray)

\* The Pi always keeps a saved Wi-Fi profile that connects, whatever scripts run
\* beside each other, break off or are given up, unless the operator asked to
\* replace them all untested, or to keep them and gave a new key for one.
WifiNeverStrands == hist.blind \/ hist.over \/ pi.saved \cap pi.works # {}

\* What the operator sees is true: every line a job reported is in the log once
\* the job is gone from the page (of which the page keeps the last 2000), the
\* login filled in after an installation is the one that installation set,
\* which is none that the validators refuse, and no job that asks first runs
\* without its own question having been accepted.
PageHonest ==
    /\ worker.run = "none" => log = hist.said
    /\ hist.auto => form.login = pi.password
    /\ pi.password \notin Weak
    /\ (worker.run = "running" /\ job.req.kind \in Asks) => hist.agreed = job.req.kind
================================================================================
