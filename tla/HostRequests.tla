----------------------------- MODULE HostRequests ------------------------------
(***************************************************************************)
(* How the unprivileged web server gets root work done:                    *)
(* crates/omt-web/src/diagnostics.rs writes a request file in place        *)
(* (write_fixed_inode() of crates/omt-common/src/fsio.rs) and polls for    *)
(* the answer; on the host, host-event-watcher.sh runs host-reboot.sh (with*)
(* lib/reboot-request.sh) or host-diagnostics.sh when the file is closed   *)
(* after writing, and once when it starts.                                 *)
(*                                                                         *)
(* The web server, the two watchers and the two actions run concurrently;  *)
(* a watcher may die and leave its action running; power may fail between  *)
(* any two steps.  The web server handles one request at a time, so it     *)
(* waits for one answer at a time.  Request ids are fresh: the n-th        *)
(* request has id n.  A tick is a second, and every host file is synced    *)
(* before the script goes on.                                              *)
(***************************************************************************)
EXTENDS Naturals, FiniteSets

CONSTANTS
    Requests,   \* bound: requests an operator makes
    MaxAge,     \* MAX_AGE_SECONDS: older requests are stale
    Cooldown,   \* COOLDOWN_SECONDS between two accepted reboots
    Patience,   \* reboot_ack_timeout_s, and the bundle's budget
    Failures    \* bound: times the power fails or a watcher dies

ASSUME HostRequestsAssumption ==
    /\ {Requests, MaxAge, Cooldown, Patience, Failures} \subseteq Nat
    /\ MaxAge < Cooldown

Kinds == {"reboot", "diagnostics"}
Ids   == 1..Requests

VARIABLES
    web,       \* the web server: [pc, kind, id, asked, left, report, meta, pcap]
    sent,      \* requests made so far
    told,      \* what the operator was told of each reboot request
    file,      \* each request file: [id, age, asked]; id 0 is an empty file
    events,    \* close_write events a watcher has not read
    watcher,   \* each watcher: "down", "start" or "up"
    act,       \* each action process: [pc, req, orphan]
    last,      \* last-accepted: [id, age]
    result,    \* reboot.result: [id, status]
    pcap,      \* host-network.pcap: which capture it holds, or 0
    meta,      \* its metadata: [id, pcap]
    report,    \* host-report.txt: the request id it names
    runs,      \* captures so far; each is known by its number
    booted,    \* history: requests that rebooted the host
    lastBoot,  \* history: seconds since the acceptance of the last of them
    failures,  \* history: power failures and dead watchers
    cut        \* history: the power has failed

channel == <<file, events>>
bundle  == <<pcap, meta, report, runs>>
reboots == <<last, result>>
history == <<booted, lastBoot, failures, cut>>
vars == <<web, sent, told, channel, watcher, act, reboots, bundle, history>>

Nothing == [id |-> 0, age |-> 0, asked |-> FALSE]
Resting == [pc |-> "none", req |-> Nothing, orphan |-> FALSE]
Ready   == [pc |-> "idle", kind |-> "reboot", id |-> 0, asked |-> FALSE, left |-> 0,
            report |-> 0, meta |-> [id |-> 0, pcap |-> 0], pcap |-> 0]
Never   == Cooldown

Init ==
    /\ web = Ready /\ sent = 0 /\ told = [i \in Ids |-> "nothing"]
    /\ file = [k \in Kinds |-> Nothing] /\ events = [k \in Kinds |-> 0]
    /\ watcher = [k \in Kinds |-> "up"]
    /\ act = [k \in Kinds |-> Resting]
    /\ last = [id |-> 0, age |-> Never] /\ result = [id |-> 0, status |-> "none"]
    /\ pcap = 0 /\ meta = [id |-> 0, pcap |-> 0] /\ report = 0 /\ runs = 0
    /\ booted = {} /\ lastBoot = Never /\ failures = 0 /\ cut = FALSE
--------------------------------------------------------------------------------
(* The web server.                                                         *)

\* request_reboot(), bundle(): a new id, then write_fixed_inode(), which first
\* cuts the file to nothing ...
Submit(kind, asked) ==
    /\ web.pc = "idle" /\ sent < Requests
    /\ sent' = sent + 1
    /\ web' = [Ready EXCEPT !.pc = "write", !.kind = kind, !.id = sent + 1, !.asked = asked,
                            !.left = Patience]
    /\ file' = [file EXCEPT ![kind] = Nothing]
    /\ UNCHANGED <<told, events, watcher, act, reboots, bundle, history>>

\* A watcher gets to hear of it: events that say the same are one.
Closed(kind) == events' = [events EXCEPT ![kind] = IF watcher[kind] = "down" THEN 0 ELSE 1]

\* ... and then writes the record and closes it.
Write ==
    /\ web.pc = "write"
    /\ file' = [file EXCEPT ![web.kind] = [id |-> web.id, age |-> 0, asked |-> web.asked]]
    /\ Closed(web.kind)
    /\ web' = [web EXCEPT !.pc = "wait"]
    /\ UNCHANGED <<sent, told, watcher, act, reboots, bundle, history>>

\* The write failed: a reboot is refused, a bundle is made without the host.
WriteFails ==
    /\ web.pc = "write"
    /\ Closed(web.kind)
    /\ web' = [web EXCEPT !.pc = IF web.kind = "reboot" THEN "idle" ELSE "capture"]
    /\ UNCHANGED <<sent, told, file, watcher, act, reboots, bundle, history>>

Matches_Any(id) == id # 0

\* An answer counts only when it names this request.
Matches(id) == id = web.id

\* The host's answer to a reboot request.
Acknowledged ==
    /\ web.pc = "wait" /\ web.kind = "reboot" /\ Matches(result.id)
    /\ told' = [told EXCEPT ![web.id] = result.status]
    /\ web' = Ready
    /\ UNCHANGED <<sent, channel, watcher, act, reboots, bundle, history>>

\* wait_for_host_report()
ReportSeen ==
    /\ web.pc = "wait" /\ web.kind = "diagnostics" /\ Matches(report)
    /\ web' = [web EXCEPT !.pc = "capture", !.report = report]
    /\ UNCHANGED <<sent, told, channel, watcher, act, reboots, bundle, history>>

\* Nothing matched in time.
GivesUp ==
    /\ web.pc = "wait" /\ web.left = 0
    /\ web' = IF web.kind = "reboot" THEN Ready ELSE [web EXCEPT !.pc = "capture"]
    /\ UNCHANGED <<sent, told, channel, watcher, act, reboots, bundle, history>>

\* capture() reads the metadata; another request's is as good as none.
ReadMeta ==
    /\ web.pc = "capture"
    /\ web' = IF web.asked /\ Matches(meta.id) /\ meta.pcap # 0
              THEN [web EXCEPT !.pc = "pcap", !.meta = meta]
              ELSE [web EXCEPT !.pc = "pack"]
    /\ UNCHANGED <<sent, told, channel, watcher, act, reboots, bundle, history>>

ReadPcap_Unchecked ==
    /\ web.pc = "pcap"
    /\ web' = [web EXCEPT !.pc = "pack", !.pcap = pcap]
    /\ UNCHANGED <<sent, told, channel, watcher, act, reboots, bundle, history>>

\* ... and then the capture, whose size and SHA-256 it must have; if not, the
\* whole bundle fails.
ReadPcap ==
    /\ web.pc = "pcap"
    /\ web' = IF pcap = web.meta.pcap THEN [web EXCEPT !.pc = "pack", !.pcap = pcap] ELSE Ready
    /\ UNCHANGED <<sent, told, channel, watcher, act, reboots, bundle, history>>

\* The archive is finished and sent.
Pack ==
    /\ web.pc = "pack" /\ web' = Ready
    /\ UNCHANGED <<sent, told, channel, watcher, act, reboots, bundle, history>>
--------------------------------------------------------------------------------
(* The watchers.                                                           *)

\* run_action(): the reboot action exits at once when another holds its lock.
Runs(kind) ==
    act' = IF act[kind].pc = "none" THEN [act EXCEPT ![kind].pc = "read"] ELSE act

\* The watcher waits for its own action, not for one an earlier watcher left.
Free(kind) == act[kind].pc = "none" \/ act[kind].orphan

\* The watch is established before the file is looked at, so a request is seen
\* one way or the other, and sometimes both.
WatcherStarts(kind) ==
    /\ watcher[kind] = "start"
    /\ watcher' = [watcher EXCEPT ![kind] = "up"]
    /\ IF file[kind].id # 0 THEN Runs(kind) ELSE UNCHANGED act
    /\ UNCHANGED <<web, sent, told, channel, reboots, bundle, history>>

WatcherReads(kind) ==
    /\ watcher[kind] = "up" /\ events[kind] > 0 /\ Free(kind)
    /\ events' = [events EXCEPT ![kind] = 0] /\ Runs(kind)
    /\ UNCHANGED <<web, sent, told, file, watcher, reboots, bundle, history>>

WatcherDies_WithAction(kind) ==
    /\ watcher[kind] = "up" /\ failures < Failures
    /\ failures' = failures + 1
    /\ watcher' = [watcher EXCEPT ![kind] = "down"]
    /\ events' = [events EXCEPT ![kind] = 0]
    /\ act' = [act EXCEPT ![kind] = Resting]
    /\ UNCHANGED <<web, sent, told, file, reboots, bundle, booted, lastBoot, cut>>

\* The service dies, without its action, and is started again.  (Only the
\* reboot action has a lock; two collections at once are not modelled.)
WatcherDies(kind) ==
    /\ watcher[kind] = "up" /\ failures < Failures
    /\ failures' = failures + 1
    /\ watcher' = [watcher EXCEPT ![kind] = "down"]
    /\ events' = [events EXCEPT ![kind] = 0]
    /\ act' = [act EXCEPT ![kind].orphan = act[kind].pc # "none"]
    /\ UNCHANGED <<web, sent, told, file, reboots, bundle, booted, lastBoot, cut>>

WatcherRestarts(kind) ==
    /\ watcher[kind] = "down"
    /\ watcher' = [watcher EXCEPT ![kind] = "start"]
    /\ UNCHANGED <<web, sent, told, channel, act, reboots, bundle, history>>
--------------------------------------------------------------------------------
(* Both actions read the request and then look at its size again.          *)

Exits(kind) == act' = [act EXCEPT ![kind] = Resting]

\* host-reboot.sh exits on an empty file; host-diagnostics.sh goes on.
Read(kind) ==
    /\ act[kind].pc = "read"
    /\ IF kind = "reboot" /\ file[kind].id = 0
       THEN Exits(kind)
       ELSE act' = [act EXCEPT ![kind].pc = "check", ![kind].req = file[kind]]
    /\ UNCHANGED <<web, sent, told, channel, watcher, reboots, bundle, history>>

\* A file that changed its size meanwhile, or read as nothing, is no request;
\* diagnostics collects anyway, under an id that matches none.
Check(kind) ==
    /\ act[kind].pc = "check"
    /\ IF file[kind].id # 0 /\ act[kind].req.id # 0
       THEN act' = [act EXCEPT ![kind].pc = IF kind = "reboot" THEN "evaluate" ELSE "collect"]
       ELSE IF kind = "reboot" THEN Exits(kind)
            ELSE act' = [act EXCEPT ![kind].pc = "collect", ![kind].req = Nothing]
    /\ UNCHANGED <<web, sent, told, channel, watcher, reboots, bundle, history>>
--------------------------------------------------------------------------------
(* host-reboot.sh.                                                         *)

Reboot == act["reboot"]

Goto(pc) == act' = [act EXCEPT !["reboot"].pc = pc]

Acceptable_NoCooldown(req) == req.age <= MaxAge /\ last.id # req.id

\* reboot_evaluate_request()
Acceptable(req) ==
    /\ req.age <= MaxAge
    /\ last.id # req.id /\ last.age >= Cooldown

\* reject(): the answer first, then the request file is emptied, whatever is
\* in it by now.
Reject ==
    /\ Reboot.pc = "evaluate" /\ ~Acceptable(Reboot.req)
    /\ result' = [id |-> Reboot.req.id, status |-> "rejected"] /\ Goto("clear rejected")
    /\ UNCHANGED <<web, sent, told, channel, watcher, last, bundle, history>>

ClearRejected ==
    /\ Reboot.pc = "clear rejected"
    /\ file' = [file EXCEPT !["reboot"] = Nothing] /\ Closed("reboot")
    /\ Exits("reboot")
    /\ UNCHANGED <<web, sent, told, watcher, reboots, bundle, history>>

\* An accepted request is recorded before anything else happens.
Record ==
    /\ Reboot.pc = "evaluate" /\ Acceptable(Reboot.req)
    /\ last' = [id |-> Reboot.req.id, age |-> 0] /\ Goto("clear accepted")
    /\ UNCHANGED <<web, sent, told, channel, watcher, result, bundle, history>>

ClearAccepted ==
    /\ Reboot.pc = "clear accepted"
    /\ file' = [file EXCEPT !["reboot"] = Nothing] /\ Closed("reboot")
    /\ Goto("publish")
    /\ UNCHANGED <<web, sent, told, watcher, reboots, bundle, history>>

Publish ==
    /\ Reboot.pc = "publish"
    /\ result' = [id |-> Reboot.req.id, status |-> "accepted"] /\ Goto("sleep")
    /\ UNCHANGED <<web, sent, told, channel, watcher, last, bundle, history>>

\* Every process starts again; every synced file is as it was.
Boots ==
    /\ web' = Ready
    /\ events' = [k \in Kinds |-> 0] /\ watcher' = [k \in Kinds |-> "start"]
    /\ act' = [k \in Kinds |-> Resting]
    /\ UNCHANGED <<sent, told, file, reboots, bundle>>

\* exec /sbin/reboot
Reboots ==
    /\ Reboot.pc = "sleep"
    /\ Boots
    /\ booted' = booted \cup {Reboot.req.id} /\ lastBoot' = last.age
    /\ UNCHANGED <<failures, cut>>

PowerFails ==
    /\ failures < Failures /\ failures' = failures + 1
    /\ Boots
    /\ cut' = TRUE
    /\ UNCHANGED <<booted, lastBoot>>
--------------------------------------------------------------------------------
(* host-diagnostics.sh.                                                    *)

Diagnostics == act["diagnostics"]

Step(pc) == act' = [act EXCEPT !["diagnostics"].pc = pc]

\* A request that is too old is no request either.
Asked == Diagnostics.req.asked /\ Diagnostics.req.age <= MaxAge
Named == IF Diagnostics.req.age <= MaxAge THEN Diagnostics.req.id ELSE 0

\* publish_pcap(): a capture is moved into place, or an older one removed ...
Collect ==
    /\ Diagnostics.pc = "collect"
    /\ pcap' \in IF Asked THEN {0, runs + 1} ELSE {0}
    /\ runs' = IF pcap' = 0 THEN runs ELSE pcap'
    /\ Step("meta")
    /\ UNCHANGED <<web, sent, told, channel, watcher, reboots, meta, report, history>>

\* ... then its metadata, under the request's id ...
PublishMeta ==
    /\ Diagnostics.pc = "meta"
    /\ meta' = [id |-> Named, pcap |-> pcap] /\ Step("report")
    /\ UNCHANGED <<web, sent, told, channel, watcher, reboots, pcap, report, runs, history>>

\* ... and the report last.
PublishReport ==
    /\ Diagnostics.pc = "report"
    /\ report' = Named /\ Exits("diagnostics")
    /\ UNCHANGED <<web, sent, told, channel, watcher, reboots, pcap, meta, runs, history>>
--------------------------------------------------------------------------------
Older(age) == IF age < Cooldown THEN age + 1 ELSE age

Tick ==
    /\ web' = [web EXCEPT !.left = IF @ > 0 THEN @ - 1 ELSE 0]
    /\ file' = [k \in Kinds |-> IF file[k].id = 0 THEN Nothing ELSE [file[k] EXCEPT !.age = Older(@)]]
    /\ last' = [last EXCEPT !.age = Older(@)]
    /\ lastBoot' = Older(lastBoot)
    /\ act' = [k \in Kinds |-> [act[k] EXCEPT !.req.age = IF act[k].req.id = 0 THEN 0 ELSE Older(@)]]
    /\ UNCHANGED <<sent, told, events, watcher, result, bundle, booted, failures, cut>>

WebStep == Write \/ WriteFails \/ Acknowledged \/ ReportSeen \/ GivesUp \/ ReadMeta \/ ReadPcap \/ Pack

HostStep ==
    \/ \E k \in Kinds : \/ WatcherStarts(k) \/ WatcherReads(k) \/ WatcherRestarts(k)
                        \/ Read(k) \/ Check(k)
    \/ Reject \/ ClearRejected \/ Record \/ ClearAccepted \/ Publish \/ Reboots
    \/ Collect \/ PublishMeta \/ PublishReport

Next ==
    \/ \E k \in Kinds, asked \in BOOLEAN : (k = "reboot" => ~asked) /\ Submit(k, asked)
    \/ WebStep \/ HostStep \/ Tick \/ PowerFails
    \/ WatcherDies("reboot")

\* The scripts and the web server keep running, and time passes.
Spec == Init /\ [][Next]_vars /\ WF_vars(HostStep) /\ WF_vars(WebStep) /\ WF_vars(Tick)
--------------------------------------------------------------------------------
(* Properties.                                                             *)

\* What request_reboot() tells the operator is true: an accepted request was
\* recorded by the host and is about to reboot it or has; a rejected one never
\* does, as long as the power has not failed (which it may between the answer
\* and the emptying of the request file).
RebootHonest ==
    \A i \in Ids :
      /\ told[i] = "accepted" => i \in booted \/ last.id >= i
      /\ told[i] = "rejected" /\ ~cut => i \notin booted /\ ~(Reboot.pc = "sleep" /\ Reboot.req.id = i)

\* No request reboots the host twice, and no two requests do within the
\* cooldown, whatever was written while the host went down or was left in the
\* request file when it came up.
RebootsSpaced ==
    [][(Reboot.pc = "evaluate" /\ Reboot'.pc = "clear accepted") =>
         /\ Reboot.req.id \notin booted
         /\ lastBoot = Cooldown]_vars

\* Whatever a support bundle holds belongs together: the host report and the
\* capture are of this request, the capture is the one its metadata
\* describes, and there is none unless this request asked for one.
BundleConsistent ==
    web.pc = "pack" =>
      /\ web.report \in {0, web.id}
      /\ web.pcap # 0 => web.asked /\ web.meta = [id |-> web.id, pcap |-> web.pcap]

\* A reboot the operator was told is scheduled happens, unless the power fails
\* first; a watcher that dies meanwhile does not stop it.
ScheduledReboots ==
    \A i \in Ids : told[i] = "accepted" ~> (i \in booted \/ cut)
================================================================================
