------------------------------- MODULE Discovery -------------------------------
(***************************************************************************)
(* How the appliance finds OMT sources: the receiver's browse over Avahi's *)
(* D-Bus interface or a central discovery server (omt-receiver discovery.rs*)
(* mdns.rs, dbus.rs), its discover and probe commands (bin/omt-receiver.rs)*)
(* and the web server that runs them: the cached source list of the        *)
(* dashboard (playback.rs), the diagnostics checks, and the network        *)
(* settings the receiver reads (network.rs, app.rs).                       *)
(*                                                                         *)
(* The web server is one thread and waits for the command it started, so   *)
(* one receiver process at a time is enough.  A message is a record of     *)
(* what the readers tell apart; one whose body they refuse is "odd", one   *)
(* that does not parse is "bad".  An endpoint stands for the interface it  *)
(* was announced on.                                                       *)
(***************************************************************************)
EXTENDS Integers, FiniteSets, Sequences, Functions

CONSTANTS
    Names,         \* source names
    Endpoints,     \* addresses a source can be dialled at
    Servers,       \* discovery servers in the form omt://host:port
    DefaultServer, \* what a bare host is normalised to
    MaxSources,    \* MAX_SOURCES
    MaxResolvers,  \* MAX_RESOLVERS
    MaxRemoved,    \* MAX_REMOVED
    MaxPending,    \* MAX_PENDING
    Budget,        \* ticks a probe has left when its target is known
    BodyBudget,    \* BODY_BUDGET_MS, in the same ticks
    Signals        \* bound: messages a daemon or server sends in one browse

ASSUME DiscoveryAssumption ==
    /\ DefaultServer \in Servers
    /\ {MaxSources, MaxResolvers, MaxRemoved, MaxPending, Budget, BodyBudget} \subseteq Nat \ {0}
    /\ Signals \in Nat

Undiallable == "undiallable"  \* an address endpoint_from_parts() refuses
NoServer    == ""
NoList      == "no list"

VARIABLES
    net,    \* the server settings.xml names, or "broken" if it is refused
    cache,  \* the transport the cached names came by, or NoList
    unsure, \* history: since the names were cached, a save replaced
            \* settings.xml and was reported as failed
    rcv,    \* the receiver process the web server waits for
    asks,   \* the method calls Avahi has not answered, in order
    avahi,  \* [browser, told, resolving]: the objects of this client
    wire,   \* the messages on their way to the receiver
    probe,  \* measure(): time left, connections, frames (see NoProbe)
    sent,   \* messages sent in this browse
    hist    \* history: [found, gone, lossy] of what the receiver has read

web           == <<net, cache, unsure>>
bus           == <<asks, avahi, wire, sent>>
discoveryVars == <<web, rcv, bus, probe, hist>>

Media == {"video", "audio"}
Texts == {NoServer, "bare", "null"} \cup Servers

NoClient == [browser |-> FALSE, told |-> {}, resolving |-> {}]

\* left: time until the deadline; until: what is left of it when video's share
\* is over; on: the connections that were made; open: those not closed since;
\* body: time a frame that has begun may still take, or 0; ready: the media
\* with a whole frame; got: those reported.  History: torn, a frame began and
\* was never finished; missed, video came when its share was over.
NoProbe ==
    [left |-> 0, until |-> 0, on |-> {}, open |-> {}, body |-> 0, ready |-> {}, got |-> {},
     torn |-> {}, missed |-> FALSE]

Nothing  == [found |-> << >>, gone |-> {}, lossy |-> FALSE]
Off      == [pc |-> "off", cmd |-> "none", via |-> NoServer, list |-> << >>,
             removed |-> {}, resolvers |-> 0, pending |-> << >>, serial |-> 0,
             late |-> FALSE]

DiscoveryInit ==
    /\ net \in {"broken"} \cup Texts
    /\ cache = NoList /\ unsure = FALSE /\ rcv = Off /\ asks = << >> /\ avahi = NoClient
    /\ wire = << >> /\ probe = NoProbe /\ sent = 0 /\ hist = Nothing

----------------------------------------------------------------------------
\* The setting.

\* normalize_server(): a host gets the default port; "null" is an address the
\* web form takes and no receiver can dial.
Normalized(text) == IF text = "bare" THEN DefaultServer ELSE text

\* configured_server(): the receiver takes a full target only, and anything
\* else in the file means there is no server.
ConfiguredServer == IF net \in Servers THEN net ELSE NoServer

Free == rcv.pc = "off"

\* save_network_configuration(): what is typed or stored is refused, or they
\* say the same already.
Saved(text) ==
    /\ "broken" \notin {text, net}
    /\ Normalized(net) # Normalized(text)

NetworkPost_NoRefresh(text) ==
    /\ Free
    /\ net' = IF Saved(text) THEN Normalized(text) ELSE net
    /\ UNCHANGED <<cache, unsure, rcv, bus, probe, hist>>

\* network_post(): a new setting drops the cached list.
NetworkPost(text) ==
    /\ Free
    /\ net'   = IF Saved(text) THEN Normalized(text) ELSE net
    /\ cache' = IF Saved(text) THEN NoList ELSE cache
    /\ unsure' = (unsure /\ ~Saved(text))
    /\ UNCHANGED <<rcv, bus, probe, hist>>

\* atomic_replace() fails before its rename, or in the sync after it; the
\* error branch of network_post() keeps the cached list.
NetworkFails(text) ==
    /\ Free /\ Saved(text)
    /\ net' \in {net, Normalized(text)}
    /\ unsure' = (unsure \/ (net' # net /\ cache # NoList))
    /\ UNCHANGED <<cache, rcv, bus, probe, hist>>

\* refresh(), at its button and whenever a target is saved or cleared.
Refresh ==
    /\ Free /\ cache # NoList /\ cache' = NoList /\ unsure' = FALSE
    /\ UNCHANGED <<net, rcv, bus, probe, hist>>

\* source_cache_ttl_s passes, or the web server starts again.
Expires ==
    /\ cache # NoList /\ cache' = NoList /\ unsure' = FALSE
    /\ UNCHANGED <<net, rcv, bus, probe, hist>>

----------------------------------------------------------------------------
\* The command the web server runs.

\* sources() without a fresh cache, or a probe of a discovered name:
\* discover_sources() takes the configured server, or browses.
Start(cmd) ==
    /\ Free /\ (cmd = "sources" => cache = NoList)
    /\ rcv' = [Off EXCEPT !.pc = "open", !.cmd = cmd, !.via = ConfiguredServer]
    /\ hist' = Nothing /\ sent' = 0
    /\ UNCHANGED <<web, asks, avahi, wire, probe>>

\* A probe of a direct target dials it without a browse.
Dialling == [Off EXCEPT !.pc = "dial", !.cmd = "probe"]

StartDirect ==
    /\ Free
    /\ rcv' = Dialling
    /\ UNCHANGED <<web, bus, probe, hist>>

\* The connection and the objects of the client end with the browse.
Disconnects ==
    asks' = << >> /\ avahi' = NoClient /\ wire' = << >> /\ sent' = 0 /\ hist' = Nothing

Exit == rcv' = Off /\ probe' = NoProbe /\ Disconnects

\* proc::run() returns: what sources() got becomes the cache, which is an
\* empty list when the command failed or was killed at its timeout.
Returns ==
    /\ cache' = IF rcv.cmd = "sources" THEN rcv.via ELSE cache
    /\ Exit /\ UNCHANGED <<net, unsure>>

Prints ==
    /\ rcv.pc = "print" /\ rcv.cmd # "probe"
    /\ Returns

Killed ==
    /\ ~Free
    /\ Returns

Goes(pc) == rcv' = [rcv EXCEPT !.pc = pc]

\* send_call(): every call has the next serial.
Call(what, item) == Append(asks, [what |-> what, item |-> item, made |-> FALSE,
                                  serial |-> rcv.serial + 1])

\* open_system(): connect, authenticate and Hello, all before the deadline;
\* then ServiceBrowserNew is on its way.
Opens ==
    /\ rcv.pc = "open" /\ rcv.via = NoServer
    /\ \/ /\ rcv' = [rcv EXCEPT !.pc = "browser", !.serial = @ + 1]
          /\ asks' = Call("browser", << >>)
       \/ Goes("print") /\ asks' = asks
    /\ UNCHANGED <<web, avahi, wire, sent, probe, hist>>

\* server_sources() subscribes to the server's metadata.
Subscribes ==
    /\ rcv.pc = "open" /\ rcv.via # NoServer
    /\ Goes("server") \/ Goes("print")
    /\ UNCHANGED <<web, bus, probe, hist>>

\* The deadline of the whole browse passes.
Deadline ==
    /\ rcv.pc \in {"browser", "loop", "resolver", "server"} /\ ~rcv.late
    /\ rcv' = [rcv EXCEPT !.late = TRUE]
    /\ UNCHANGED <<web, bus, probe, hist>>

----------------------------------------------------------------------------
\* Avahi and the discovery server.

Send(m) ==
    /\ sent < Signals /\ sent' = sent + 1
    /\ wire' = Append(wire, m)

Listening == rcv.pc \in {"browser", "loop", "resolver"}

\* A call makes its object, whose signals may overtake the reply.
Makes ==
    /\ asks # << >> /\ ~Head(asks).made
    /\ asks' = [asks EXCEPT ![1].made = TRUE]
    /\ avahi' = IF Head(asks).what = "browser" THEN [avahi EXCEPT !.browser = TRUE]
                ELSE [avahi EXCEPT !.resolving = @ \cup {Head(asks).item}]
    /\ UNCHANGED <<web, rcv, wire, sent, probe, hist>>

Replies ==
    /\ asks # << >> /\ asks' = Tail(asks)
    /\ wire' = Append(wire, [kind |-> IF Head(asks).made THEN "return" ELSE "error",
                             serial |-> Head(asks).serial])
    /\ UNCHANGED <<web, rcv, avahi, sent, probe, hist>>

\* The network announces a service on an interface, or withdraws it.
Announces(n, e) ==
    /\ Listening /\ avahi.browser /\ <<n, e>> \notin avahi.told
    /\ Send([kind |-> "new", name |-> n, ep |-> e])
    /\ avahi' = [avahi EXCEPT !.told = @ \cup {<<n, e>>}]
    /\ UNCHANGED <<web, rcv, asks, probe, hist>>

Withdraws(n, e) ==
    /\ Listening /\ <<n, e>> \in avahi.told
    /\ Send([kind |-> "remove", name |-> n, ep |-> e])
    /\ avahi' = [avahi EXCEPT !.told = @ \ {<<n, e>>}]
    /\ UNCHANGED <<web, rcv, asks, probe, hist>>

\* A resolver reports the address of its service, again whenever it changes;
\* it may be one the receiver cannot dial.
Resolves(n, e) ==
    /\ Listening /\ <<n, e>> \in avahi.resolving
    /\ \E a \in {e, Undiallable} : Send([kind |-> "found", name |-> n, ep |-> a])
    /\ UNCHANGED <<web, rcv, asks, avahi, probe, hist>>

\* The discovery server announces a source, or its removal.
Serves(n) ==
    /\ rcv.pc = "server"
    /\ \E e \in Endpoints \cup {Undiallable} : \/ Send([kind |-> "found", name |-> n, ep |-> e])
                                               \/ Send([kind |-> "remove", name |-> n, ep |-> e])
    /\ UNCHANGED <<web, rcv, asks, avahi, probe, hist>>

\* Anything else the bus or the server sends.
Noise ==
    /\ Listening \/ rcv.pc = "server"
    /\ \E k \in {"odd", "bad"} : Send([kind |-> k])
    /\ UNCHANGED <<web, rcv, asks, avahi, probe, hist>>

----------------------------------------------------------------------------
\* The bus client.

\* History: what the messages read so far say of every source.
Noted(m) ==
    CASE m.kind = "remove" -> [hist EXCEPT !.gone = @ \cup {m.name}]
      [] m.kind = "found" /\ m.ep # Undiallable
           -> [hist EXCEPT !.found = [n \in DOMAIN @ \cup {m.name} |->
                                         IF n = m.name THEN m.ep ELSE @[n]]]
      [] OTHER -> hist

IsSignal(m) == m.kind \in {"new", "remove", "found", "odd"}

\* A signal that arrives during a call waits in pending; at its limit the
\* oldest gives way.
Queued(pending, m) ==
    Append(IF Len(pending) = MaxPending THEN Tail(pending) ELSE pending, m)

IsReply(m) == m.kind \in {"return", "error"} /\ m.serial = rcv.serial

\* call() reads the next message: a signal is queued and the reply to another
\* call passed over; its own reply ends it, or a message that does not parse.
\* There is no browse without a browser.
CallReads ==
    /\ rcv.pc \in {"browser", "resolver"} /\ wire # << >>
    /\ LET m == Head(wire) IN
       /\ wire' = Tail(wire)
       /\ rcv' = CASE IsSignal(m) -> [rcv EXCEPT !.pending = Queued(@, m)]
                   [] IsReply(m) /\ m.kind = "return" ->
                        [rcv EXCEPT !.pc = "loop",
                                    !.resolvers = @ + (IF rcv.pc = "resolver" THEN 1 ELSE 0)]
                   [] IsReply(m) \/ m.kind = "bad" ->
                        [rcv EXCEPT !.pc = IF @ = "browser" THEN "print" ELSE "loop"]
                   [] OTHER -> rcv
       /\ hist' = [Noted(m) EXCEPT !.lossy =
                     @ \/ (IsSignal(m) /\ Len(rcv.pending) = MaxPending)]
    /\ UNCHANGED <<web, asks, avahi, sent, probe>>

\* The deadline ends a call.
CallTimesOut ==
    /\ rcv.pc \in {"browser", "resolver"} /\ rcv.late
    /\ Goes(IF rcv.pc = "browser" THEN "print" ELSE "loop")
    /\ UNCHANGED <<web, bus, probe, hist>>

----------------------------------------------------------------------------
\* browse(): one message at a time, the queued ones first.

\* SourceSet::put().
Put(list, n, e) ==
    IF n \in DOMAIN list \/ Cardinality(DOMAIN list) < MaxSources
    THEN [k \in DOMAIN list \cup {n} |-> IF k = n THEN e ELSE list[k]]
    ELSE list

\* SourceSet::remove().
Without(list, n) == Restrict(list, DOMAIN list \ {n})

\* ItemNew: a resolver is asked for, unless there are too many; past the
\* deadline the call cannot even be sent.
OnNew(m) ==
    IF rcv.resolvers < MaxResolvers /\ ~rcv.late
    THEN [rcv EXCEPT !.pc = "resolver", !.serial = @ + 1]
    ELSE rcv

\* ItemRemove: the name leaves the list and stays out of it.
OnRemove(m) ==
    [rcv EXCEPT !.list = Without(@, m.name),
                !.removed = IF Cardinality(@) < MaxRemoved THEN @ \cup {m.name} ELSE @]

OnFound_Revives(m) ==
    IF m.ep # Undiallable /\ Cardinality(DOMAIN rcv.list) < MaxSources
    THEN [rcv EXCEPT !.list = Put(@, m.name, m.ep)]
    ELSE rcv

\* Found: a source that was not removed, as long as there is room.
OnFound(m) ==
    IF /\ m.ep # Undiallable /\ m.name \notin rcv.removed
       /\ Cardinality(DOMAIN rcv.list) < MaxSources
    THEN [rcv EXCEPT !.list = Put(@, m.name, m.ep)]
    ELSE rcv

Handled(m) == CASE m.kind = "new"    -> OnNew(m)
                [] m.kind = "remove" -> OnRemove(m)
                [] m.kind = "found"  -> OnFound(m)
                [] OTHER             -> rcv

\* History: a full set of removals or of sources forgets what it was told.
Forgets(m) ==
    \/ m.kind = "remove" /\ m.name \notin rcv.removed /\ Cardinality(rcv.removed) = MaxRemoved
    \/ m.kind = "found" /\ Cardinality(DOMAIN rcv.list) = MaxSources

Asks(m) == IF m.kind = "new" /\ Handled(m).pc = "resolver"
           THEN Call("resolver", <<m.name, m.ep>>) ELSE asks

\* next() hands out a queued signal, whatever the time.
NextQueued ==
    /\ rcv.pc = "loop" /\ rcv.pending # << >>
    /\ LET m == Head(rcv.pending) IN
       /\ rcv' = [Handled(m) EXCEPT !.pending = Tail(@)]
       /\ asks' = Asks(m)
       /\ hist' = [hist EXCEPT !.lossy = @ \/ Forgets(m)]
    /\ UNCHANGED <<web, avahi, wire, sent, probe>>

\* next() reads from the bus; past the deadline what is in its inbox already.
\* A message that does not parse ends the browse.
NextReads ==
    /\ rcv.pc = "loop" /\ rcv.pending = << >> /\ wire # << >>
    /\ LET m == Head(wire) IN
       /\ wire' = Tail(wire)
       /\ rcv' = IF m.kind = "bad" THEN [rcv EXCEPT !.pc = "free"] ELSE Handled(m)
       /\ asks' = Asks(m)
       /\ hist' = [Noted(m) EXCEPT !.lossy = @ \/ Forgets(m)]
    /\ UNCHANGED <<web, avahi, sent, probe>>

\* next() fails: the deadline, or the bus closed the connection.
LoopEnds ==
    /\ rcv.pc = "loop" /\ rcv.pending = << >>
    /\ Goes("free")
    /\ UNCHANGED <<web, bus, probe, hist>>

\* Free for every resolver and the browser, without waiting for an answer.
Frees ==
    /\ rcv.pc = "free"
    /\ rcv' = [rcv EXCEPT !.pc = "print", !.resolvers = 0]
    /\ avahi' = NoClient
    /\ UNCHANGED <<web, asks, wire, sent, probe, hist>>

----------------------------------------------------------------------------
\* server_sources(): the last announcement of a name counts.

NotedServer(m) ==
    CASE m.kind = "remove" -> [hist EXCEPT !.found = Without(@, m.name)]
      [] OTHER -> Noted(m)

ServerReads ==
    /\ rcv.pc = "server" /\ wire # << >> /\ Cardinality(DOMAIN rcv.list) < MaxSources
    /\ LET m == Head(wire) IN
       /\ wire' = Tail(wire)
       /\ rcv' = CASE m.kind = "remove" -> [rcv EXCEPT !.list = Without(@, m.name)]
                   [] m.kind = "found" /\ m.ep # Undiallable
                        -> [rcv EXCEPT !.list = Put(@, m.name, m.ep)]
                   [] m.kind = "bad" -> [rcv EXCEPT !.pc = "print"]
                   [] OTHER -> rcv
       /\ hist' = NotedServer(m)
    /\ UNCHANGED <<web, asks, avahi, sent, probe>>

\* The deadline, a full list, or the server closed the connection.
ServerEnds ==
    /\ rcv.pc = "server" /\ Goes("print")
    /\ UNCHANGED <<web, bus, probe, hist>>

----------------------------------------------------------------------------
\* probe: resolve() picks the target's endpoint, measure() samples it.

Resolved(n) ==
    /\ rcv.pc = "print" /\ rcv.cmd = "probe"
    /\ IF n \in DOMAIN rcv.list
       THEN rcv' = Dialling /\ Disconnects /\ UNCHANGED probe
       ELSE Exit
    /\ UNCHANGED web

FairSampleDeadline_Whole(left, reserve) == 0

\* fair_sample_deadline(): the time left when sampling video stops.
FairSampleDeadline(left, reserve) == IF reserve THEN left - left \div 2 ELSE 0

\* One pass of measure()'s loop, at its video sample.  Audio is owed a share
\* if it ever connected.
Samples(p) ==
    [p EXCEPT !.until = FairSampleDeadline(p.left, "audio" \in p.on \ p.got)]

\* measure() subscribes to both media; each may fail.
Dials ==
    /\ rcv.pc = "dial"
    /\ \E on \in SUBSET Media :
         probe' = Samples([NoProbe EXCEPT !.left = Budget, !.on = on, !.open = on])
    /\ Goes("video") /\ UNCHANGED <<web, bus, hist>>

Sampling == rcv.pc \in Media

\* The time left when a sample's deadline comes.
Limit(media) == IF media = "video" THEN probe.until ELSE 0

\* A sample can still take a frame: before its deadline, or one that has begun.
InTime(media) == probe.left > Limit(media) \/ probe.body > 0

\* Whether the sample in progress is over: its frame is there, it is not
\* wanted, its connection is closed, or its deadline has passed and no frame
\* has begun.
Over(media) ==
    \/ media \in probe.ready \/ media \notin probe.open \/ media \in probe.got
    \/ ~InTime(media)

\* The first bytes of a frame are read: receive() is committed to it and
\* finishes it on the body budget, past the sample's deadline and the probe's.
Begins ==
    /\ Sampling /\ ~Over(rcv.pc) /\ probe.body = 0
    /\ probe' = [probe EXCEPT !.body = BodyBudget]
    /\ UNCHANGED <<web, rcv, bus, hist>>

\* A frame is whole, in the socket or in the sample that reads it.
Arrives(media) ==
    /\ Sampling /\ media \in probe.open \ probe.ready
    /\ probe.left > 0 \/ (media = rcv.pc /\ probe.body > 0)
    /\ probe' = [probe EXCEPT
         !.ready = @ \cup {media},
         !.missed = @ \/ (media = "video" /\ ~(rcv.pc = "video" /\ InTime("video")))]
    /\ UNCHANGED <<web, rcv, bus, hist>>

\* The channel is closed, by its peer or for what it sent; a whole frame in
\* the socket can still be read.
Closed(p, media) ==
    [p EXCEPT !.open = @ \ {media},
              !.body = IF media = rcv.pc THEN 0 ELSE @,
              !.torn = IF media = rcv.pc /\ p.body > 0 THEN @ \cup {media} ELSE @]

Closes(media) ==
    /\ Sampling /\ media \in probe.open \ probe.ready
    /\ probe' = Closed(probe, media)
    /\ UNCHANGED <<web, rcv, bus, hist>>

Taken(media) ==
    [probe EXCEPT !.got = IF media \in probe.ready /\ InTime(media) THEN @ \cup {media} ELSE @,
                  !.body = 0]

\* The video sample ends, and the audio one begins.
VideoSampled ==
    /\ rcv.pc = "video" /\ Over("video")
    /\ probe' = Taken("video") /\ Goes("audio")
    /\ UNCHANGED <<web, bus, hist>>

\* The audio sample ends, and with it a pass: another one while there is time
\* and something is missing.
AudioSampled ==
    /\ rcv.pc = "audio" /\ Over("audio")
    /\ LET p == Taken("audio") IN
       IF p.left > 0 /\ p.got # Media /\ p.on # {}
       THEN probe' = Samples(p) /\ Goes("video")
       ELSE probe' = p /\ Goes("report")
    /\ UNCHANGED <<web, bus, hist>>

\* Time passes while a sample waits, or while the passes spin because what is
\* missing is closed.  A frame that outlasts its budget closes the channel.
SampleWaits ==
    /\ Sampling /\ (~Over(rcv.pc) \/ (probe.open \subseteq probe.got /\ probe.left > 0))
    /\ LET p == [probe EXCEPT !.left = IF @ > 0 THEN @ - 1 ELSE 0]
       IN  probe' = CASE p.body > 1 -> [p EXCEPT !.body = @ - 1]
                      [] p.body = 1 -> Closed(p, rcv.pc)
                      [] OTHER -> p
    /\ UNCHANGED <<web, rcv, bus, hist>>

Reports ==
    /\ rcv.pc = "report"
    /\ Exit /\ UNCHANGED web

----------------------------------------------------------------------------
DiscoveryNext ==
    \/ \E t \in {"broken"} \cup Texts : NetworkPost(t) \/ NetworkFails(t)
    \/ Refresh \/ Expires
    \/ \E cmd \in {"sources", "probe"} : Start(cmd)
    \/ StartDirect \/ Prints \/ Killed \/ Opens \/ Subscribes \/ Deadline
    \/ Makes \/ Replies \/ Noise
    \/ \E n \in Names : \/ Serves(n) \/ Resolved(n)
                        \/ \E e \in Endpoints : Announces(n, e) \/ Withdraws(n, e) \/ Resolves(n, e)
    \/ CallReads \/ CallTimesOut \/ NextQueued \/ NextReads \/ LoopEnds \/ Frees
    \/ ServerReads \/ ServerEnds
    \/ Dials \/ Begins \/ (\E media \in Media : Arrives(media) \/ Closes(media))
    \/ VideoSampled \/ AudioSampled \/ SampleWaits \/ Reports

DiscoverySpec == DiscoveryInit /\ [][DiscoveryNext]_discoveryVars

----------------------------------------------------------------------------
\* What a finished browse should list: every source the messages it read
\* resolved to an address, at the last such address, but none of those they
\* removed.
Expected == Restrict(hist.found, DOMAIN hist.found \ hist.gone)

\* The list a browse prints is exactly what the messages it read add up to,
\* whichever of them arrived while call() waited for a reply and in whatever
\* order the daemon sent objects' signals and replies: nothing is lost on the
\* way through pending, no stale Found brings a removed source back, and the
\* last address wins.  (mdns.rs browse(), dbus.rs call() and next(); only a
\* full queue, removal set or source list may fall short of it.)
ListExact ==
    rcv.pc \in {"free", "print"} /\ ~hist.lossy /\ rcv.pending = << >> => rcv.list = Expected

\* The names a dashboard shows from the cache came by the transport the
\* settings now select, and no list survives a change of it (playback.rs
\* sources() and refresh(), app.rs network_post()).  The one exception is a
\* save that was reported as failed after it had replaced settings.xml: the
\* list cached before it is shown until it expires or is dropped.
CacheCurrent == cache # NoList /\ ~unsure => cache = ConfiguredServer

\* A probe does not report nothing while one of the media had come in its
\* share of the time: audio that was whole before the probe's deadline is
\* reported, however silent the video connection was, unless the time went
\* into a video frame that began and was never finished; and so is video that
\* was whole before the video sample gave way to audio's (bin/omt-receiver.rs
\* measure(), sample() and fair_sample_deadline(), channel.rs receive()).
ProbeFair ==
    rcv.pc = "report" /\ probe.got = {} =>
        /\ "audio" \in probe.ready => "video" \in probe.torn
        /\ "video" \in probe.ready => probe.missed

=============================================================================
