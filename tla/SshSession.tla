------------------------------ MODULE SshSession -------------------------------
(***************************************************************************)
(* The deployer's SSH client, crates/omt-deploy/src/ssh/: the transport    *)
(* with its key exchanges (transport.rs, kex.rs, cipher.rs, known_hosts.rs,*)
(* keys.rs), the authentication (auth.rs), and commands and uploads over   *)
(* one channel at a time (channel.rs, sftp.rs, mod.rs).                    *)
(*                                                                         *)
(* The client is one thread; the network is a FIFO stream each way, and a  *)
(* packet carries the key and the sequence number it was sealed with.  The *)
(* server, its processes and the file an upload writes are external: they  *)
(* run on their own time, so that what an operation left behind when it    *)
(* was cancelled or timed out meets the operation after it.  A channel has *)
(* the same number on both sides; a unit of data is a command's output, a  *)
(* request of the SFTP protocol or one chunk of a file.                    *)
(***************************************************************************)
EXTENDS Naturals, Sequences

CONSTANTS
    HostKeys,    \* host keys a server may present
    KnownHosts,  \* the lines of known_hosts: [key, type, match, revoked]
    TypeOf,      \* the type of each host key
    Kinds,       \* the operations: "run", "pty", "upload" and "cleanup"
    Ops,         \* bound: operations of the session
    Chunks,      \* chunks of the file an upload sends
    InFlight,    \* IN_FLIGHT: SFTP writes outstanding
    Window,      \* the channel window of either side, in units
    SeqSpace,    \* sequence numbers before they wrap
    KbdRounds,   \* KBD_ROUNDS
    Rekeys,      \* bound: key exchanges after the first
    Slow         \* bound: waits that run out

ASSUME SshSessionAssumption ==
    /\ {Ops, Chunks, InFlight, Window, SeqSpace, KbdRounds, Rekeys, Slow} \subseteq Nat
    /\ Chunks > 0 /\ InFlight > 0 /\ Window > 0 /\ SeqSpace > 1

VARIABLES
    cl,    \* the client's transport and authentication
    ch,    \* its channel
    op,    \* the operation it is in
    up,    \* packets on their way to the server
    down,  \* packets on their way to the client
    srv,   \* the server: transport, channels and their processes
    file,  \* the file the session's upload writes: the chunk at each place
    hist   \* history: [slow, sent, loose, whole]

sshVars == <<cl, ch, op, up, down, srv, file, hist>>

Places == 1..Chunks
Empty  == [i \in Places |-> 0]
Whole  == [i \in Places |-> i]
Ids    == 1..(2 * Ops)

M(k, c, v) == [k |-> k, c |-> c, v |-> v]

\* Packet protection: PacketCipher::seal() and open() with the sequence number.
Seal(dir) == <<dir.key, dir.seq>>
Moved(dir, n) == [dir EXCEPT !.seq = (@ + n) % SeqSpace]
Sealed(dir, ms) == [i \in DOMAIN ms |-> [m |-> ms[i], seal |-> Seal(Moved(dir, i - 1))]]

Rekeyed_KeepSeq(dir) == [dir EXCEPT !.key = @ + 1]

\* New keys; strict key exchange starts their sequence numbers again.
Rekeyed(dir) == [key |-> dir.key + 1, seq |-> 0]

\* What a server may offer in its KEXINIT: whether it knows strict key
\* exchange, the method choose() finds, and whether a wrong guess follows.
Offers ==
    [strict : {TRUE}, method : {"curve", "gex", "none"}, guess : {FALSE}]
    \cup [strict : BOOLEAN, method : {"curve"}, guess : {TRUE}]

Kexinit(offer) == <<M("kexinit", 0, offer)>> \o (IF offer.guess THEN <<M("guess", 0, 0)>> ELSE <<>>)

NoChannel ==
    [id |-> 0, opened |-> FALSE, failed |-> FALSE, eofIn |-> FALSE, closeIn |-> FALSE,
     closeOut |-> FALSE, reply |-> "none", exit |-> 1, out |-> <<>>, window |-> 0, consumed |-> 0]

NoOp == [n |-> 0, kind |-> "none", via |-> "none", pc |-> "idle", cancel |-> FALSE, src |-> 0,
         next |-> 0, pend |-> {}, flying |-> 0, ok |-> FALSE, res |-> "none"]

\* A channel of the server: "kind" is the process behind it.
NoProcess == [kind |-> "none", pty |-> FALSE, inbox |-> <<>>, eof |-> FALSE, closed |-> FALSE,
              room |-> 0, said |-> 0, code |-> 1]

New == [key |-> 0, seq |-> 0]

Closed ==
    [pc |-> "closed", kex |-> "none", method |-> "none", first |-> FALSE, out |-> New, in |-> New,
     key |-> "none", todo |-> <<>>, rounds |-> 0, next |-> 1]

NewServer == [kex |-> "start", held |-> <<>>, rekeys |-> 0, out |-> New, in |-> New,
              chan |-> [i \in Ids |-> NoProcess]]

SshInit ==
    /\ cl = Closed /\ ch = NoChannel /\ op = NoOp
    /\ up = <<>>
    /\ \E o \in Offers :
         /\ down = Sealed(New, Kexinit(o))
         /\ srv = [NewServer EXCEPT !.out = Moved(New, Len(Kexinit(o)))]
    /\ file = Empty
    /\ hist = [slow |-> 0, sent |-> FALSE, loose |-> FALSE, whole |-> FALSE]
--------------------------------------------------------------------------------
(* The client's transport.                                                 *)

\* send(): packets leave in order, sealed one after the other.
Sends(ms) == up' = up \o Sealed(cl.out, ms)

\* read_packet(): the next packet opens under the current key and number.
Packet == down # <<>> /\ Head(down).seal = Seal(cl.in)
Msg    == Head(down).m

\* The transport after a packet was read and n were sent.
Turn(n) == [cl EXCEPT !.in = Moved(@, 1), !.out = Moved(@, n)]

Reads(k) == Packet /\ Msg.k = k

Taken == down' = Tail(down)

\* The session is over, for an error or because it is dropped, and the
\* server's end goes with it.
Dies ==
    /\ cl' = [Closed EXCEPT !.pc = "dead"] /\ srv' = [NewServer EXCEPT !.rekeys = Rekeys]
    /\ up' = <<>> /\ down' = <<>> /\ op' = NoOp /\ ch' = NoChannel
    /\ UNCHANGED <<file, hist>>

Quiet == UNCHANGED <<srv, file, hist>>

\* A packet of the transport is dealt with; the operation does not notice.
Aside == Taken /\ UNCHANGED <<ch, op>> /\ Quiet

\* send_kexinit(): what the client offers, the same in every exchange.
OurKexinit == <<M("kexinit", 0, 0)>>

\* Transport::open(): known_hosts orders the host-key algorithms, the
\* identification strings are exchanged, and the first key exchange begins.
Open ==
    /\ cl.pc = "closed"
    /\ Sends(OurKexinit)
    /\ cl' = [cl EXCEPT !.pc = "open", !.kex = "init", !.out = Moved(@, 1)]
    /\ UNCHANGED <<ch, op, down>> /\ Quiet

\* known_hosts does not exist, or the server does not speak SSH 2.
OpenRefused == cl.pc = "closed" /\ Dies

\* The client waits for a packet: in a key exchange, in the authentication,
\* or because its channel has nothing for it yet.
Waiting ==
    CASE op.pc = "idle"      -> FALSE
      [] op.pc = "opening"   -> ~ch.opened /\ ~ch.failed
      [] op.pc \in {"pty", "exec", "subsystem"} -> ch.reply = "none" /\ ~ch.closeIn
      [] op.pc = "input"     -> ch.window = 0 /\ ~ch.closeIn
      [] op.pc = "marker"    -> ch.out = <<>> /\ ~ch.closeIn
      [] op.pc \in {"output", "exit", "finish"} -> ~ch.closeIn
      [] op.pc = "writing"   ->
           /\ ~ch.closeIn
           /\ IF op.via = "cat" THEN op.src < Chunks /\ ch.window = 0
              ELSE IF op.src < Chunks /\ op.flying < InFlight THEN ch.window = 0
              ELSE IF op.flying = 0 THEN ch.window = 0
              ELSE ch.out = <<>> /\ ~ch.eofIn
      [] op.pc \in {"fallback", "eof"} -> FALSE
      [] op.pc = "init"      -> ch.window = 0 /\ ~ch.closeIn
      [] op.pc = "version"   -> (ch.out = <<>> \/ ch.window = 0) /\ ~ch.closeIn /\ ~ch.eofIn
      [] op.pc = "abandoning" -> ch.window < 2 /\ ~ch.closeIn
      [] op.pc = "abandon"   -> Len(ch.out) < 2 /\ ~ch.closeIn /\ ~ch.eofIn
      [] OTHER               -> ch.out = <<>> /\ ~ch.closeIn /\ ~ch.eofIn

\* recv(): the places where transport messages are handled.
Receiving == cl.kex = "none" /\ (cl.pc \in {"service", "auth"} \/ Waiting)

\* run_curve25519() and the other methods open with their own message.
Method(offer) == IF offer.method = "gex" THEN M("gexreq", 0, 0) ELSE M("kex30", 0, 0)

\* kex::run() has the server's KEXINIT: the first, or one that asks for new
\* keys in the middle of whatever the client waits for.
ReadKexinit ==
    /\ cl.kex = "init" \/ (cl.first /\ Receiving)
    /\ Reads("kexinit")
    /\ LET mine == IF cl.first THEN OurKexinit ELSE <<>>
           offer == Msg.v
           ms == mine \o (IF offer.guess THEN <<>> ELSE <<Method(offer)>>)
       IN  IF (~cl.first /\ ~offer.strict) \/ offer.method = "none" THEN Dies
           ELSE /\ Sends(ms) /\ Aside
                /\ cl' = [Turn(Len(ms)) EXCEPT
                            !.method = offer.method,
                            !.kex = IF offer.guess THEN "guess"
                                    ELSE IF offer.method = "gex" THEN "group" ELSE "reply"]

\* The packet that follows a wrong guess is thrown away unread.
DropGuess ==
    /\ cl.kex = "guess" /\ Packet
    /\ Sends(<<Method([method |-> cl.method])>>) /\ Aside
    /\ cl' = [Turn(1) EXCEPT !.kex = IF cl.method = "gex" THEN "group" ELSE "reply"]

\* run_dh_gex(): the server's group, if it is acceptable.
ReadGroup ==
    /\ cl.kex = "group" /\ Reads("group")
    /\ IF ~Msg.v THEN Dies
       ELSE /\ Sends(<<M("gexinit", 0, 0)>>) /\ Aside
            /\ cl' = [Turn(1) EXCEPT !.kex = "reply"]

\* known_hosts::parse(): a revoked key is refused whatever else lists it.
Status(k) ==
    IF \E l \in KnownHosts : l.revoked /\ l.key = k THEN "revoked"
    ELSE IF \E l \in KnownHosts : ~l.revoked /\ l.match /\ l.key = k THEN "known"
    ELSE IF \E l \in KnownHosts : ~l.revoked /\ l.match /\ l.type = TypeOf[k] THEN "changed"
    ELSE "unknown"

host_key_trusted_Once(k) == cl.first \/ Status(k) = "known"

\* A later exchange must present the key of the first.
host_key_trusted(k) == IF cl.first THEN k = cl.key ELSE Status(k) = "known"

\* The method's own checks of the server's values: lengths, ranges, the
\* ML-KEM ciphertext, a secret that is not zero.
Agreed(reply) == reply.shares

\* PublicKey::parse() and verify(): a key of the type agreed on, strong
\* enough, has signed the exchange hash.
Signed(reply) == reply.signed

\* The reply is checked in this order; NEWKEYS is the last packet under the
\* old keys.
ReadReply ==
    /\ cl.kex = "reply" /\ Reads("reply")
    /\ IF ~(Agreed(Msg.v) /\ Signed(Msg.v) /\ host_key_trusted(Msg.v.key)) THEN Dies
       ELSE /\ Sends(<<M("newkeys", 0, 0)>>) /\ Aside
            /\ cl' = [Turn(1) EXCEPT !.kex = "newkeys", !.key = Msg.v.key, !.out = Rekeyed(@)]

ReadNewkeys ==
    /\ cl.kex = "newkeys" /\ Reads("newkeys")
    /\ LET after == [Turn(0) EXCEPT !.kex = "none", !.method = "none", !.first = TRUE,
                                    !.in = Rekeyed(@)]
       IN  IF cl.pc = "open"
           THEN /\ Sends(<<M("service", 0, 0)>>)
                /\ cl' = [after EXCEPT !.pc = "service", !.out = Moved(@, 1)]
           ELSE UNCHANGED up /\ cl' = after
    /\ Aside

\* recv() deals with what is nobody's business: a global request, which is
\* refused.  (IGNORE, DEBUG and EXT_INFO only count.)
ReadNoise ==
    /\ Receiving /\ Reads("global")
    /\ Sends(<<M("no", 0, 0)>>) /\ cl' = Turn(1)
    /\ Aside
--------------------------------------------------------------------------------
(* authenticate().                                                         *)

Request(method) == <<M("auth", 0, method)>>

\* The methods tried, in order: a key, or a password that may be empty.
Credentials == {<<"publickey">>, <<"password", "keyboard">>, <<"none", "password", "keyboard">>}

\* PrivateKey::load(): no such file, a format or cipher it does not know, or
\* the wrong passphrase.
KeyUnreadable == Dies

ReadAccept ==
    /\ cl.pc = "service" /\ cl.kex = "none" /\ Reads("accept")
    /\ \/ \E todo \in Credentials :
            /\ Sends(Request(Head(todo))) /\ Aside
            /\ cl' = [Turn(1) EXCEPT !.pc = "auth", !.todo = todo]
       \/ KeyUnreadable

\* A method failed: the next one, or none.
NextMethod ==
    IF Len(cl.todo) = 1 THEN Dies
    ELSE /\ Sends(Request(cl.todo[2])) /\ Aside
         /\ cl' = [Turn(1) EXCEPT !.todo = Tail(@)]

\* A verdict; an expired password asks for a new one, which is a failure, and
\* keyboard-interactive asks for the password, a number of times at most.
ReadVerdict ==
    /\ cl.pc = "auth" /\ cl.kex = "none"
    /\ \/ /\ Reads("success") /\ UNCHANGED up /\ Aside
          /\ cl' = [Turn(0) EXCEPT !.pc = "ready", !.todo = <<>>, !.rounds = 0]
       \/ Reads("failure") /\ NextMethod
       \/ /\ Reads("ask")
          /\ IF Head(cl.todo) = "keyboard" /\ cl.rounds < KbdRounds
             THEN /\ Sends(<<M("info", 0, 0)>>) /\ Aside
                  /\ cl' = [Turn(1) EXCEPT !.rounds = @ + 1]
             ELSE NextMethod
--------------------------------------------------------------------------------
(* Channels.                                                               *)

Half == (Window + 1) \div 2

Dispatched_Any(c, m) ==
    CASE m.k = "conf"    -> [c EXCEPT !.opened = TRUE, !.window = m.v]
      [] m.k = "refused" -> [c EXCEPT !.failed = TRUE]
      [] m.k = "adjust"  -> [c EXCEPT !.window = @ + m.v]
      [] m.k = "data"    -> [c EXCEPT !.out = Append(@, m.v),
                                      !.consumed = IF @ + 1 >= Half THEN 0 ELSE @ + 1]
      [] m.k = "eof"     -> [c EXCEPT !.eofIn = TRUE]
      [] m.k = "close"   -> [c EXCEPT !.closeIn = TRUE, !.closeOut = TRUE]
      [] m.k = "exit"    -> [c EXCEPT !.exit = m.v]
      [] m.k \in {"ok", "no"} -> [c EXCEPT !.reply = m.k]

\* dispatch_payload(), sink(): what a message does to the channel; one for a
\* channel that is gone does nothing.
Dispatched(c, m) == IF m.c # c.id THEN c ELSE Dispatched_Any(c, m)

\* ... and what is sent back: the window, half of it at a time, and a close.
Returned(c, m) ==
    IF m.c # c.id THEN <<>>
    ELSE IF m.k = "data" /\ c.consumed + 1 >= Half
         THEN <<M("adjust", c.id, c.consumed + 1)>>
    ELSE IF m.k = "close" /\ ~c.closeOut THEN <<M("close", c.id, 0)>>
    ELSE <<>>

Channelled == {"conf", "refused", "adjust", "data", "eof", "close", "exit", "ok", "no"}

\* Channel::poll()
Poll ==
    /\ cl.kex = "none" /\ Waiting
    /\ \E k \in Channelled : Reads(k)
    /\ Taken
    /\ Sends(Returned(ch, Msg)) /\ cl' = Turn(Len(Returned(ch, Msg)))
    /\ ch' = Dispatched(ch, Msg)
    /\ UNCHANGED op /\ Quiet

\* The client goes on: at a place of the operation, with nothing to wait for.
At(pc) == cl.pc = "ready" /\ cl.kex = "none" /\ op.pc = pc /\ ~Waiting

\* It sends some messages and moves on.
Goes(ms, next) ==
    /\ Sends(ms) /\ cl' = [cl EXCEPT !.out = Moved(@, Len(ms))]
    /\ op' = next
    /\ UNCHANGED <<down, srv, file>>

Opens == [NoChannel EXCEPT !.id = cl.next]

\* run_inner(), upload() and Channel::open(): a new channel with a number of
\* its own.  After an operation that failed the deployer only cleans up.
Start(kind) ==
    /\ cl.pc = "ready" /\ op.pc = "idle" /\ op.n < Ops
    /\ op.res = "failed" <=> kind = "cleanup"
    /\ kind = "upload" => ~hist.sent
    /\ Sends(<<M("open", cl.next, 0)>>)
    /\ cl' = [cl EXCEPT !.out = Moved(@, 1), !.next = @ + 1]
    /\ ch' = Opens
    /\ op' = [NoOp EXCEPT !.n = op.n + 1, !.kind = kind, !.pc = "opening",
                          !.via = IF kind = "upload" THEN "sftp" ELSE "none"]
    /\ hist' = [hist EXCEPT !.sent = @ \/ kind = "upload"]
    /\ UNCHANGED <<down, srv, file>>

\* The operator cancels; remove_stage() runs without the flag.
Cancel ==
    /\ op.pc # "idle" /\ ~op.cancel /\ op.kind # "cleanup"
    /\ op' = [op EXCEPT !.cancel = TRUE]
    /\ UNCHANGED <<cl, ch, up, down>> /\ Quiet

Done(res) == [NoOp EXCEPT !.n = op.n, !.res = res]

\* An operation that ends drops its channel, whatever state that is in.
Dropped == ch' = IF op'.pc = "idle" THEN NoChannel ELSE ch

\* What follows a failure: an SFTP upload is finished properly, anything else
\* ends at once and forgets its channel.
Lost == IF op.via = "sftp" /\ ch.opened THEN [op EXCEPT !.pc = "eof"]
        ELSE IF op.via = "sftp" THEN [op EXCEPT !.pc = "fallback"]
        ELSE Done("failed")

\* The channel is open: the first request goes out.
Opened ==
    /\ At("opening") /\ ch.opened
    /\ LET pc == IF op.kind = "pty" THEN "pty" ELSE IF op.via = "sftp" THEN "subsystem" ELSE "exec"
       IN  Goes(<<M(pc, ch.id, op.via)>>, [op EXCEPT !.pc = pc])
    /\ UNCHANGED <<ch, hist>>

\* request(): answered, refused or cut off by a close.
Answered ==
    /\ \E pc \in {"pty", "exec", "subsystem"} : At(pc)
    /\ ch' = [ch EXCEPT !.reply = "none"]
    /\ IF ch.reply # "ok" THEN Goes(<<>>, Lost)
       ELSE CASE op.pc = "pty"       -> Goes(<<M("exec", ch.id, op.via)>>, [op EXCEPT !.pc = "exec"])
              [] op.pc = "subsystem" -> Goes(<<>>, [op EXCEPT !.pc = "init"])
              [] OTHER               -> Goes(<<>>, [op EXCEPT !.pc =
                   IF op.via = "cat" THEN "writing" ELSE IF op.kind = "pty" THEN "marker" ELSE "input"])
    /\ UNCHANGED hist

OpenFailed ==
    /\ At("opening") /\ ch.failed
    /\ Goes(<<>>, Lost)
    /\ Dropped /\ UNCHANGED hist

\* write(): one unit within the peer's window.
Unit(v) == <<M("data", ch.id, v)>>
Spent   == [ch EXCEPT !.window = @ - 1]

\* close(), once; and eof(), never after it.
Hang == IF ch.closeOut THEN <<>> ELSE <<M("close", ch.id, 0)>>
Eof == IF ch.closeOut THEN <<>> ELSE <<M("eof", ch.id, 0)>>

\* The marker has appeared, and the input may be sent.
Marked ==
    /\ At("marker") /\ ~op.cancel
    /\ Goes(<<>>, [op EXCEPT !.pc = IF ch.closeIn THEN "output" ELSE "input"])
    /\ UNCHANGED <<ch, hist>>

Input ==
    /\ At("input") /\ ~op.cancel
    /\ IF ch.closeIn THEN Goes(<<>>, Lost) /\ UNCHANGED ch
       ELSE /\ Goes(Unit(0) \o Eof, [op EXCEPT !.pc = "output"])
            /\ ch' = Spent
    /\ UNCHANGED hist

\* The server has closed the channel: the exit status is the verdict, 1 when
\* there was none.
Exited ==
    /\ At("output") \/ At("exit")
    /\ Goes(<<>>, Done(IF ch.exit = 0 THEN "ok" ELSE "failed"))
    /\ hist' = [hist EXCEPT !.whole = @ \/ (op.kind = "upload" /\ ch.exit = 0)]
    /\ Dropped
--------------------------------------------------------------------------------
(* Uploads.                                                                *)

Req(r, id, i) == [r |-> r, id |-> id, i |-> i]

\* reply(): there is one, even if the channel ended after it.
Replied == ch.out # <<>>
Reply   == Head(ch.out)
Taking  == [ch EXCEPT !.out = Tail(@)]

\* status_ok(): the answer to one of the requests, and not a failure.
StatusOk(ids) == Replied /\ Reply.r = "status" /\ Reply.id \in ids /\ Reply.i = 0

\* upload_on(): it starts the protocol ...
SftpInit ==
    /\ At("init") /\ ~op.cancel
    /\ IF ch.closeIn THEN Goes(<<>>, Lost) /\ UNCHANGED ch
       ELSE Goes(Unit(Req("init", 0, 0)), [op EXCEPT !.pc = "version"]) /\ ch' = Spent
    /\ UNCHANGED hist

\* ... opens the file, which empties it ...
SftpOpen ==
    /\ At("version") /\ ~op.cancel
    /\ IF ch.closeIn \/ ~Replied THEN Goes(<<>>, Lost) /\ UNCHANGED ch
       ELSE /\ Goes(Unit(Req("open", op.next, 0)), [op EXCEPT !.pc = "handle", !.next = @ + 1])
            /\ ch' = [Spent EXCEPT !.out = Tail(@)]
    /\ UNCHANGED hist

SftpHandle ==
    /\ At("handle")
    /\ IF Replied /\ Reply = Req("handle", op.next - 1, 0)
       THEN Goes(<<>>, [op EXCEPT !.pc = "writing"]) /\ ch' = Taking
       ELSE Goes(<<>>, Lost) /\ UNCHANGED ch
    /\ UNCHANGED hist

\* ... writes, several requests at a time, each at its own offset ...
SftpWrite ==
    /\ At("writing") /\ op.via = "sftp" /\ ~op.cancel
    /\ op.src < Chunks /\ op.flying < InFlight
    /\ IF ch.closeIn THEN Goes(<<>>, Lost) /\ UNCHANGED ch
       ELSE /\ Goes(Unit(Req("write", op.next, op.src + 1)),
                    [op EXCEPT !.src = @ + 1, !.next = @ + 1, !.flying = @ + 1,
                               !.pend = @ \cup {op.next % InFlight}])
            /\ ch' = Spent
    /\ UNCHANGED hist

\* ... accepts an answer to any of them ...
SftpStatus ==
    /\ At("writing") /\ op.via = "sftp" /\ ~op.cancel
    /\ ~(op.src < Chunks /\ op.flying < InFlight) /\ op.flying > 0
    /\ IF /\ StatusOk({id \in 0..op.next : op.next - id \in 1..InFlight})
          /\ Reply.id % InFlight \in op.pend
       THEN /\ Goes(<<>>, [op EXCEPT !.pend = @ \ {Reply.id % InFlight}, !.flying = @ - 1])
            /\ ch' = Taking
       ELSE Goes(<<>>, Lost) /\ UNCHANGED ch
    /\ UNCHANGED hist

\* ... and closes the file.
SftpClose ==
    /\ At("writing") /\ op.via = "sftp" /\ ~op.cancel
    /\ op.src = Chunks /\ op.flying = 0
    /\ IF ch.closeIn THEN Goes(<<>>, Lost) /\ UNCHANGED ch
       ELSE /\ Goes(Unit(Req("close", op.next, 0)), [op EXCEPT !.pc = "closing", !.next = @ + 1])
            /\ ch' = Spent
    /\ UNCHANGED hist

SftpClosed ==
    /\ At("closing")
    /\ IF StatusOk({op.next - 1})
       THEN Goes(<<>>, [op EXCEPT !.pc = "eof", !.ok = TRUE])
       ELSE Goes(<<>>, Lost)
    /\ UNCHANGED <<ch, hist>>

\* abandon(): the file is closed and removed, and two answers are waited for.
Abandon ==
    /\ At("abandoning")
    /\ IF ch.closeIn THEN Goes(<<>>, Lost) /\ UNCHANGED ch
       ELSE /\ Goes(Unit(Req("close", op.next, 0)) \o Unit(Req("remove", op.next + 1, 0)),
                    [op EXCEPT !.pc = "abandon", !.next = @ + 2])
            /\ ch' = [ch EXCEPT !.window = @ - 2]
    /\ UNCHANGED hist

Abandoned ==
    /\ At("abandon")
    /\ Goes(<<>>, Lost)
    /\ UNCHANGED <<ch, hist>>

\* finish(): the channel is closed, and the server's close waited for.
Finish ==
    /\ At("eof")
    /\ Goes(Eof \o Hang, [op EXCEPT !.pc = "finish"])
    /\ ch' = [ch EXCEPT !.closeOut = TRUE]
    /\ UNCHANGED hist

Concluded == IF op.ok THEN Done("ok") ELSE [op EXCEPT !.pc = "fallback"]

Finished ==
    /\ At("finish")
    /\ Goes(<<>>, Concluded)
    /\ hist' = [hist EXCEPT !.whole = @ \/ op.ok]
    /\ Dropped

Rewound_Kept == op.src

\* Source::rewind()
Rewound == 0

\* Session::upload(): the same bytes again through cat, unless cancelled.
Fallback ==
    /\ At("fallback")
    /\ IF op.cancel THEN Goes(<<>>, Done("failed")) /\ UNCHANGED ch
       ELSE /\ Sends(<<M("open", cl.next, 0)>>)
            /\ cl' = [cl EXCEPT !.out = Moved(@, 1), !.next = @ + 1]
            /\ ch' = Opens
            /\ op' = [op EXCEPT !.pc = "opening", !.via = "cat", !.src = Rewound,
                                !.next = 0, !.pend = {}, !.flying = 0]
            /\ UNCHANGED <<down, srv, file>>
    /\ UNCHANGED hist

\* shell_upload()
CatWrite ==
    /\ At("writing") /\ op.via = "cat" /\ ~op.cancel
    /\ IF op.src = Chunks
       THEN Goes(Eof, [op EXCEPT !.pc = "exit"]) /\ UNCHANGED ch
       ELSE IF ch.closeIn THEN Goes(<<>>, Lost) /\ UNCHANGED ch
       ELSE Goes(Unit(op.src + 1), [op EXCEPT !.src = @ + 1]) /\ ch' = Spent
    /\ UNCHANGED hist
--------------------------------------------------------------------------------
(* Cancellations and waits that run out.                                   *)

\* Where the flag is looked at, what becomes of the channel differs: between
\* packets it is closed; inside a write it is only forgotten; an SFTP upload
\* with a file open abandons it.
CancelSeen ==
    /\ cl.pc = "ready" /\ cl.kex = "none" /\ op.cancel
    /\ \/ /\ op.pc \in {"marker", "output"} \/ (op.pc = "writing" /\ op.via = "cat" /\ ~Waiting)
          /\ Goes(Hang, Lost)
       \/ /\ op.pc \in {"input", "init", "version"}
          /\ Goes(<<>>, Lost)
       \/ /\ op.pc \in {"handle", "closing"} /\ Waiting
          /\ Goes(<<>>, Lost)
       \/ /\ op.pc = "writing" /\ Waiting /\ ch.window = 0
          /\ Goes(<<>>, Lost)
       \/ /\ op.pc = "writing" /\ op.via = "sftp"
          /\ Goes(<<>>, [op EXCEPT !.pc = "abandoning"])
    /\ Dropped /\ UNCHANGED hist

\* A deadline passes while the server is silent.
TimesOut ==
    /\ cl.pc = "ready" /\ cl.kex = "none" /\ Waiting /\ hist.slow < Slow
    /\ IF op.pc \in {"marker", "output", "exit"} THEN Goes(Hang, Lost)
       ELSE Goes(<<>>, IF op.pc = "finish" THEN Concluded ELSE Lost)
    /\ hist' = [hist EXCEPT !.slow = @ + 1, !.loose = @ \/ op.pc = "handle",
                            !.whole = @ \/ (op.pc = "finish" /\ op.ok)]
    /\ Dropped

\* The connection breaks, or Session is dropped.
Break == cl.pc \notin {"closed", "dead"} /\ Dies
--------------------------------------------------------------------------------
(* The server (external).                                                  *)

Serves  == cl.pc # "dead" /\ up # <<>> /\ Head(up).seal = Seal(srv.in)
Asked   == Head(up).m
MaySend == cl.pc # "dead" /\ srv.kex \in {"none", "newkeys"}

FromZero(dir) == [key |-> dir.key + 1, seq |-> 0]

Client == UNCHANGED <<cl, ch, op, hist>>

Says(ms) == down' = down \o Sealed(srv.out, ms)
Said(n)  == [srv EXCEPT !.out = Moved(@, n)]
Heard(n) == [Said(n) EXCEPT !.in = Moved(@, 1)]

ServerKex ==
    /\ Serves /\ up' = Tail(up)
    /\ \/ /\ Asked.k = "kexinit" /\ srv' = Heard(0) /\ UNCHANGED down
       \/ /\ Asked.k = "gexreq" /\ srv' = Heard(1)
          /\ \E good \in BOOLEAN : Says(<<M("group", 0, good)>>)
       \/ /\ Asked.k \in {"kex30", "gexinit"}
          /\ \E key \in HostKeys, shares, signed \in BOOLEAN :
               /\ shares \/ signed
               /\ Says(<<M("reply", 0, [key |-> key, shares |-> shares, signed |-> signed]),
                         M("newkeys", 0, 0)>>)
          /\ srv' = [Heard(2) EXCEPT !.kex = "newkeys", !.out = FromZero(@)]
       \/ /\ Asked.k = "newkeys" /\ UNCHANGED down
          /\ srv' = [Heard(0) EXCEPT !.kex = "none", !.in = FromZero(@)]
    /\ Client /\ UNCHANGED file

Logins == {"service", "auth", "info"}

Judged(m) ==
    \/ m.k = "service" /\ Says(<<M("accept", 0, 0)>>)
    \/ /\ m.k \in {"auth", "info"}
       /\ \E k \in {"success", "failure"} : Says(<<M(k, 0, 0)>>)
    \/ /\ m.k = "info" \/ (m.k = "auth" /\ m.v \in {"password", "keyboard"})
       /\ Says(<<M("ask", 0, 0)>>)

ServerAuth ==
    /\ MaySend
    /\ \/ /\ srv.held # <<>> /\ Judged(Head(srv.held))
          /\ srv' = [Said(1) EXCEPT !.held = Tail(@)] /\ UNCHANGED up
       \/ /\ srv.held = <<>> /\ Serves /\ Judged(Asked)
          /\ srv' = Heard(1) /\ up' = Tail(up)
    /\ Client /\ UNCHANGED file

\* A global request while the client logs in; and at any time after the first
\* exchange, credentials on their way or not, it may ask for new keys.
ServerExtra ==
    /\ srv.kex = "none"
    /\ \/ /\ cl.pc \in {"service", "auth"} /\ down = <<>> /\ Len(up) = 1
          /\ Says(<<M("global", 0, 0)>>) /\ srv' = Said(1)
       \/ /\ cl.pc \in {"service", "auth", "ready"} /\ srv.rekeys < Rekeys
          /\ Says(Kexinit([strict |-> TRUE, method |-> "curve", guess |-> FALSE]))
          /\ srv' = [Said(1) EXCEPT !.rekeys = @ + 1, !.kex = "start"]
    /\ Client /\ UNCHANGED <<up, file>>

Requests == {"open", "pty", "exec", "subsystem", "data", "eof", "close", "adjust", "no"}

\* Until it has sent NEWKEYS it answers nothing else.
ServerHolds ==
    /\ Serves /\ srv.kex = "start" /\ Asked.k \in Requests \cup Logins
    /\ up' = Tail(up) /\ srv' = [Heard(0) EXCEPT !.held = Append(@, Asked)]
    /\ Client /\ UNCHANGED <<down, file>>

Running(m) == CASE m.v = "cat" -> "cat" [] m.k = "subsystem" -> "sftp" [] OTHER -> "cmd"

Gone == [NoProcess EXCEPT !.kind = "dead", !.closed = TRUE]

\* A channel message: what it makes of the channel, what is answered, and
\* what happens to the file.
Handled(s, m) ==
    LET p == s.chan[m.c]
        with(q, ms) == /\ Says(ms)
                       /\ srv' = [s EXCEPT !.chan[m.c] = q, !.out = Moved(@, Len(ms))]
        one(k) == <<M(k, m.c, 0)>>
    IN  \/ /\ m.k = "open" /\ UNCHANGED file
           /\ \/ with([p EXCEPT !.kind = "open", !.room = Window], <<M("conf", m.c, Window)>>)
              \/ with(p, one("refused"))
        \/ /\ m.k = "pty" /\ UNCHANGED file
           /\ \/ with([p EXCEPT !.pty = TRUE], one("ok"))
              \/ with(p, one("no"))
        \/ /\ m.k \in {"exec", "subsystem"}
           /\ \/ /\ with([p EXCEPT !.kind = Running(m)], one("ok"))
                 /\ file' = IF m.v = "cat" THEN Empty ELSE file
              \/ with(p, one("no")) /\ UNCHANGED file
        \/ /\ m.k = "data" /\ UNCHANGED file
           /\ IF p.kind = "cmd" THEN with(p, <<M("adjust", m.c, 1)>>)
              ELSE with([p EXCEPT !.inbox = Append(@, m.v)], <<>>)
        \/ m.k = "eof" /\ with([p EXCEPT !.eof = TRUE], <<>>) /\ UNCHANGED file
        \/ m.k = "adjust" /\ with([p EXCEPT !.room = @ + m.v], <<>>) /\ UNCHANGED file
        \/ m.k = "no" /\ UNCHANGED file /\ srv' = s /\ UNCHANGED down
        \/ /\ m.k = "close" /\ UNCHANGED file
           /\ with(IF p.kind \in {"sftp", "cat"} THEN [p EXCEPT !.eof = TRUE, !.closed = TRUE]
                   ELSE [Gone EXCEPT !.code = p.code],
                   IF p.closed THEN <<>> ELSE one("close"))

ServerHandles ==
    /\ MaySend
    /\ \/ /\ srv.held # <<>>
          /\ Handled([srv EXCEPT !.held = Tail(@)], Head(srv.held)) /\ UNCHANGED up
       \/ /\ srv.held = <<>> /\ Serves /\ Asked.k \in Requests
          /\ Handled(Heard(0), Asked) /\ up' = Tail(up)
    /\ Client

\* Says of a channel's process; nothing leaves a closed channel.
Speaks(c, q, ms) ==
    LET sent == IF q.closed THEN <<>> ELSE ms
    IN  Says(sent) /\ srv' = [srv EXCEPT !.chan[c] = q, !.out = Moved(@, Len(sent))]

\* A command's output is two units, the second after its input.
CommandSays(c) ==
    LET p == srv.chan[c]
    IN  /\ MaySend /\ p.kind = "cmd" /\ p.room > 0
        /\ p.said = 0 \/ (p.said = 1 /\ p.eof)
        /\ Speaks(c, [p EXCEPT !.room = @ - 1, !.said = @ + 1], <<M("data", c, c)>>)
        /\ Client /\ UNCHANGED <<up, file>>

\* A process ends at the end of its input: a command when it has said all.
ProcessEnds(c) ==
    LET p == srv.chan[c]
    IN  /\ MaySend /\ p.kind \in {"cmd", "sftp", "cat"} /\ p.eof /\ p.inbox = <<>>
        /\ p.kind = "cmd" => p.said = 2
        /\ \E code \in {0} \cup (IF p.kind = "cmd" THEN {1} ELSE {}) :
             /\ Says(IF p.closed THEN <<>> ELSE <<M("exit", c, code), M("eof", c, 0), M("close", c, 0)>>)
             /\ srv' = [srv EXCEPT !.chan[c] = [Gone EXCEPT !.code = code],
                                   !.out = Moved(@, IF p.closed THEN 0 ELSE 3)]
        /\ Client /\ UNCHANGED <<up, file>>

\* sftp-server takes its requests one after the other; the last
\* write may find the disk full.
SftpServes(c, code) ==
    LET p == srv.chan[c]
        r == Head(p.inbox)
    IN  /\ MaySend /\ p.kind = "sftp" /\ p.inbox # <<>> /\ (p.closed \/ p.room > 0)
        /\ code = 0 \/ (r.r = "write" /\ r.i = Chunks)
        /\ file' = CASE r.r \in {"open", "remove"} -> Empty
                     [] r.r = "write" /\ code = 0 -> [file EXCEPT ![r.i] = r.i]
                     [] OTHER -> file
        /\ Speaks(c, [p EXCEPT !.inbox = Tail(@), !.room = IF p.closed THEN @ ELSE @ - 1],
                  <<M("adjust", c, 1),
                    M("data", c, Req(CASE r.r = "init" -> "version" [] r.r = "open" -> "handle"
                                       [] OTHER -> "status", r.id, code))>>)
        /\ Client /\ UNCHANGED up

\* cat writes its input.
CatServes(c) ==
    LET p == srv.chan[c]
    IN  /\ MaySend /\ p.kind = "cat" /\ p.inbox # <<>>
        /\ file' = [file EXCEPT ![p.said + 1] = Head(p.inbox)]
        /\ Speaks(c, [p EXCEPT !.inbox = Tail(@), !.said = @ + 1], <<M("adjust", c, 1)>>)
        /\ Client /\ UNCHANGED up

Server ==
    \/ ServerKex \/ ServerAuth \/ ServerExtra \/ ServerHolds \/ ServerHandles
    \/ \E c \in Ids : CommandSays(c) \/ ProcessEnds(c) \/ CatServes(c) \/ (\E code \in {0, 1} : SftpServes(c, code))

Transport ==
    \/ Open \/ OpenRefused \/ ReadKexinit \/ DropGuess \/ ReadGroup \/ ReadReply \/ ReadNewkeys
    \/ ReadNoise \/ ReadAccept \/ ReadVerdict \/ Break

Channel ==
    \/ Poll \/ Cancel \/ CancelSeen \/ TimesOut
    \/ \E k \in Kinds : Start(k)
    \/ Opened \/ OpenFailed \/ Answered \/ Marked \/ Input \/ Exited
    \/ SftpInit \/ SftpOpen \/ SftpHandle \/ SftpWrite \/ SftpStatus \/ SftpClose \/ SftpClosed
    \/ Abandon \/ Abandoned \/ Finish \/ Finished \/ Fallback \/ CatWrite

SshNext == Transport \/ Channel \/ Server

SshSpec == SshInit /\ [][SshNext]_sshVars
--------------------------------------------------------------------------------
(* Properties.                                                             *)

\* Both ends stay in step: the next packet of either stream opens under the
\* receiver's key and sequence number, also when new keys are agreed on while
\* packets are on their way.
InStep ==
    cl.pc # "dead" =>
        /\ down # <<>> => Head(down).seal = Seal(cl.in)
        /\ up # <<>> => Head(up).seal = Seal(srv.in)

\* What authenticates the operator is only ever sent under keys agreed on with
\* the holder of a host key known_hosts lists for this host and does not
\* revoke; and new keys, which a server may ask for while credentials are on
\* their way, are never agreed on with the holder of another key.
SecretsGuarded ==
    [][/\ \A i \in DOMAIN up' : up'[i].m.k \in {"auth", "info"} =>
            /\ up'[i].seal[1] > 0
            /\ \E l \in KnownHosts : l.key = cl'.key /\ l.match /\ ~l.revoked
            /\ ~\E l \in KnownHosts : l.key = cl'.key /\ l.revoked
       /\ cl.first /\ cl'.first => cl'.key = cl.key]_sshVars

\* A command that is reported to have succeeded did so itself, and the output
\* reported is its own and all of it, whatever the operations before it left
\* on the session.
ResultHonest ==
    [][(op'.res = "ok" /\ op.res # "ok" /\ op.kind # "upload") =>
         srv.chan[ch.id].code = 0 /\ ch.out = <<ch.id, ch.id>>]_sshVars

\* After an upload that is reported complete the file is the source, and stays
\* so, even if an SFTP attempt was given up before and its requests are served
\* late; unless what was given up waiting for was the opening of the file.
UploadWhole == (hist.whole /\ ~hist.loose) => file = Whole
================================================================================
