--------------------------- MODULE HostRequestsProofs --------------------------
(***************************************************************************)
(* What the host does with reboot and diagnostics requests, for every      *)
(* number of requests and failures, every patience of the web server and   *)
(* every cooldown longer than the age at which a request is stale.         *)
(***************************************************************************)
EXTENDS HostRequests, TLAPS

Records  == [id : 0..Requests, age : 0..Cooldown, asked : BOOLEAN]
Metas    == [id : Nat, pcap : Nat]
WebPCs   == {"idle", "write", "wait", "capture", "pcap", "pack"}
ActPCs   == {"none", "read", "check", "evaluate", "clear rejected", "clear accepted",
             "publish", "sleep", "collect", "meta", "report"}
Statuses == {"none", "accepted", "rejected"}

WebTypes ==
    web \in [pc : WebPCs, kind : Kinds, id : 0..Requests, asked : BOOLEAN,
             left : Nat, report : Nat, meta : Metas, pcap : Nat]

FileTypes == file \in [Kinds -> Records]

ActTypes == act \in [Kinds -> [pc : ActPCs, req : Records, orphan : BOOLEAN]]

AnswerTypes ==
    /\ sent \in 0..Requests
    /\ told \in [Ids -> Statuses \cup {"nothing"}]
    /\ last \in [id : 0..Requests, age : 0..Cooldown]
    /\ result \in [id : 0..Requests, status : Statuses]
    /\ booted \subseteq Ids /\ lastBoot \in 0..Cooldown /\ cut \in BOOLEAN

BundleTypes == pcap \in Nat /\ meta \in Metas /\ report \in Nat /\ runs \in Nat

TypeInv == WebTypes /\ FileTypes /\ ActTypes /\ AnswerTypes /\ BundleTypes

\* No id is known to anyone before the web server has made the request, and
\* the request it is about to write is younger than every other.
Before(n) ==
    /\ \A k \in Kinds : file[k].id < n /\ act[k].req.id < n
    /\ last.id < n /\ result.id < n
    /\ \A i \in Ids : told[i] # "nothing" => i < n

FreshInv ==
    /\ Before(sent + 1)
    /\ web.pc # "idle" => web.id = sent /\ web.id > 0
    /\ web.pc = "write" => Before(web.id)

\* The state of the reboot action: an idle one holds no request, one that
\* evaluates holds one, and one that has accepted it has recorded it, and
\* emptied the file before it publishes.
ActInv ==
    /\ Reboot.pc \in {"none", "read"} => Reboot.req.id = 0
    /\ Reboot.pc \in {"evaluate", "clear rejected"} => Reboot.req.id # 0
    /\ Reboot.pc \in {"clear accepted", "publish", "sleep"} =>
          Reboot.req.id = last.id /\ last.id # 0
    /\ Reboot.pc \in {"publish", "sleep"} => file["reboot"].id # last.id

\* The host remembers its latest acceptance: whatever was asked before it is
\* at least as old as it is, and every reboot was accepted no later.
AgeInv ==
    /\ file["reboot"].id # 0 /\ file["reboot"].id <= last.id => file["reboot"].age >= last.age
    /\ Reboot.req.id # 0 /\ Reboot.req.id <= last.id => Reboot.req.age >= last.age
    /\ \A i \in booted : i <= last.id
    /\ lastBoot >= last.age

\* What was answered is recorded, and a request that has rebooted the host is
\* nowhere to be read again.
AnswerInv ==
    /\ result.status = "accepted" => result.id <= last.id
    /\ \A i \in Ids : told[i] = "accepted" => i <= last.id
    /\ file["reboot"].id \notin booted /\ Reboot.req.id \notin booted

\* A rejected request has not rebooted the host; while the power lasts, its
\* record is in the file, or with the action, only until the action has emptied
\* the file.
Rejected(i) == told[i] = "rejected" \/ result = [id |-> i, status |-> "rejected"]

RejectInv ==
    ~cut => \A i \in Ids : Rejected(i) =>
       /\ i \notin booted
       /\ Reboot.req.id = i \/ file["reboot"].id = i =>
             Reboot.pc = "clear rejected" /\ Reboot.req.id = i

\* The bundle being put together: nothing but answers that name the request.
BundleInv ==
    /\ web.report \in {0, web.id}
    /\ web.pc # "pack" => web.pcap = 0
    /\ web.pc = "pcap" => web.asked /\ web.meta.id = web.id
    /\ web.pcap # 0 => web.asked /\ web.meta = [id |-> web.id, pcap |-> web.pcap]

IInv == TypeInv /\ FreshInv /\ ActInv /\ AgeInv /\ AnswerInv /\ RejectInv /\ BundleInv
--------------------------------------------------------------------------------
(* What the fields are, without the records they are fields of.            *)

LEMMA Scalars ==
    ASSUME TypeInv
    PROVE  /\ \A k \in Kinds : /\ file[k].id \in 0..Requests /\ file[k].age \in 0..Cooldown
                               /\ act[k].req.id \in 0..Requests
                               /\ act[k].req.age \in 0..Cooldown
           /\ web.id \in 0..Requests /\ sent \in 0..Requests
           /\ last.id \in 0..Requests /\ last.age \in 0..Cooldown
           /\ result.id \in 0..Requests
           /\ "reboot" \in Kinds /\ "diagnostics" \in Kinds
           /\ 0 \notin booted /\ booted \subseteq Ids /\ lastBoot \in 0..Cooldown
           /\ \A i \in Ids : i \in Nat /\ i > 0 /\ i <= Requests
  <1>1. "reboot" \in Kinds /\ "diagnostics" \in Kinds
    BY DEF Kinds
  <1>2. \A k \in Kinds : /\ file[k].id \in 0..Requests /\ file[k].age \in 0..Cooldown
    BY DEF TypeInv, FileTypes, Records
  <1>3. \A k \in Kinds : /\ act[k].req.id \in 0..Requests /\ act[k].req.age \in 0..Cooldown
    BY DEF TypeInv, ActTypes, Records
  <1>4. web.id \in 0..Requests
    BY DEF TypeInv, WebTypes
  <1>5. \A i \in Ids : i \in Nat /\ i > 0 /\ i <= Requests
    BY HostRequestsAssumption DEF Ids
  <1> QED  BY <1>1, <1>2, <1>3, <1>4, <1>5 DEF TypeInv, AnswerTypes

\* A write to one field of an action, or of all of it, leaves the other alone.
LEMMA ActPC ==
    ASSUME TypeInv, NEW k \in Kinds, NEW p \in ActPCs, act' = [act EXCEPT ![k].pc = p]
    PROVE  /\ ActTypes' /\ act'[k].pc = p /\ act'[k].req = act[k].req
           /\ \A j \in Kinds : j # k => act'[j] = act[j]
  BY DEF TypeInv, ActTypes

LEMMA NothingTypes == Nothing \in Records /\ Nothing.id = 0 /\ Nothing.age = 0
  BY HostRequestsAssumption DEF Nothing, Records

LEMMA RestingTypes ==
    /\ Resting \in [pc : ActPCs, req : Records, orphan : BOOLEAN]
    /\ Resting.pc = "none" /\ Resting.req.id = 0 /\ Resting.req.age = 0
  BY NothingTypes DEF Resting, ActPCs

LEMMA ActExits ==
    ASSUME TypeInv, NEW k \in Kinds, Exits(k)
    PROVE  /\ ActTypes' /\ act'[k].pc = "none" /\ act'[k].req.id = 0 /\ act'[k].req.age = 0
           /\ \A j \in Kinds : j # k => act'[j] = act[j]
  BY RestingTypes DEF TypeInv, ActTypes, Exits

LEMMA FileSet ==
    ASSUME TypeInv, NEW k \in Kinds, NEW r \in Records, file' = [file EXCEPT ![k] = r]
    PROVE  /\ FileTypes' /\ file'[k] = r
           /\ \A j \in Kinds : j # k => file'[j] = file[j]
  BY DEF TypeInv, FileTypes

LEMMA ReadyTypes ==
    /\ Ready \in [pc : WebPCs, kind : Kinds, id : 0..Requests, asked : BOOLEAN,
                  left : Nat, report : Nat, meta : Metas, pcap : Nat]
    /\ Ready.pc = "idle" /\ Ready.id = 0 /\ Ready.report = 0 /\ Ready.pcap = 0
  BY HostRequestsAssumption DEF Ready, WebPCs, Kinds, Metas

LEMMA RunsTypes ==
    ASSUME TypeInv, NEW k \in Kinds, Runs(k) \/ UNCHANGED act
    PROVE  /\ ActTypes'
           /\ \A j \in Kinds : /\ act'[j].req = act[j].req
                               /\ \/ act'[j].pc = act[j].pc
                                  \/ act[j].pc = "none" /\ act'[j].pc = "read"
  <1>1. CASE act' = [act EXCEPT ![k].pc = "read"] /\ act[k].pc = "none"
    <2>1. "read" \in ActPCs
      BY DEF ActPCs
    <2> QED  BY <1>1, <2>1, ActPC
  <1>2. CASE act' = act
    BY <1>2 DEF TypeInv, ActTypes
  <1> QED  BY <1>1, <1>2 DEF Runs
--------------------------------------------------------------------------------
(* Steps that leave most of the state alone.                               *)

\* The web server goes on with its request, or is done with it.
LEMMA WebOnly ==
    ASSUME IInv, WebTypes', BundleInv',
           UNCHANGED <<sent, told, file, act, reboots, bundle, booted, lastBoot, cut>>,
           \/ web'.pc = "idle"
           \/ web.pc # "idle" /\ web'.pc # "write" /\ web'.id = web.id
    PROVE  IInv'
  <1>1. TypeInv'
    BY DEF IInv, TypeInv, FileTypes, ActTypes, AnswerTypes, BundleTypes, reboots, bundle
  <1>2. FreshInv'
    BY DEF IInv, FreshInv, Before, reboots
  <1>3. ActInv' /\ AgeInv' /\ AnswerInv'
    BY DEF IInv, ActInv, AgeInv, AnswerInv, Reboot, reboots
  <1>4. RejectInv'
    BY DEF IInv, RejectInv, Rejected, Reboot, reboots
  <1> QED  BY <1>1, <1>2, <1>3, <1>4 DEF IInv

\* An action process is started or left alone.
LEMMA StartOnly ==
    ASSUME IInv, ActTypes',
           UNCHANGED <<web, sent, told, file, reboots, bundle, booted, lastBoot, cut>>,
           \A j \in Kinds : /\ act'[j].req = act[j].req
                            /\ \/ act'[j].pc = act[j].pc
                               \/ act[j].pc = "none" /\ act'[j].pc = "read"
    PROVE  IInv'
  <1>1. TypeInv'
    BY DEF IInv, TypeInv, WebTypes, FileTypes, AnswerTypes, BundleTypes, reboots, bundle
  <1>2. FreshInv'
    BY DEF IInv, FreshInv, Before, reboots
  <1>3. /\ Reboot'.req = Reboot.req
        /\ \/ Reboot'.pc = Reboot.pc
           \/ Reboot.pc = "none" /\ Reboot'.pc = "read"
    <2>1. "reboot" \in Kinds
      BY DEF Kinds
    <2> QED  BY <2>1 DEF Reboot
  <1>4. ActInv'
    BY <1>3 DEF IInv, ActInv, reboots
  <1>5. AgeInv' /\ AnswerInv'
    BY <1>3 DEF IInv, AgeInv, AnswerInv, reboots
  <1>6. RejectInv'
    BY <1>3 DEF IInv, RejectInv, Rejected, reboots
  <1>7. BundleInv'
    BY DEF IInv, BundleInv
  <1> QED  BY <1>1, <1>2, <1>4, <1>5, <1>6, <1>7 DEF IInv

\* The diagnostics action goes on with its request, or drops it.
LEMMA DiagnosticsOnly ==
    ASSUME IInv, ActTypes', BundleTypes',
           UNCHANGED <<web, sent, told, file, reboots, booted, lastBoot, cut>>,
           act'["reboot"] = act["reboot"],
           act'["diagnostics"].req.id \in {0, act["diagnostics"].req.id, file["diagnostics"].id}
    PROVE  IInv'
  <1>1. TypeInv'
    BY DEF IInv, TypeInv, WebTypes, FileTypes, AnswerTypes, reboots
  <1>2. FreshInv'
    <2>1. \A n : n \in Nat /\ n > 0 /\ Before(n) => Before(n)'
      BY Scalars DEF IInv, Before, reboots, Kinds
    <2>2. web.pc = "write" => web.id \in Nat /\ web.id > 0
      BY Scalars DEF IInv, FreshInv
    <2>3. sent + 1 \in Nat /\ sent + 1 > 0
      BY Scalars DEF IInv
    <2>4. Before(sent + 1)'
      BY <2>1, <2>3 DEF IInv, FreshInv
    <2> QED  BY <2>1, <2>2, <2>4 DEF IInv, FreshInv
  <1>3. ActInv' /\ AgeInv' /\ AnswerInv'
    BY DEF IInv, ActInv, AgeInv, AnswerInv, Reboot, reboots
  <1>4. RejectInv'
    BY DEF IInv, RejectInv, Rejected, Reboot, reboots
  <1>5. BundleInv'
    BY DEF IInv, BundleInv
  <1> QED  BY <1>1, <1>2, <1>3, <1>4, <1>5 DEF IInv
--------------------------------------------------------------------------------
(* The web server.                                                         *)

LEMMA WriteKeeps ==
    ASSUME IInv, Write
    PROVE  IInv'
  <1> DEFINE r == [id |-> web.id, age |-> 0, asked |-> web.asked]
             k == web.kind
  <1>1. /\ k \in Kinds /\ r \in Records /\ r.id = web.id /\ r.age = 0
        /\ file' = [file EXCEPT ![k] = r]
        /\ web.pc = "write"
        /\ UNCHANGED <<sent, told, act, last, result, booted, lastBoot, cut>>
    BY HostRequestsAssumption
    DEF IInv, TypeInv, WebTypes, Write, Records, channel, bundle, reboots, history
  <1>2. /\ WebTypes' /\ web'.pc = "wait" /\ web'.id = web.id /\ web'.report = web.report
        /\ web'.pcap = web.pcap
    BY DEF IInv, TypeInv, WebTypes, Write, WebPCs
  <1> HIDE DEF r, k
  <1>3. /\ FileTypes' /\ file'[k] = r
        /\ \A j \in Kinds : j # k => file'[j] = file[j]
    BY <1>1, FileSet DEF IInv
  <1>4. TypeInv'
    BY <1>1, <1>2, <1>3
    DEF IInv, TypeInv, ActTypes, AnswerTypes, BundleTypes, Write, bundle
  <1>5. /\ web.id = sent /\ Before(web.id)
    BY <1>1 DEF IInv, FreshInv
  <1>6. FreshInv'
    BY <1>1, <1>2, <1>3, <1>5, Scalars DEF IInv, FreshInv, Before
  <1>7. \/ file'["reboot"] = file["reboot"]
        \/ file'["reboot"].id = web.id /\ file'["reboot"].age = 0
    BY <1>1, <1>3, Scalars DEF IInv
  <1>8. /\ last.id < web.id /\ Reboot.req.id < web.id /\ web.id > 0 /\ web.id \in Nat
        /\ last.id # web.id /\ Reboot.req.id # web.id
        /\ \A i \in Ids : Rejected(i) => i < web.id
    BY <1>1, <1>5, Scalars DEF IInv, FreshInv, Before, Rejected, Reboot
  <1>u. UNCHANGED <<sent, told, act, last, result, booted, lastBoot, cut>>
    BY <1>1
  <1>9. ActInv'
    BY <1>u, <1>7, <1>8 DEF IInv, ActInv, Reboot
  <1>10. AgeInv'
    BY <1>1, <1>7, <1>8, Scalars DEF IInv, AgeInv, Reboot
  <1>11. AnswerInv'
    BY <1>1, <1>7, <1>8, Scalars DEF IInv, AnswerInv, AgeInv, Reboot
  <1>12. RejectInv'
    <2> SUFFICES ASSUME ~cut, NEW i \in Ids, Rejected(i)
                 PROVE  /\ i \notin booted
                        /\ Reboot.req.id = i \/ file'["reboot"].id = i =>
                              Reboot.pc = "clear rejected" /\ Reboot.req.id = i
      BY <1>u DEF RejectInv, Rejected, Reboot
    <2>1. i # web.id
      BY <1>8, Scalars DEF IInv
    <2> QED  BY <1>u, <1>7, <2>1 DEF IInv, RejectInv, Reboot
  <1>13. BundleInv'
    BY <1>1, <1>2 DEF IInv, BundleInv
  <1> QED  BY <1>4, <1>6, <1>9, <1>10, <1>11, <1>12, <1>13 DEF IInv

LEMMA SubmitKeeps ==
    ASSUME IInv, NEW k \in Kinds, NEW asked \in BOOLEAN, Submit(k, asked)
    PROVE  IInv'
  <1>1. /\ web.pc = "idle" /\ sent < Requests /\ sent' = sent + 1
        /\ file' = [file EXCEPT ![k] = Nothing]
        /\ UNCHANGED <<told, act, last, result, pcap, meta, report, runs, booted, lastBoot, cut>>
    BY DEF Submit, reboots, bundle, history
  <1>2. sent' \in 0..Requests /\ sent \in Nat /\ Requests \in Nat
    BY <1>1, Scalars, HostRequestsAssumption DEF IInv
  <1>3. /\ WebTypes' /\ web'.pc = "write" /\ web'.id = sent + 1 /\ web'.report = 0 /\ web'.pcap = 0
    BY <1>1, <1>2, ReadyTypes, HostRequestsAssumption DEF Submit, WebTypes, WebPCs
  <1>4. /\ FileTypes' /\ file'[k].id = 0
        /\ \A j \in Kinds : j # k => file'[j] = file[j]
    BY <1>1, FileSet, NothingTypes DEF IInv
  <1>5. TypeInv'
    BY <1>1, <1>2, <1>3, <1>4 DEF IInv, TypeInv, ActTypes, AnswerTypes, BundleTypes
  <1>6. \A n \in Nat : n > sent => Before(n)'
    <2>1. Before(sent + 1)
      BY DEF IInv, FreshInv
    <2>2. \A j \in Kinds : file'[j].id = 0 \/ file'[j].id = file[j].id
      BY <1>4
    <2> QED  BY <1>1, <1>2, <2>1, <2>2, Scalars DEF IInv, Before
  <1>7. FreshInv'
    BY <1>1, <1>2, <1>3, <1>6 DEF FreshInv
  <1>8. /\ file'["reboot"].id = 0 \/ file'["reboot"] = file["reboot"]
        /\ 0 \notin booted /\ last.id \in Nat
    BY <1>4, Scalars DEF IInv
  <1>9. ActInv'
    BY <1>1, <1>8 DEF IInv, ActInv, Reboot
  <1>10. AgeInv' /\ AnswerInv'
    BY <1>1, <1>8 DEF IInv, AgeInv, AnswerInv, Reboot
  <1>11. RejectInv'
    <2>1. \A i \in Ids : (Rejected(i)' => Rejected(i)) /\ i # 0
      BY <1>1, Scalars DEF IInv, Rejected
    <2> QED  BY <1>1, <1>8, <2>1 DEF IInv, RejectInv, Reboot
  <1>12. BundleInv'
    BY <1>3 DEF BundleInv
  <1> QED  BY <1>5, <1>7, <1>9, <1>10, <1>11, <1>12 DEF IInv

LEMMA WriteFailsKeeps ==
    ASSUME IInv, WriteFails
    PROVE  IInv'
  <1>1. WebTypes' /\ web'.pc \in {"idle", "capture"} /\ web'.id = web.id /\ web'.report = web.report
        /\ web'.pcap = web.pcap
    BY DEF WriteFails, IInv, TypeInv, WebTypes, WebPCs
  <1>2. BundleInv'
    BY <1>1 DEF WriteFails, IInv, BundleInv
  <1> QED  BY <1>1, <1>2, WebOnly DEF WriteFails, history

LEMMA ReportSeenKeeps ==
    ASSUME IInv, ReportSeen
    PROVE  IInv'
  <1>1. /\ WebTypes' /\ web'.pc = "capture" /\ web'.id = web.id /\ web'.report = web.id
        /\ web'.pcap = web.pcap /\ web.pc = "wait"
    BY DEF ReportSeen, Matches, IInv, TypeInv, WebTypes, WebPCs, BundleTypes
  <1>2. BundleInv'
    BY <1>1 DEF IInv, BundleInv
  <1> QED  BY <1>1, <1>2, WebOnly DEF ReportSeen, history, channel

\* The web server is ready for its next request.
LEMMA ReadyKeeps ==
    ASSUME IInv, web' = Ready,
           UNCHANGED <<sent, told, file, act, reboots, bundle, booted, lastBoot, cut>>
    PROVE  IInv'
  <1>1. WebTypes' /\ web'.pc = "idle" /\ BundleInv'
    BY ReadyTypes DEF WebTypes, BundleInv
  <1> QED  BY <1>1, WebOnly

LEMMA GivesUpKeeps ==
    ASSUME IInv, GivesUp
    PROVE  IInv'
  <1>1. CASE web' = Ready
    BY <1>1, ReadyKeeps DEF GivesUp, history, channel
  <1>2. CASE web' = [web EXCEPT !.pc = "capture"]
    <2>1. /\ WebTypes' /\ web'.pc = "capture" /\ web'.id = web.id /\ web'.report = web.report
          /\ web'.pcap = web.pcap /\ web.pc = "wait"
      BY <1>2 DEF GivesUp, IInv, TypeInv, WebTypes, WebPCs
    <2>2. BundleInv'
      BY <2>1 DEF IInv, BundleInv
    <2> QED  BY <2>1, <2>2, WebOnly DEF GivesUp, history, channel
  <1> QED  BY <1>1, <1>2 DEF GivesUp

LEMMA ReadMetaKeeps ==
    ASSUME IInv, ReadMeta
    PROVE  IInv'
  <1>1. CASE web' = [web EXCEPT !.pc = "pack"]
    <2>1. /\ WebTypes' /\ web'.pc = "pack" /\ web'.id = web.id /\ web'.report = web.report
          /\ web'.pcap = web.pcap /\ web.pc = "capture"
      BY <1>1 DEF ReadMeta, IInv, TypeInv, WebTypes, WebPCs
    <2>2. BundleInv'
      BY <2>1 DEF IInv, BundleInv
    <2> QED  BY <2>1, <2>2, WebOnly DEF ReadMeta, history, channel
  <1>2. CASE web.asked /\ Matches(meta.id) /\ web' = [web EXCEPT !.pc = "pcap", !.meta = meta]
    <2>1. /\ WebTypes' /\ web'.pc = "pcap" /\ web'.id = web.id /\ web'.report = web.report
          /\ web'.pcap = web.pcap /\ web.pc = "capture" /\ web'.asked /\ web'.meta.id = web.id
      BY <1>2 DEF ReadMeta, IInv, TypeInv, WebTypes, WebPCs, BundleTypes, Matches
    <2>2. BundleInv'
      BY <2>1 DEF IInv, BundleInv
    <2> QED  BY <2>1, <2>2, WebOnly DEF ReadMeta, history, channel
  <1> QED  BY <1>1, <1>2 DEF ReadMeta

LEMMA ReadPcapKeeps ==
    ASSUME IInv, ReadPcap
    PROVE  IInv'
  <1>1. CASE web' = Ready
    BY <1>1, ReadyKeeps DEF ReadPcap, history, channel
  <1>2. CASE pcap = web.meta.pcap /\ web' = [web EXCEPT !.pc = "pack", !.pcap = pcap]
    <2>1. /\ WebTypes' /\ web'.pc = "pack" /\ web'.id = web.id /\ web'.report = web.report
          /\ web.pc = "pcap" /\ web'.pcap = pcap /\ web'.meta = web.meta /\ web'.asked = web.asked
      BY ZenonT(40), <1>2 DEF ReadPcap, IInv, TypeInv, WebTypes, WebPCs, BundleTypes
    <2>2. web.asked /\ web.meta = [id |-> web.id, pcap |-> pcap]
      BY <1>2, <2>1 DEF IInv, TypeInv, WebTypes, Metas, BundleInv
    <2>3. BundleInv'
      BY <2>1, <2>2 DEF IInv, BundleInv
    <2> QED  BY <2>1, <2>3, WebOnly DEF ReadPcap, history, channel
  <1> QED  BY <1>1, <1>2 DEF ReadPcap

LEMMA AcknowledgedKeeps ==
    ASSUME IInv, Acknowledged
    PROVE  IInv'
  <1>1. /\ web.pc = "wait" /\ result.id = web.id
        /\ told' = [told EXCEPT ![web.id] = result.status]
        /\ web' = Ready
        /\ UNCHANGED <<sent, file, act, last, result, pcap, meta, report, runs, booted, lastBoot, cut>>
    BY DEF Acknowledged, Matches, channel, bundle, reboots, history
  <1>2. web.id = sent /\ web.id \in Ids
    BY <1>1, Scalars DEF IInv, FreshInv, Ids
  <1>3. /\ told' \in [Ids -> Statuses \cup {"nothing"}]
        /\ told'[web.id] = result.status
        /\ \A i \in Ids : i # web.id => told'[i] = told[i]
    BY <1>1, <1>2 DEF IInv, TypeInv, AnswerTypes
  <1>4. WebTypes' /\ web'.pc = "idle" /\ BundleInv'
    BY <1>1, ReadyTypes DEF WebTypes, BundleInv
  <1>5. TypeInv'
    BY <1>1, <1>3, <1>4 DEF IInv, TypeInv, FileTypes, ActTypes, AnswerTypes, BundleTypes
  <1>6. FreshInv'
    BY <1>1, <1>2, <1>3, <1>4, Scalars DEF IInv, FreshInv, Before
  <1>7. ActInv' /\ AgeInv'
    BY <1>1 DEF IInv, ActInv, AgeInv, Reboot
  <1>8. AnswerInv'
    BY <1>1, <1>2, <1>3 DEF IInv, AnswerInv, Reboot
  <1>9. \A i \in Ids : Rejected(i)' => Rejected(i)
    BY <1>1, <1>2, <1>3 DEF IInv, TypeInv, AnswerTypes, Rejected
  <1>10. RejectInv'
    BY <1>1, <1>9 DEF IInv, RejectInv, Reboot
  <1> QED  BY <1>4, <1>5, <1>6, <1>7, <1>8, <1>10 DEF IInv
--------------------------------------------------------------------------------
(* The watchers, and what both actions do first.                           *)

LEMMA WatcherKeeps ==
    ASSUME IInv, NEW k \in Kinds,
           WatcherStarts(k) \/ WatcherReads(k) \/ WatcherRestarts(k)
    PROVE  IInv'
  <1>1. /\ Runs(k) \/ UNCHANGED act
        /\ UNCHANGED <<web, sent, told, file, reboots, bundle, booted, lastBoot, cut>>
    BY DEF WatcherStarts, WatcherReads, WatcherRestarts, channel, history
  <1>2. /\ ActTypes'
        /\ \A j \in Kinds : /\ act'[j].req = act[j].req
                            /\ \/ act'[j].pc = act[j].pc
                               \/ act[j].pc = "none" /\ act'[j].pc = "read"
    BY <1>1, RunsTypes DEF IInv
  <1> QED  BY <1>1, <1>2, StartOnly

\* A watcher that dies leaves its action as it is.
LEMMA WatcherDiesKeeps ==
    ASSUME IInv, NEW k \in Kinds, WatcherDies(k)
    PROVE  IInv'
  <1>1. /\ act' = [act EXCEPT ![k].orphan = act[k].pc # "none"]
        /\ UNCHANGED <<web, sent, told, file, reboots, bundle, booted, lastBoot, cut>>
    BY DEF WatcherDies
  <1>2. (act[k].pc # "none") \in BOOLEAN
    OBVIOUS
  <1>3. /\ ActTypes'
        /\ \A j \in Kinds : act'[j].req = act[j].req /\ act'[j].pc = act[j].pc
    BY <1>1, <1>2 DEF IInv, TypeInv, ActTypes
  <1> QED  BY <1>1, <1>3, StartOnly

\* The reboot action reads the request, or finds none.
LEMMA ReadKeeps ==
    ASSUME IInv, NEW k \in Kinds, Read(k)
    PROVE  IInv'
  <1>1. /\ act[k].pc = "read"
        /\ UNCHANGED <<web, sent, told, file, reboots, bundle, booted, lastBoot, cut>>
    BY DEF Read, channel, history
  <1>2. /\ ActTypes'
        /\ \/ act'[k].pc = "check" /\ act'[k].req = file[k]
           \/ act'[k].pc = "none" /\ act'[k].req.id = 0
        /\ \A j \in Kinds : j # k => act'[j] = act[j]
    <2>1. CASE Exits(k)
      BY <2>1, ActExits DEF IInv
    <2>2. CASE act' = [act EXCEPT ![k].pc = "check", ![k].req = file[k]]
      BY <2>2 DEF IInv, TypeInv, ActTypes, FileTypes, ActPCs
    <2> QED  BY <2>1, <2>2 DEF Read
  <1>3. CASE k = "diagnostics"
    BY <1>1, <1>2, <1>3, DiagnosticsOnly, Scalars DEF IInv, TypeInv, BundleTypes, bundle
  <1>4. CASE k = "reboot"
    <2>1. /\ Reboot.pc = "read"
          /\ \/ Reboot'.pc = "check" /\ Reboot'.req = file["reboot"]
             \/ Reboot'.pc = "none" /\ Reboot'.req.id = 0
          /\ \A j \in Kinds : \/ act'[j].req = act[j].req
                              \/ act'[j].req = file[j]
                              \/ act'[j].req.id = 0
      BY <1>1, <1>2, <1>4 DEF Reboot
    <2>2. TypeInv'
      BY <1>1, <1>2 DEF IInv, TypeInv, WebTypes, FileTypes, AnswerTypes, BundleTypes,
                       reboots, bundle
    <2>3. \A n \in Nat : n > 0 /\ Before(n) => Before(n)'
      BY <1>1, <2>1 DEF Before, reboots
    <2>4. FreshInv'
      BY <1>1, <2>3, Scalars DEF IInv, FreshInv
    <2>5. ActInv'
      BY <1>1, <2>1 DEF IInv, ActInv, reboots
    <2>6. AgeInv' /\ AnswerInv'
      BY <1>1, <2>1, Scalars DEF IInv, AgeInv, AnswerInv, reboots
    <2>7. RejectInv'
      <3>1. \A i \in Ids : (Rejected(i)' => Rejected(i)) /\ i # 0
        BY <1>1, Scalars DEF IInv, Rejected, reboots
      <3> QED  BY <1>1, <2>1, <3>1 DEF IInv, RejectInv
    <2>8. BundleInv'
      BY <1>1 DEF IInv, BundleInv
    <2> QED  BY <2>2, <2>4, <2>5, <2>6, <2>7, <2>8 DEF IInv
  <1> QED  BY <1>3, <1>4 DEF Kinds

\* A request that does not survive the second look is dropped.
LEMMA CheckKeeps ==
    ASSUME IInv, NEW k \in Kinds, Check(k)
    PROVE  IInv'
  <1>1. /\ act[k].pc = "check"
        /\ UNCHANGED <<web, sent, told, file, reboots, bundle, booted, lastBoot, cut>>
    BY DEF Check, channel, history
  <1>2. CASE k = "diagnostics"
    <2>1. /\ ActTypes'
          /\ act'[k].req = act[k].req \/ act'[k].req.id = 0
          /\ \A j \in Kinds : j # k => act'[j] = act[j]
      <3>1. CASE act' = [act EXCEPT ![k].pc = "collect"]
        BY <3>1, ActPC DEF IInv, ActPCs
      <3>2. CASE act' = [act EXCEPT ![k].pc = "collect", ![k].req = Nothing]
        BY <3>2, NothingTypes DEF IInv, TypeInv, ActTypes, ActPCs
      <3> QED  BY <1>2, <3>1, <3>2 DEF Check
    <2> QED  BY <1>1, <1>2, <2>1, DiagnosticsOnly, Scalars DEF IInv, TypeInv, BundleTypes, bundle
  <1>3. CASE k = "reboot"
    <2>1. /\ ActTypes'
          /\ \/ act'[k].pc = "evaluate" /\ act'[k].req = act[k].req /\ act[k].req.id # 0
             \/ act'[k].pc = "none" /\ act'[k].req.id = 0
          /\ \A j \in Kinds : j # k => act'[j] = act[j]
      <3>1. CASE act' = [act EXCEPT ![k].pc = "evaluate"] /\ act[k].req.id # 0
        BY <3>1, ActPC DEF IInv, ActPCs
      <3>2. CASE Exits(k)
        BY <3>2, ActExits DEF IInv
      <3> QED  BY <1>3, <3>1, <3>2 DEF Check
    <2>2. /\ Reboot.pc = "check"
          /\ \/ Reboot'.pc = "evaluate" /\ Reboot'.req = Reboot.req /\ Reboot.req.id # 0
             \/ Reboot'.pc = "none" /\ Reboot'.req.id = 0
          /\ \A j \in Kinds : act'[j].req = act[j].req \/ act'[j].req.id = 0
      BY <1>1, <1>3, <2>1 DEF Reboot
    <2>3. TypeInv'
      BY <1>1, <2>1 DEF IInv, TypeInv, WebTypes, FileTypes, AnswerTypes, BundleTypes,
                       reboots, bundle
    <2>4. \A n \in Nat : n > 0 /\ Before(n) => Before(n)'
      BY <1>1, <2>2 DEF Before, reboots
    <2>5. FreshInv'
      BY <1>1, <2>4, Scalars DEF IInv, FreshInv
    <2>6. ActInv'
      BY <1>1, <2>2 DEF IInv, ActInv, reboots
    <2>7. AgeInv' /\ AnswerInv'
      BY <1>1, <2>2, Scalars DEF IInv, AgeInv, AnswerInv, reboots
    <2>8. RejectInv'
      <3>1. \A i \in Ids : (Rejected(i)' => Rejected(i)) /\ i # 0
        BY <1>1, Scalars DEF IInv, Rejected, reboots
      <3> QED  BY <1>1, <2>2, <3>1 DEF IInv, RejectInv
    <2>9. BundleInv'
      BY <1>1 DEF IInv, BundleInv
    <2> QED  BY <2>3, <2>5, <2>6, <2>7, <2>8, <2>9 DEF IInv
  <1> QED  BY <1>2, <1>3 DEF Kinds
--------------------------------------------------------------------------------
(* The reboot action.                                                      *)

LEMMA GotoTypes ==
    ASSUME TypeInv, NEW p \in ActPCs, Goto(p)
    PROVE  /\ ActTypes' /\ Reboot'.pc = p /\ Reboot'.req = Reboot.req
           /\ \A j \in Kinds : act'[j].req = act[j].req
  <1>1. "reboot" \in Kinds
    BY DEF Kinds
  <1> QED  BY <1>1, ActPC DEF Goto, Reboot

\* The answer is of this request, which no one has been told of as accepted.
LEMMA RejectKeeps ==
    ASSUME IInv, Reject
    PROVE  IInv'
  <1>1. /\ Reboot.pc = "evaluate"
        /\ result' = [id |-> Reboot.req.id, status |-> "rejected"]
        /\ UNCHANGED <<web, sent, told, file, last, bundle, booted, lastBoot, cut>>
    BY DEF Reject, channel, history
  <1>2. /\ ActTypes' /\ Reboot'.pc = "clear rejected" /\ Reboot'.req = Reboot.req
        /\ \A j \in Kinds : act'[j].req = act[j].req
    BY GotoTypes DEF Reject, IInv, ActPCs
  <1>3. /\ result' \in [id : 0..Requests, status : Statuses]
        /\ result'.id = act["reboot"].req.id /\ result'.status = "rejected"
    BY <1>1, Scalars DEF IInv, Statuses, Reboot
  <1>4. TypeInv'
    BY <1>1, <1>2, <1>3
    DEF IInv, TypeInv, WebTypes, FileTypes, AnswerTypes, BundleTypes, bundle
  <1>5. \A n \in Nat : Before(n) => Before(n)'
    BY <1>1, <1>2, <1>3, Scalars DEF IInv, Before
  <1>6. FreshInv'
    BY <1>1, <1>5, Scalars DEF IInv, FreshInv
  <1>7. ActInv'
    BY <1>1, <1>2 DEF IInv, ActInv
  <1>8. AgeInv' /\ AnswerInv'
    BY <1>1, <1>2, <1>3 DEF IInv, AgeInv, AnswerInv
  <1>9. RejectInv'
    <2>1. \A i \in Ids : Rejected(i)' => Rejected(i) \/ i = Reboot.req.id
      BY <1>1, <1>3 DEF Rejected
    <2>2. \A i \in Ids : Rejected(i) /\ ~cut => i # Reboot.req.id /\ file["reboot"].id # i
      BY <1>1 DEF IInv, RejectInv
    <2>3. Reboot.req.id \notin booted
      BY DEF IInv, AnswerInv
    <2> QED  BY <1>1, <1>2, <2>1, <2>2, <2>3 DEF IInv, RejectInv
  <1>10. BundleInv'
    BY <1>1 DEF IInv, BundleInv
  <1> QED  BY <1>4, <1>6, <1>7, <1>8, <1>9, <1>10 DEF IInv

\* The file is emptied, whatever is in it by now.
LEMMA ClearRejectedKeeps ==
    ASSUME IInv, ClearRejected
    PROVE  IInv'
  <1>1. /\ Reboot.pc = "clear rejected"
        /\ file' = [file EXCEPT !["reboot"] = Nothing]
        /\ UNCHANGED <<web, sent, told, reboots, bundle, booted, lastBoot, cut>>
    BY DEF ClearRejected, history
  <1>2. /\ ActTypes' /\ Reboot'.pc = "none" /\ Reboot'.req.id = 0
        /\ \A j \in Kinds : act'[j].req.id = 0 \/ act'[j].req = act[j].req
    BY ActExits, Scalars DEF ClearRejected, IInv, Reboot
  <1>3. /\ FileTypes' /\ file'["reboot"].id = 0
        /\ \A j \in Kinds : file'[j].id = 0 \/ file'[j] = file[j]
    BY <1>1, FileSet, NothingTypes, Scalars DEF IInv
  <1>u. UNCHANGED <<web, sent, told, reboots, bundle, booted, lastBoot, cut>>
    BY <1>1
  <1>s. /\ sent + 1 \in Nat /\ sent + 1 > 0 /\ web.id \in Nat /\ 0 \notin booted
        /\ web.pc = "write" => web.id > 0
        /\ \A i \in Ids : i # 0
    BY Scalars DEF IInv, FreshInv
  <1>4. TypeInv'
    BY <1>1, <1>2, <1>3
    DEF IInv, TypeInv, WebTypes, AnswerTypes, BundleTypes, bundle, reboots
  <1>5. \A n \in Nat : n > 0 /\ Before(n) => Before(n)'
    BY <1>1, <1>2, <1>3 DEF Before, reboots
  <1>6. FreshInv'
    BY <1>u, <1>5, <1>s DEF IInv, FreshInv
  <1>7. ActInv'
    BY <1>1, <1>2 DEF ActInv
  <1>8. AgeInv' /\ AnswerInv'
    BY <1>u, <1>2, <1>3, <1>s DEF IInv, AgeInv, AnswerInv, reboots
  <1>9. RejectInv'
    <2>1. \A i \in Ids : (Rejected(i)' => Rejected(i)) /\ i # 0
      BY <1>u, <1>s DEF Rejected, reboots
    <2> QED  BY <1>1, <1>2, <1>3, <2>1 DEF IInv, RejectInv
  <1>10. BundleInv'
    BY <1>1 DEF IInv, BundleInv
  <1> QED  BY <1>4, <1>6, <1>7, <1>8, <1>9, <1>10 DEF IInv

\* An acceptable request is younger than the last accepted one: an older one
\* would be as old as the cooldown, and stale.
LEMMA AcceptableIsNew ==
    ASSUME IInv, Reboot.pc = "evaluate", Acceptable(Reboot.req)
    PROVE  /\ Reboot.req.id > last.id /\ Reboot.req.id \notin booted
           /\ lastBoot = Cooldown
  <1>1. /\ Reboot.req.id \in Nat /\ Reboot.req.age \in Nat /\ last.id \in Nat
        /\ last.age \in Nat /\ lastBoot \in 0..Cooldown /\ booted \subseteq Nat
        /\ Cooldown \in Nat /\ MaxAge \in Nat /\ MaxAge < Cooldown
    BY Scalars, HostRequestsAssumption DEF IInv, Reboot
  <1>2. Reboot.req.age <= MaxAge /\ last.age >= Cooldown
    BY DEF Acceptable
  <1>3. Reboot.req.id # 0
    BY DEF IInv, ActInv
  <1>4. Reboot.req.id > last.id
    BY <1>1, <1>2, <1>3 DEF IInv, AgeInv
  <1> QED  BY <1>1, <1>2, <1>4 DEF IInv, AgeInv

LEMMA RecordKeeps ==
    ASSUME IInv, Record
    PROVE  IInv'
  <1>1. /\ Reboot.pc = "evaluate" /\ Acceptable(Reboot.req)
        /\ last' = [id |-> Reboot.req.id, age |-> 0]
        /\ UNCHANGED <<web, sent, told, file, result, bundle, booted, lastBoot, cut>>
    BY DEF Record, channel, history
  <1>2. /\ ActTypes' /\ Reboot'.pc = "clear accepted" /\ Reboot'.req = Reboot.req
        /\ \A j \in Kinds : act'[j].req = act[j].req
    BY GotoTypes DEF Record, IInv, ActPCs
  <1>3. /\ last' \in [id : 0..Requests, age : 0..Cooldown]
        /\ last'.id = act["reboot"].req.id /\ last'.id = Reboot.req.id /\ last'.age = 0
    BY <1>1, Scalars, HostRequestsAssumption DEF IInv, Reboot
  <1>4. TypeInv'
    BY <1>1, <1>2, <1>3
    DEF IInv, TypeInv, WebTypes, FileTypes, AnswerTypes, BundleTypes, bundle
  <1>5. \A n \in Nat : Before(n) => Before(n)'
    BY <1>1, <1>2, <1>3, Scalars DEF IInv, Before
  <1>6. FreshInv'
    BY <1>1, <1>5, Scalars DEF IInv, FreshInv
  <1>7. /\ last'.id > last.id /\ last.id \in Nat /\ last'.id \in Nat /\ Reboot.req.id # 0
        /\ Reboot.req.age >= 0 /\ file["reboot"].age >= 0 /\ lastBoot >= 0
    BY <1>1, <1>3, AcceptableIsNew, Scalars, HostRequestsAssumption DEF IInv, ActInv, Reboot
  <1>8. ActInv'
    BY <1>1, <1>2, <1>3, <1>7 DEF IInv, ActInv
  <1>u. UNCHANGED <<told, file, result, booted, lastBoot>>
    BY <1>1
  <1>9. AgeInv'
    <2>1. \A i \in booted : i <= last'.id
      BY <1>7, Scalars DEF IInv, AgeInv
    <2> QED  BY <1>u, <1>2, <1>3, <1>7, <2>1 DEF AgeInv
  <1>10. AnswerInv'
    <2>1. result.status = "accepted" => result.id <= last'.id
      BY <1>7, Scalars DEF IInv, AnswerInv
    <2>2. \A i \in Ids : told[i] = "accepted" => i <= last'.id
      BY <1>7, Scalars DEF IInv, AnswerInv
    <2> QED  BY <1>u, <1>2, <2>1, <2>2 DEF IInv, AnswerInv
  <1>11. RejectInv'
    <2>1. \A i \in Ids : (Rejected(i)' => Rejected(i)) /\ i # 0
      BY <1>1, Scalars DEF IInv, Rejected
    <2> QED  BY <1>1, <1>2, <2>1 DEF IInv, RejectInv
  <1>12. BundleInv'
    BY <1>1 DEF IInv, BundleInv
  <1> QED  BY <1>4, <1>6, <1>8, <1>9, <1>10, <1>11, <1>12 DEF IInv

LEMMA ClearAcceptedKeeps ==
    ASSUME IInv, ClearAccepted
    PROVE  IInv'
  <1>1. /\ Reboot.pc = "clear accepted"
        /\ file' = [file EXCEPT !["reboot"] = Nothing]
        /\ UNCHANGED <<web, sent, told, reboots, bundle, booted, lastBoot, cut>>
    BY DEF ClearAccepted, history
  <1>2. /\ ActTypes' /\ Reboot'.pc = "publish" /\ Reboot'.req = Reboot.req
        /\ \A j \in Kinds : act'[j].req = act[j].req
    BY GotoTypes DEF ClearAccepted, IInv, ActPCs
  <1>3. /\ FileTypes' /\ file'["reboot"].id = 0
        /\ \A j \in Kinds : file'[j].id = 0 \/ file'[j] = file[j]
    BY <1>1, FileSet, NothingTypes, Scalars DEF IInv
  <1>u. UNCHANGED <<web, sent, told, reboots, bundle, booted, lastBoot, cut>>
    BY <1>1
  <1>s. /\ sent + 1 \in Nat /\ sent + 1 > 0 /\ web.id \in Nat /\ 0 \notin booted
        /\ web.pc = "write" => web.id > 0
        /\ \A i \in Ids : i # 0
    BY Scalars DEF IInv, FreshInv
  <1>4. TypeInv'
    BY <1>1, <1>2, <1>3
    DEF IInv, TypeInv, WebTypes, AnswerTypes, BundleTypes, bundle, reboots
  <1>5. \A n \in Nat : n > 0 /\ Before(n) => Before(n)'
    BY <1>1, <1>2, <1>3 DEF Before, reboots
  <1>6. FreshInv'
    BY <1>u, <1>5, <1>s DEF IInv, FreshInv
  <1>7. ActInv'
    BY <1>1, <1>2, <1>3 DEF IInv, ActInv, reboots
  <1>8. AgeInv' /\ AnswerInv'
    BY <1>u, <1>2, <1>3, <1>s DEF IInv, AgeInv, AnswerInv, reboots
  <1>9. RejectInv'
    <2>1. \A i \in Ids : (Rejected(i)' => Rejected(i)) /\ i # 0
      BY <1>u, <1>s DEF Rejected, reboots
    <2> QED  BY <1>1, <1>2, <1>3, <2>1 DEF IInv, RejectInv
  <1>10. BundleInv'
    BY <1>1 DEF IInv, BundleInv
  <1> QED  BY <1>4, <1>6, <1>7, <1>8, <1>9, <1>10 DEF IInv

LEMMA PublishKeeps ==
    ASSUME IInv, Publish
    PROVE  IInv'
  <1>1. /\ Reboot.pc = "publish"
        /\ result' = [id |-> Reboot.req.id, status |-> "accepted"]
        /\ UNCHANGED <<web, sent, told, file, last, bundle, booted, lastBoot, cut>>
    BY DEF Publish, channel, history
  <1>2. /\ ActTypes' /\ Reboot'.pc = "sleep" /\ Reboot'.req = Reboot.req
        /\ \A j \in Kinds : act'[j].req = act[j].req
    BY GotoTypes DEF Publish, IInv, ActPCs
  <1>3. /\ result' \in [id : 0..Requests, status : Statuses]
        /\ result'.id = act["reboot"].req.id /\ result'.id = Reboot.req.id
        /\ result'.status = "accepted"
    BY <1>1, Scalars DEF IInv, Statuses, Reboot
  <1>4. TypeInv'
    BY <1>1, <1>2, <1>3
    DEF IInv, TypeInv, WebTypes, FileTypes, AnswerTypes, BundleTypes, bundle
  <1>5. \A n \in Nat : Before(n) => Before(n)'
    BY <1>1, <1>2, <1>3, Scalars DEF IInv, Before
  <1>6. FreshInv'
    BY <1>1, <1>5, Scalars DEF IInv, FreshInv
  <1>7. ActInv'
    BY <1>1, <1>2 DEF IInv, ActInv
  <1>8. AgeInv' /\ AnswerInv'
    BY <1>1, <1>2, <1>3, Scalars DEF IInv, AgeInv, AnswerInv, ActInv
  <1>9. RejectInv'
    <2>1. \A i \in Ids : Rejected(i)' => Rejected(i)
      BY <1>1, <1>3 DEF Rejected
    <2> QED  BY <1>1, <1>2, <2>1 DEF IInv, RejectInv
  <1>10. BundleInv'
    BY <1>1 DEF IInv, BundleInv
  <1> QED  BY <1>4, <1>6, <1>7, <1>8, <1>9, <1>10 DEF IInv
--------------------------------------------------------------------------------
(* The host starts again.                                                  *)

LEMMA BootsTypes ==
    ASSUME IInv, Boots
    PROVE  /\ WebTypes' /\ web'.pc = "idle" /\ BundleInv'
           /\ ActTypes' /\ \A j \in Kinds : act'[j].req.id = 0
           /\ Reboot'.pc = "none" /\ Reboot'.req.id = 0
           /\ FileTypes' /\ BundleTypes' /\ FreshInv'
           /\ UNCHANGED <<sent, told, file, last, result>>
  <1>1. web' = Ready /\ act' = [k \in Kinds |-> Resting]
        /\ UNCHANGED <<sent, told, file, last, result, bundle>>
    BY DEF Boots, reboots
  <1>2. WebTypes' /\ web'.pc = "idle" /\ BundleInv'
    BY <1>1, ReadyTypes DEF WebTypes, BundleInv
  <1>3. /\ ActTypes' /\ \A j \in Kinds : act'[j].req.id = 0
        /\ Reboot'.pc = "none" /\ Reboot'.req.id = 0
    BY <1>1, RestingTypes, Scalars DEF IInv, ActTypes, Reboot
  <1>4. FileTypes' /\ BundleTypes'
    BY <1>1 DEF IInv, TypeInv, FileTypes, BundleTypes, bundle
  <1>5. FreshInv'
    BY <1>1, <1>2, <1>3, Scalars DEF IInv, FreshInv, Before
  <1> QED  BY <1>1, <1>2, <1>3, <1>4, <1>5

\* The request that reboots the host is nowhere to be read again.
LEMMA RebootsKeeps ==
    ASSUME IInv, Reboots
    PROVE  IInv'
  <1>1. /\ Reboot.pc = "sleep" /\ booted' = booted \cup {Reboot.req.id}
        /\ lastBoot' = last.age /\ cut' = cut
    BY DEF Reboots
  <1>2. /\ WebTypes' /\ BundleInv' /\ ActTypes' /\ FileTypes' /\ BundleTypes' /\ FreshInv'
        /\ Reboot'.pc = "none" /\ Reboot'.req.id = 0
        /\ UNCHANGED <<sent, told, file, last, result>>
    BY BootsTypes DEF Reboots
  <1>3. /\ Reboot.req.id = last.id /\ last.id # 0 /\ file["reboot"].id # last.id
        /\ last.id \in Ids
    BY <1>1, Scalars, HostRequestsAssumption DEF IInv, ActInv, Ids
  <1>4. TypeInv'
    BY <1>1, <1>2, <1>3, Scalars DEF IInv, TypeInv, AnswerTypes
  <1>5. ActInv' /\ AgeInv' /\ AnswerInv'
    BY <1>1, <1>2, <1>3, Scalars DEF IInv, ActInv, AgeInv, AnswerInv, Reboot
  <1>6. RejectInv'
    <2>1. \A i \in Ids : (Rejected(i)' => Rejected(i)) /\ i # 0
      BY <1>2, Scalars DEF IInv, Rejected
    <2> QED  BY <1>1, <1>2, <1>3, <2>1 DEF IInv, RejectInv
  <1> QED  BY <1>2, <1>4, <1>5, <1>6 DEF IInv

LEMMA PowerFailsKeeps ==
    ASSUME IInv, PowerFails
    PROVE  IInv'
  <1>1. booted' = booted /\ lastBoot' = lastBoot /\ cut' = TRUE
    BY DEF PowerFails
  <1>2. /\ WebTypes' /\ BundleInv' /\ ActTypes' /\ FileTypes' /\ BundleTypes' /\ FreshInv'
        /\ Reboot'.pc = "none" /\ Reboot'.req.id = 0
        /\ UNCHANGED <<sent, told, file, last, result>>
    BY BootsTypes DEF PowerFails
  <1>3. TypeInv'
    BY <1>1, <1>2 DEF IInv, TypeInv, AnswerTypes
  <1>4. ActInv' /\ AgeInv' /\ AnswerInv'
    BY <1>1, <1>2, Scalars DEF IInv, ActInv, AgeInv, AnswerInv
  <1>5. RejectInv'
    BY <1>1 DEF RejectInv
  <1> QED  BY <1>2, <1>3, <1>4, <1>5 DEF IInv
--------------------------------------------------------------------------------
(* The diagnostics action, and time.                                       *)

LEMMA StepTypes ==
    ASSUME TypeInv, NEW p \in ActPCs, Step(p)
    PROVE  /\ ActTypes' /\ act'["reboot"] = act["reboot"]
           /\ act'["diagnostics"].req = act["diagnostics"].req
  <1>1. "diagnostics" \in Kinds /\ "reboot" \in Kinds /\ "reboot" # "diagnostics"
    BY DEF Kinds
  <1> QED  BY <1>1, ActPC DEF Step

LEMMA CollectKeeps ==
    ASSUME IInv, Collect
    PROVE  IInv'
  <1>1. /\ ActTypes' /\ act'["reboot"] = act["reboot"]
        /\ act'["diagnostics"].req = act["diagnostics"].req
    BY StepTypes DEF Collect, IInv, ActPCs
  <1>2. BundleTypes'
    BY DEF Collect, IInv, TypeInv, BundleTypes
  <1> QED  BY <1>1, <1>2, DiagnosticsOnly DEF Collect, channel, history

LEMMA PublishMetaKeeps ==
    ASSUME IInv, PublishMeta
    PROVE  IInv'
  <1>1. /\ ActTypes' /\ act'["reboot"] = act["reboot"]
        /\ act'["diagnostics"].req = act["diagnostics"].req
    BY StepTypes DEF PublishMeta, IInv, ActPCs
  <1>2. Named \in Nat
    BY Scalars DEF Named, Diagnostics, IInv
  <1>3. BundleTypes'
    BY <1>2 DEF PublishMeta, IInv, TypeInv, BundleTypes, Metas
  <1> QED  BY <1>1, <1>3, DiagnosticsOnly DEF PublishMeta, channel, history

LEMMA PublishReportKeeps ==
    ASSUME IInv, PublishReport
    PROVE  IInv'
  <1>1. "diagnostics" \in Kinds /\ "reboot" \in Kinds /\ "reboot" # "diagnostics"
    BY DEF Kinds
  <1>2. /\ ActTypes' /\ act'["reboot"] = act["reboot"] /\ act'["diagnostics"].req.id = 0
    BY <1>1, ActExits DEF PublishReport, IInv
  <1>3. Named \in Nat
    BY Scalars DEF Named, Diagnostics, IInv
  <1>4. BundleTypes'
    BY <1>3 DEF PublishReport, IInv, TypeInv, BundleTypes
  <1> QED  BY <1>2, <1>4, DiagnosticsOnly DEF PublishReport, channel, history

\* Growing older keeps the order of ages, up to the cooldown.
LEMMA OlderKeepsOrder ==
    ASSUME NEW a \in 0..Cooldown, NEW b \in 0..Cooldown
    PROVE  /\ Older(a) \in 0..Cooldown
           /\ a <= b => Older(a) <= Older(b)
  BY HostRequestsAssumption DEF Older

LEMMA TickKeeps ==
    ASSUME IInv, Tick
    PROVE  IInv'
  <1>u. UNCHANGED <<sent, told, result, bundle, booted, cut>>
    BY DEF Tick
  <1>1. /\ WebTypes' /\ web'.pc = web.pc /\ web'.id = web.id /\ web'.report = web.report
        /\ web'.pcap = web.pcap /\ web'.asked = web.asked /\ web'.meta = web.meta
    BY DEF Tick, IInv, TypeInv, WebTypes
  <1>2. /\ FileTypes'
        /\ \A k \in Kinds : /\ file'[k].id = file[k].id
                            /\ file[k].id # 0 => file'[k].age = Older(file[k].age)
    <2> SUFFICES ASSUME NEW k \in Kinds
                 PROVE  /\ file'[k] \in Records /\ file'[k].id = file[k].id
                        /\ file[k].id # 0 => file'[k].age = Older(file[k].age)
      BY DEF Tick, FileTypes
    <2>1. /\ file[k] \in Records
          /\ file'[k] = IF file[k].id = 0 THEN Nothing ELSE [file[k] EXCEPT !.age = Older(@)]
      BY DEF Tick, IInv, TypeInv, FileTypes
    <2>2. Older(file[k].age) \in 0..Cooldown
      BY Scalars, OlderKeepsOrder DEF IInv
    <2> QED  BY <2>1, <2>2, NothingTypes DEF Records
  <1>3. /\ ActTypes'
        /\ \A k \in Kinds : /\ act'[k].pc = act[k].pc /\ act'[k].req.id = act[k].req.id
                            /\ act[k].req.id # 0 => act'[k].req.age = Older(act[k].req.age)
    <2> SUFFICES ASSUME NEW k \in Kinds
                 PROVE  /\ act'[k] \in [pc : ActPCs, req : Records, orphan : BOOLEAN]
                        /\ act'[k].pc = act[k].pc /\ act'[k].req.id = act[k].req.id
                        /\ act[k].req.id # 0 => act'[k].req.age = Older(act[k].req.age)
      BY DEF Tick, ActTypes
    <2>1. /\ act[k] \in [pc : ActPCs, req : Records, orphan : BOOLEAN]
          /\ act'[k] = [act[k] EXCEPT !.req.age = IF act[k].req.id = 0 THEN 0 ELSE Older(@)]
      BY DEF Tick, IInv, TypeInv, ActTypes
    <2>2. Older(act[k].req.age) \in 0..Cooldown /\ 0 \in 0..Cooldown
      BY Scalars, OlderKeepsOrder, HostRequestsAssumption DEF IInv
    <2> QED  BY <2>1, <2>2 DEF Records
  <1>4. /\ last' \in [id : 0..Requests, age : 0..Cooldown]
        /\ last'.id = last.id /\ last'.age = Older(last.age)
        /\ lastBoot' = Older(lastBoot) /\ lastBoot' \in 0..Cooldown
    BY Scalars, OlderKeepsOrder DEF Tick, IInv, TypeInv, AnswerTypes
  <1>5. TypeInv'
    BY <1>u, <1>1, <1>2, <1>3, <1>4 DEF IInv, TypeInv, AnswerTypes, BundleTypes, bundle
  <1>6. FreshInv'
    BY <1>u, <1>1, <1>2, <1>3, <1>4 DEF IInv, FreshInv, Before
  <1>7. /\ file'["reboot"].id = file["reboot"].id
        /\ file["reboot"].id # 0 => file'["reboot"].age = Older(file["reboot"].age)
        /\ Reboot'.pc = Reboot.pc /\ Reboot'.req.id = Reboot.req.id
        /\ Reboot.req.id # 0 => Reboot'.req.age = Older(Reboot.req.age)
    BY <1>2, <1>3, Scalars DEF IInv, Reboot
  <1>8. ActInv' /\ AnswerInv'
    BY <1>u, <1>4, <1>7 DEF IInv, ActInv, AnswerInv
  <1>9. AgeInv'
    <2>1. /\ last.age <= lastBoot => Older(last.age) <= Older(lastBoot)
          /\ last.age <= file["reboot"].age => Older(last.age) <= Older(file["reboot"].age)
          /\ last.age <= Reboot.req.age => Older(last.age) <= Older(Reboot.req.age)
      BY Scalars, OlderKeepsOrder DEF IInv, Reboot
    <2> QED  BY <1>u, <1>4, <1>7, <2>1 DEF IInv, AgeInv
  <1>10. RejectInv'
    <2>1. \A i \in Ids : Rejected(i)' => Rejected(i)
      BY <1>u DEF Rejected
    <2> QED  BY <1>u, <1>7, <2>1 DEF IInv, RejectInv
  <1>11. BundleInv'
    BY <1>1 DEF IInv, BundleInv
  <1> QED  BY <1>5, <1>6, <1>8, <1>9, <1>10, <1>11 DEF IInv
--------------------------------------------------------------------------------
\* A host that has been up for longer than the cooldown, with no requests yet.
LEMMA InitIInv == Init => IInv
  <1> SUFFICES ASSUME Init PROVE IInv
    OBVIOUS
  <1>1. WebTypes /\ BundleInv /\ web.pc = "idle"
    BY ReadyTypes DEF Init, WebTypes, BundleInv
  <1>2. FileTypes /\ \A k \in Kinds : file[k].id = 0
    BY NothingTypes DEF Init, FileTypes
  <1>3. ActTypes /\ \A k \in Kinds : act[k].pc = "none" /\ act[k].req.id = 0
    BY RestingTypes DEF Init, ActTypes
  <1>4. BundleTypes
    BY DEF Init, BundleTypes, Metas
  <1>5. /\ sent = 0 /\ \A i \in Ids : told[i] = "nothing"
        /\ last.id = 0 /\ last.age = Cooldown /\ result.id = 0 /\ result.status = "none"
        /\ booted = {} /\ lastBoot = Cooldown
        /\ told \in [Ids -> {"nothing"}]
    BY DEF Init, Never
  <1>6. AnswerTypes
    <2>1. cut \in BOOLEAN /\ told \in [Ids -> Statuses \cup {"nothing"}]
      BY <1>5 DEF Init
    <2>2. last \in [id : 0..Requests, age : 0..Cooldown]
      BY HostRequestsAssumption DEF Init, Never
    <2>3. result \in [id : 0..Requests, status : Statuses]
      BY HostRequestsAssumption DEF Init, Statuses
    <2> QED  BY <1>5, <2>1, <2>2, <2>3, HostRequestsAssumption DEF AnswerTypes
  <1>7. TypeInv
    BY <1>1, <1>2, <1>3, <1>4, <1>6 DEF TypeInv
  <1>8. FreshInv
    BY <1>1, <1>2, <1>3, <1>5 DEF FreshInv, Before
  <1>9. Reboot.pc = "none" /\ Reboot.req.id = 0 /\ file["reboot"].id = 0
    BY <1>2, <1>3 DEF Reboot, Kinds
  <1>10. ActInv /\ AgeInv /\ AnswerInv
    BY <1>5, <1>9, HostRequestsAssumption DEF ActInv, AgeInv, AnswerInv
  <1>11. \A i \in Ids : ~Rejected(i)
    BY <1>5 DEF Rejected
  <1> QED  BY <1>1, <1>7, <1>8, <1>10, <1>11 DEF IInv, RejectInv

\* A step that changes nothing.
LEMMA StutterKeeps ==
    ASSUME IInv, UNCHANGED vars
    PROVE  IInv'
  <1>1. UNCHANGED <<web, sent, told, file, act, reboots, bundle, booted, lastBoot, cut>>
    BY DEF vars, channel, history
  <1>2. WebTypes' /\ BundleInv'
    BY <1>1 DEF IInv, TypeInv, WebTypes, BundleInv
  <1>3. TypeInv'
    BY <1>1, <1>2 DEF IInv, TypeInv, FileTypes, ActTypes, AnswerTypes, BundleTypes, reboots, bundle
  <1>4. FreshInv'
    BY <1>1 DEF IInv, FreshInv, Before, reboots
  <1>5. ActInv' /\ AgeInv' /\ AnswerInv'
    BY <1>1 DEF IInv, ActInv, AgeInv, AnswerInv, Reboot, reboots
  <1>6. RejectInv'
    BY <1>1 DEF IInv, RejectInv, Rejected, Reboot, reboots
  <1> QED  BY <1>2, <1>3, <1>4, <1>5, <1>6 DEF IInv

LEMMA WebStepKeeps == ASSUME IInv, WebStep PROVE IInv'
  <1>1. CASE Pack
    BY <1>1, ReadyKeeps DEF Pack, channel, history
  <1> QED
    BY <1>1, WriteKeeps, WriteFailsKeeps, AcknowledgedKeeps, ReportSeenKeeps, GivesUpKeeps,
       ReadMetaKeeps, ReadPcapKeeps DEF WebStep

LEMMA HostStepKeeps == ASSUME IInv, HostStep PROVE IInv'
  <1>1. ASSUME NEW k \in Kinds, WatcherStarts(k) \/ WatcherReads(k) \/ WatcherRestarts(k)
        PROVE  IInv'
    BY <1>1, WatcherKeeps
  <1> QED
    BY <1>1, ReadKeeps, CheckKeeps, RejectKeeps, ClearRejectedKeeps, RecordKeeps,
       ClearAcceptedKeeps, PublishKeeps, RebootsKeeps, CollectKeeps, PublishMetaKeeps,
       PublishReportKeeps DEF HostStep

\* The invariant is inductive.
LEMMA NextKeeps == ASSUME IInv, [Next]_vars PROVE IInv'
  <1>1. ASSUME NEW k \in Kinds, NEW asked \in BOOLEAN, Submit(k, asked) PROVE IInv'
    BY <1>1, SubmitKeeps
  <1>2. CASE WatcherDies("reboot")
    BY <1>2, WatcherDiesKeeps DEF Kinds
  <1> QED
    BY <1>1, <1>2, WebStepKeeps, HostStepKeeps, TickKeeps, PowerFailsKeeps, StutterKeeps DEF Next

\* Whatever the web server, the watchers, the actions and the power do, the
\* host's files and processes stay in step.
THEOREM HostInvariant == Spec => []IInv
  <1>1. Init => IInv
    BY InitIInv
  <1>2. IInv /\ [Next]_vars => IInv'
    BY NextKeeps
  <1> QED  BY <1>1, <1>2, PTL DEF Spec

\* What request_reboot() tells the operator is true of the host, however the
\* requests, their answers, deaths of the watcher and losses of power fall.
THEOREM RebootAnswersAreTrue == Spec => []RebootHonest
  <1>1. IInv => RebootHonest
    <2> SUFFICES ASSUME IInv, NEW i \in Ids
                 PROVE  /\ told[i] = "accepted" => i \in booted \/ last.id >= i
                        /\ told[i] = "rejected" /\ ~cut =>
                             i \notin booted /\ ~(Reboot.pc = "sleep" /\ Reboot.req.id = i)
      BY DEF RebootHonest
    <2>1. told[i] = "accepted" => last.id >= i
      BY Scalars DEF IInv, AnswerInv
    <2>2. told[i] = "rejected" /\ ~cut =>
             i \notin booted /\ ~(Reboot.pc = "sleep" /\ Reboot.req.id = i)
      BY DEF IInv, RejectInv, Rejected
    <2> QED  BY <2>1, <2>2
  <1> QED  BY <1>1, HostInvariant, PTL

\* What diagnostics_bundle() packs is of one request: its report, its metadata
\* and the capture the metadata describes, or no capture at all.
THEOREM BundlesBelongTogether == Spec => []BundleConsistent
  <1>1. IInv => BundleConsistent
    BY DEF IInv, BundleInv, BundleConsistent
  <1> QED  BY <1>1, HostInvariant, PTL

\* Only Record takes the reboot action from evaluating to an acceptance.
LEMMA OnlyRecordAccepts ==
    ASSUME IInv, [Next]_vars, Reboot.pc = "evaluate", Reboot'.pc = "clear accepted"
    PROVE  Record
  <1>k. "reboot" \in Kinds /\ "diagnostics" \in Kinds /\ TypeInv
    BY DEF Kinds, IInv
  <1>1. act' # act
    BY DEF Reboot
  <1>2. ~WebStep /\ ~UNCHANGED vars
    BY <1>1 DEF WebStep, Write, WriteFails, Acknowledged, ReportSeen, GivesUp, ReadMeta,
                ReadPcap, Pack, vars
  <1>3. \A k \in Kinds, asked \in BOOLEAN : ~Submit(k, asked)
    BY <1>1 DEF Submit
  <1>4. ASSUME NEW k \in Kinds, WatcherStarts(k) \/ WatcherReads(k) \/ WatcherRestarts(k)
        PROVE  FALSE
    <2>1. Runs(k)
      BY <1>1, <1>4 DEF WatcherStarts, WatcherReads, WatcherRestarts
    <2> QED  BY <1>k, <2>1, RunsTypes DEF Reboot
  <1>5. ASSUME NEW k \in Kinds, Read(k) \/ Check(k)
        PROVE  FALSE
    <2>1. k # "reboot"
      BY <1>5 DEF Read, Check, Reboot
    <2>2. act'["reboot"] = act["reboot"]
      BY <1>k, <1>5, <2>1 DEF Read, Check, Exits, TypeInv, ActTypes
    <2> QED  BY <2>2 DEF Reboot
  <1>6. ~Reject
    BY <1>k, GotoTypes DEF Reject, ActPCs
  <1>7. ~ClearRejected /\ ~ClearAccepted /\ ~Publish /\ ~Reboots
    BY DEF ClearRejected, ClearAccepted, Publish, Reboots
  <1>8. ~PowerFails
    BY BootsTypes DEF PowerFails
  <1>9. ~Collect /\ ~PublishMeta
    BY <1>k, StepTypes DEF Collect, PublishMeta, ActPCs, Reboot
  <1>10. ~PublishReport
    <2>1. "reboot" # "diagnostics"
      OBVIOUS
    <2> QED  BY <1>k, <2>1, ActExits DEF PublishReport, Reboot
  <1>11. ~Tick
    BY ZenonT(40), <1>k DEF Tick, Reboot, TypeInv, ActTypes
  <1>12. ~WatcherDies("reboot")
    BY ZenonT(40), <1>k DEF WatcherDies, Reboot, TypeInv, ActTypes
  <1> QED
    BY <1>2, <1>3, <1>4, <1>5, <1>6, <1>7, <1>8, <1>9, <1>10, <1>11, <1>12 DEF Next, HostStep

\* No request reboots the host twice, and no two of them do within the
\* cooldown: an acceptable request is younger than the last accepted one.
THEOREM RebootsAreSpaced == Spec => RebootsSpaced
  <1>1. IInv /\ [Next]_vars =>
          [(Reboot.pc = "evaluate" /\ Reboot'.pc = "clear accepted") =>
              /\ Reboot.req.id \notin booted
              /\ lastBoot = Cooldown]_vars
    BY OnlyRecordAccepts, AcceptableIsNew DEF Record
  <1> QED  BY <1>1, HostInvariant, PTL DEF Spec, RebootsSpaced
================================================================================
