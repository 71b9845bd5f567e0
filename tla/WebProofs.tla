------------------------------- MODULE WebProofs -------------------------------
(***************************************************************************)
(* The web server, for every value of the constants: its sessions, for any *)
(* number of browsers, passwords, session ids, restarts and changes of the *)
(* password; the logins it lets through, for any limits (both WebAccess);  *)
(* and the sources it lists and probes, for any limits, names, endpoints   *)
(* and signals (Discovery).                                                *)
(***************************************************************************)
EXTENDS WebAccess, Discovery, FiniteSetTheorems, WellFoundedInduction, TLAPS

--------------------------------------------------------------------------------
(* Sessions.                                                               *)

Pws     == [pw : Passwords, salt : Nat]
Records == [id : Ids, left : 0..Lifetime, digest : Pws, born : Pws, stray : BOOLEAN]

WebTypes ==
    /\ changes \in Nat /\ pwFile \in Pws \cup {None} /\ up \in BOOLEAN /\ (up => pw \in Pws)
    /\ registry \subseteq Records /\ jar \in [Browsers -> Nat]

\* A record is bound to the password it was made under.
BoundInv == \A r \in registry : r.digest = r.born

\* The registry is keyed by the session.
KeyInv == \A r, s \in registry : r.id = s.id => r = s

\* A record in time is held by a browser whatever password it is bound to: one
\* that is dead under this password is live again under the next.
HeldInv ==
    \A r \in registry : r.left > 0 /\ ~r.stray => \E b \in Browsers : jar[b] = r.id

IInv == WebTypes /\ BoundInv /\ KeyInv /\ HeldInv
--------------------------------------------------------------------------------
(* Steps.                                                                  *)

LEMMA Limits == Lifetime \in Nat /\ Lifetime > 0 /\ IdCount \in Nat
  BY WebAccessAssumption

LEMMA InitIInv == Init => IInv
  <1> SUFFICES ASSUME Init PROVE IInv
    OBVIOUS
  <1>1. jar \in [Browsers -> Nat] /\ up = FALSE
    BY DEF Init
  <1>2. WebTypes
    BY <1>1 DEF Init, WebTypes
  <1> QED  BY <1>2 DEF Init, IInv, BoundInv, KeyInv, HeldInv

LEMMA StoredType ==
    ASSUME WebTypes, NEW p \in Passwords
    PROVE  Stored(p) \in Pws /\ Emergency(p) \in Pws /\ changes + 1 \in Nat
  BY DEF WebTypes, Pws, Stored, Emergency

\* A step that touches neither the registry nor the cookies.
LEMMA SessionsSame ==
    ASSUME IInv, UNCHANGED <<registry, jar>>, changes' \in Nat, pwFile' \in Pws \cup {None},
           up' \in BOOLEAN, up' => pw' \in Pws
    PROVE  IInv'
  BY DEF IInv, WebTypes, BoundInv, KeyInv, HeldInv

\* What an answer that arrives does to the cookies.
LEMMA AnswerCookie ==
    ASSUME WebTypes, NEW b \in Browsers, NEW session \in Nat, NEW form, Delivered(b, session, form)
    PROVE  /\ jar' \in [Browsers -> Nat] /\ jar'[b] = session
           /\ \A c \in Browsers : c # b => jar'[c] = jar[c]
  BY DEF WebTypes, Delivered

\* A page leaves the session cookies alone.
LEMMA PageCookie ==
    ASSUME WebTypes, NEW b \in Browsers, NEW form, Answer(b, form)
    PROVE  jar' = jar
  BY DEF WebTypes, Answer, Delivered

\* Every page and redirect of a handler that logs nobody in or out.
LEMMA PageKeeps ==
    ASSUME IInv, NEW b \in Browsers, NEW form, Answer(b, form) \/ Redirect,
           UNCHANGED <<disk, registry, up, pw>>
    PROVE  IInv'
  <1>1. jar' = jar
    BY PageCookie DEF Redirect, IInv
  <1>2. UNCHANGED <<changes, pwFile, registry, up, pw>>
    BY DEF disk
  <1> QED  BY <1>1, <1>2, SessionsSame DEF IInv, WebTypes

LEMMA FreshRecord ==
    ASSUME IInv, up, NEW id \in FreshIds, NEW stray \in BOOLEAN
    PROVE  /\ id \in Ids /\ id \in Nat /\ id > 0 /\ Fresh(id, stray) \in Records
           /\ Fresh(id, stray).digest = Fresh(id, stray).born /\ Fresh(id, stray).id = id
           /\ Fresh(id, stray).left = Lifetime /\ Fresh(id, stray).digest = Digest(pw)
           /\ Fresh(id, stray).stray = stray
           /\ \A r \in registry : r.id # id
           /\ \A b \in Browsers : jar[b] # id
  <1>1. /\ id \in Ids /\ id \notin {r.id : r \in registry} /\ id \notin {jar[b] : b \in Browsers}
    BY DEF FreshIds
  <1>2. id \in Nat /\ id > 0
    BY <1>1, Limits DEF Ids
  <1>3. pw \in Pws
    BY DEF IInv, WebTypes
  <1>4. Fresh(id, stray) \in Records
    BY <1>1, <1>3, Limits DEF Fresh, Records, Digest
  <1> QED  BY <1>1, <1>2, <1>4 DEF Fresh, Digest

\* What authenticate() leaves in the registry: the fresh record and live ones
\* of other browsers, but for the one that gave way.
LEMMA GrantedRecords ==
    ASSUME NEW b, NEW id, NEW readable, NEW rec,
           registry' \in Evicted(Kept(jar[b], readable) \cup {rec})
    PROVE  /\ \A r \in registry' : r = rec \/ (r \in registry /\ r.id # jar[b])
           /\ \/ rec \in registry'
              \/ \A r \in registry' : rec.left <= r.left
  <1> DEFINE K == Kept(jar[b], readable) \cup {rec}
  <1>1. \A r \in K : r = rec \/ (r \in registry /\ r.id # jar[b])
    BY DEF Kept, Read
  <1>2. \/ registry' = K
        \/ \E r \in K : registry' = K \ {r} /\ \A t \in K : r.left <= t.left
    BY DEF Evicted
  <1>3. rec \in K
    OBVIOUS
  <1> HIDE DEF K
  <1>4. CASE registry' = K
    BY <1>1, <1>3, <1>4
  <1>5. CASE \E r \in K : registry' = K \ {r} /\ \A t \in K : r.left <= t.left
    BY <1>1, <1>3, <1>5
  <1> QED  BY <1>2, <1>4, <1>5

\* The registry with a fresh record, held by its browser or astray.
LEMMA LoginKeeps ==
    ASSUME IInv, up, NEW b \in Browsers, NEW id \in FreshIds, NEW readable, NEW stray \in BOOLEAN,
           registry' \in Evicted(Kept(jar[b], readable) \cup {Fresh(id, stray)}),
           UNCHANGED <<changes, pwFile, up, pw>>,
           jar' \in [Browsers -> Nat], stray \/ jar'[b] = id,
           \A c \in Browsers : c # b => jar'[c] = jar[c]
    PROVE  IInv'
  <1> DEFINE rec == Fresh(id, stray)
  <1>3. /\ id \in Nat /\ rec \in Records /\ rec.digest = rec.born /\ rec.id = id
        /\ rec.stray = stray /\ \A r \in registry : r.id # id
    BY FreshRecord
  <1>4. \A r \in registry' : r = rec \/ (r \in registry /\ r.id # jar[b])
    BY GrantedRecords
  <1> HIDE DEF rec
  <1>6. WebTypes'
    BY <1>3, <1>4 DEF IInv, WebTypes
  <1>7. BoundInv'
    BY <1>3, <1>4 DEF IInv, BoundInv
  <1>8. KeyInv'
    BY <1>3, <1>4 DEF IInv, KeyInv
  <1>9. HeldInv'
    <2> SUFFICES ASSUME NEW r \in registry', r.left > 0, ~r.stray
                 PROVE  \E c \in Browsers : jar'[c] = r.id
      BY DEF HeldInv
    <2>1. CASE r = rec
      BY <1>3, <2>1
    <2>2. CASE r \in registry /\ r.id # jar[b]
      <3>1. PICK c \in Browsers : jar[c] = r.id
        BY <2>2 DEF IInv, HeldInv
      <3>2. c # b
        BY <2>2, <3>1
      <3> QED  BY <3>1, <3>2
    <2> QED  BY <1>4, <2>1, <2>2
  <1> QED  BY <1>6, <1>7, <1>8, <1>9 DEF IInv

LEMMA GrantedKeeps ==
    ASSUME IInv, NEW b \in Browsers, NEW typed, LoginGranted(b, typed)
    PROVE  IInv'
  <1>1. UNCHANGED <<changes, pwFile, up, pw>> /\ up
    BY DEF LoginGranted, Attempted, disk
  <1>2. PICK id \in FreshIds, readable \in BOOLEAN :
           /\ registry' \in Evicted(Kept(jar[b], readable) \cup {Fresh(id, FALSE)})
           /\ Delivered(b, id, "none")
    BY DEF LoginGranted
  <1>3. id \in Nat
    BY <1>1, FreshRecord
  <1>4. /\ jar' \in [Browsers -> Nat] /\ jar'[b] = id
        /\ \A c \in Browsers : c # b => jar'[c] = jar[c]
    BY <1>2, <1>3, AnswerCookie DEF IInv
  <1> QED  BY <1>1, <1>2, <1>4, LoginKeeps

LEMMA StrayKeeps ==
    ASSUME IInv, NEW b \in Browsers, NEW typed, LoginStray(b, typed)
    PROVE  IInv' /\ jar' = jar
  <1>1. UNCHANGED <<changes, pwFile, up, pw>> /\ up
    BY DEF LoginStray, Attempted, disk
  <1>2. PICK id \in FreshIds, readable \in BOOLEAN :
           registry' \in Evicted(Kept(jar[b], readable) \cup {Fresh(id, TRUE)})
    BY DEF LoginStray
  <1>3. jar' = jar /\ jar \in [Browsers -> Nat]
    BY PageCookie DEF LoginStray, LoginPage, IInv, WebTypes
  <1> QED  BY <1>1, <1>2, <1>3, LoginKeeps

\* A record whose browser has lost its session.
Marked(r, id) == [r EXCEPT !.stray = @ \/ r.id = id]

LEMMA MarkedFields ==
    ASSUME NEW r \in Records, NEW id
    PROVE  /\ Marked(r, id) \in Records /\ Marked(r, id).id = r.id /\ Marked(r, id).left = r.left
           /\ Marked(r, id).digest = r.digest /\ Marked(r, id).born = r.born
           /\ (~Marked(r, id).stray => ~r.stray /\ r.id # id)
  <1>1. (r.stray \/ r.id = id) \in BOOLEAN
    BY Zenon
  <1> QED  BY <1>1 DEF Marked, Records

\* A browser drops the cookie of a session, whose record is marked if it stays.
LEMMA DropKeeps ==
    ASSUME IInv, NEW b \in Browsers, NEW records, records \subseteq registry,
           registry' = Strayed(records, jar[b]), jar' = [jar EXCEPT ![b] = 0],
           UNCHANGED <<changes, pwFile, up, pw>>
    PROVE  IInv'
  <1>1. \A r \in records : r \in registry /\ r \in Records
    BY DEF IInv, WebTypes
  <1>2. registry' = {Marked(r, jar[b]) : r \in records}
    BY DEF Strayed, Marked
  <1>3. jar \in [Browsers -> Nat] /\ jar' \in [Browsers -> Nat]
    BY DEF IInv, WebTypes
  <1>4. WebTypes'
    BY <1>1, <1>2, <1>3, MarkedFields DEF IInv, WebTypes
  <1>5. BoundInv'
    BY <1>1, <1>2, MarkedFields DEF IInv, BoundInv
  <1>6. KeyInv'
    <2> SUFFICES ASSUME NEW r \in registry', NEW s \in registry', r.id = s.id PROVE r = s
      BY DEF KeyInv
    <2>1. PICK q \in records : r = Marked(q, jar[b])
      BY <1>2
    <2>2. PICK t \in records : s = Marked(t, jar[b])
      BY <1>2
    <2>3. q.id = t.id
      BY <1>1, <2>1, <2>2, MarkedFields
    <2>4. q = t
      BY <1>1, <2>3 DEF IInv, KeyInv
    <2> QED  BY <2>1, <2>2, <2>4
  <1>7. HeldInv'
    <2> SUFFICES ASSUME NEW r \in registry', r.left > 0, ~r.stray
                 PROVE  \E c \in Browsers : jar'[c] = r.id
      BY DEF HeldInv
    <2>1. PICK q \in records : r = Marked(q, jar[b])
      BY <1>2
    <2>2. q.id = r.id /\ q.left > 0 /\ ~q.stray /\ q.id # jar[b]
      BY <1>1, <2>1, MarkedFields
    <2>3. PICK c \in Browsers : jar[c] = r.id
      BY <1>1, <2>2 DEF IInv, HeldInv
    <2> QED  BY <1>3, <2>2, <2>3
  <1> QED  BY <1>4, <1>5, <1>6, <1>7 DEF IInv

LEMMA LogoutKeeps ==
    ASSUME IInv, NEW b \in Browsers, Logout(b)
    PROVE  IInv' /\ (jar' = jar \/ jar' = [jar EXCEPT ![b] = 0])
  <1>1. UNCHANGED <<changes, pwFile, up, pw>>
    BY DEF Logout, disk
  <1>2. PICK records \in WriteRegistry(Revoked(jar[b])) :
          \/ registry' = Strayed(records, jar[b]) /\ jar' = [jar EXCEPT ![b] = 0]
          \/ registry' = records /\ jar' = jar
    BY DEF Logout
  <1>3. records \subseteq registry
    BY <1>2 DEF WriteRegistry, Revoked
  <1>4. CASE registry' = Strayed(records, jar[b]) /\ jar' = [jar EXCEPT ![b] = 0]
    BY <1>1, <1>3, <1>4, DropKeeps
  <1>5. CASE registry' = records /\ jar' = jar
    BY <1>1, <1>3, <1>5 DEF IInv, WebTypes, BoundInv, KeyInv, HeldInv
  <1> QED  BY <1>2, <1>4, <1>5

\* A second less on every record.
Worn(r) == [r EXCEPT !.left = IF @ > 0 THEN @ - 1 ELSE 0]

LEMMA WornFields ==
    ASSUME NEW r \in Records
    PROVE  /\ Worn(r) \in Records /\ Worn(r).id = r.id /\ Worn(r).digest = r.digest
           /\ Worn(r).born = r.born /\ Worn(r).stray = r.stray /\ (Worn(r).left > 0 => r.left > 0)
  BY Limits DEF Worn, Records

LEMMA TickKeeps ==
    ASSUME IInv, Tick
    PROVE  IInv'
  <1>1. /\ UNCHANGED <<changes, pwFile, up, pw, jar>>
        /\ registry' = {Worn(r) : r \in registry}
    BY DEF Tick, disk, Worn
  <1>2. \A r \in registry : r \in Records
    BY DEF IInv, WebTypes
  <1>3. WebTypes'
    BY <1>1, <1>2, WornFields DEF IInv, WebTypes
  <1>4. BoundInv'
    BY <1>1, <1>2, WornFields DEF IInv, BoundInv
  <1>5. KeyInv'
    <2> SUFFICES ASSUME NEW r \in registry', NEW s \in registry', r.id = s.id PROVE r = s
      BY DEF KeyInv
    <2>1. PICK q \in registry : r = Worn(q)
      BY <1>1
    <2>2. PICK t \in registry : s = Worn(t)
      BY <1>1
    <2>3. q.id = t.id
      BY <1>2, <2>1, <2>2, WornFields
    <2>4. q = t
      BY <2>3 DEF IInv, KeyInv
    <2> QED  BY <2>1, <2>2, <2>4
  <1>6. HeldInv'
    <2> SUFFICES ASSUME NEW r \in registry', r.left > 0, ~r.stray
                 PROVE  \E c \in Browsers : jar[c] = r.id
      BY <1>1 DEF HeldInv
    <2>1. PICK q \in registry : r = Worn(q)
      BY <1>1
    <2>2. q.id = r.id /\ q.left > 0 /\ ~q.stray
      BY <1>2, <2>1, WornFields
    <2> QED  BY <2>2 DEF IInv, HeldInv
  <1> QED  BY <1>3, <1>4, <1>5, <1>6 DEF IInv

\* The handlers that log nobody in or out.
LEMMA OtherHandlers ==
    ASSUME IInv, NEW b \in Browsers,
           \/ Refused(b) \/ LoginGet(b) \/ LoginLimited(b) \/ LoginExpired(b)
           \/ LoginRefused(b) \/ PageGet(b) \/ NotFound(b)
           \/ PlainPost(b) \/ RebootPost(b) \/ DiagnosticsPost(b) \/ DownloadPost(b)
    PROVE  IInv' /\ UNCHANGED <<registry, up, pw>> /\ (Redirect \/ \E form : Answer(b, form))
  <1>1. UNCHANGED <<disk, registry, up, pw>>
    BY DEF Refused, LoginGet, LoginLimited, LoginExpired, LoginRefused, PageGet, NotFound,
           PlainPost, RebootPost, DiagnosticsPost, DownloadPost
  <1>2. Redirect \/ SessionPage(b) \/ LoginPage(b)
    BY DEF Refused, LoginGet, LoginLimited, LoginExpired, LoginRefused, PageGet, NotFound,
           PlainPost, RebootPost, DiagnosticsPost, DownloadPost
  <1>3. Redirect \/ Answer(b, "session") \/ Answer(b, "login")
    BY <1>2 DEF SessionPage, LoginPage
  <1>4. IInv'
    BY <1>1, <1>3, PageKeeps
  <1> QED  BY <1>1, <1>3, <1>4

LEMMA HandleKeeps ==
    ASSUME IInv, NEW b \in Browsers, Handle(b)
    PROVE  IInv'
  <1>1. CASE \E p \in Passwords : LoginGranted(b, p) \/ LoginStray(b, p)
    BY <1>1, GrantedKeeps, StrayKeeps
  <1>2. CASE Logout(b)
    BY <1>2, LogoutKeeps
  <1>3. CASE ~(\E p \in Passwords : LoginGranted(b, p) \/ LoginStray(b, p)) /\ ~Logout(b)
    BY <1>3, OtherHandlers DEF Handle
  <1> QED  BY <1>1, <1>2, <1>3

LEMMA NextKeeps == IInv /\ [Next]_vars => IInv'
  <1> SUFFICES ASSUME IInv, [Next]_vars PROVE IInv'
    OBVIOUS
  <1>0. WebTypes
    BY DEF IInv
  <1>1. CASE \E p \in Passwords : Initialize(p) \/ SetPassword(p)
    <2>1. PICK p \in Passwords : Initialize(p) \/ SetPassword(p)
      BY <1>1
    <2>2. /\ UNCHANGED <<registry, jar, up, pw>>
          /\ \/ pwFile' = Stored(p) /\ changes' = changes + 1
             \/ UNCHANGED <<pwFile, changes>>
      BY <2>1 DEF Initialize, SetPassword
    <2> QED  BY <1>0, <2>2, StoredType, SessionsSame DEF WebTypes
  <1>2. CASE Serve
    <2>1. UNCHANGED <<registry, jar, pwFile, changes>> /\ up' = TRUE
      BY <1>2 DEF Serve, disk
    <2>2. pw' \in Pws
      BY <1>0, <1>2, StoredType DEF Serve, WebTypes
    <2> QED  BY <1>0, <2>1, <2>2, SessionsSame DEF WebTypes
  <1>3. CASE Stop
    <2>1. UNCHANGED <<registry, jar, pwFile, changes>> /\ up' = FALSE
      BY <1>3 DEF Stop, disk
    <2> QED  BY <1>0, <2>1, SessionsSame DEF WebTypes
  <1>4. CASE Tick
    BY <1>4, TickKeeps
  <1>5. CASE \E b \in Browsers : Handle(b)
    BY <1>5, HandleKeeps
  <1>6. CASE \E b \in Browsers : Forget(b)
    <2>1. PICK b \in Browsers : Forget(b)
      BY <1>6
    <2>2. /\ UNCHANGED <<pwFile, changes, up, pw>> /\ registry' = Strayed(registry, jar[b])
          /\ jar' = [jar EXCEPT ![b] = 0]
      BY <2>1 DEF Forget, disk
    <2> QED  BY <2>2, DropKeeps
  <1>7. CASE UNCHANGED vars
    BY <1>0, <1>7, SessionsSame DEF vars, disk, WebTypes
  <1> QED  BY <1>1, <1>2, <1>3, <1>4, <1>5, <1>6, <1>7 DEF Next
--------------------------------------------------------------------------------
\* The invariant of auth.rs: every record carries the digest of the password it
\* was made under, no two share a session, and one in time that did not go
\* astray is held by a browser.
THEOREM SessionInvariant == Spec => []IInv
  <1>1. Init => IInv
    BY InitIInv
  <1>2. IInv /\ [Next]_vars => IInv'
    BY NextKeeps
  <1> QED  BY <1>1, <1>2, PTL DEF Spec

\* is_current() accepts a session only under the very password it was made
\* with, however often the password was changed and the server restarted.
THEOREM SessionsDieWithThePassword == Spec => []SessionsFollowPassword
  <1>1. IInv => SessionsFollowPassword
    <2> SUFFICES ASSUME IInv, up, NEW r \in registry, IsCurrent(r.id, TRUE) PROVE r.born = pw
      BY DEF SessionsFollowPassword
    <2>1. PICK s \in registry : s.id = r.id /\ Live(s)
      BY DEF IsCurrent, Read
    <2>2. s = r
      BY <2>1 DEF IInv, KeyInv
    <2> QED  BY <2>1, <2>2 DEF IInv, BoundInv, Live, Digest
  <1> QED  BY <1>1, SessionInvariant, PTL

\* login_post() and logout() leave no usable session behind that no browser
\* holds, but for the ones whose own cookie was lost or forgotten, or whose
\* write or revocation was reported as failed: one session astray excuses no
\* other.
THEOREM NoSessionIsOrphaned == Spec => []NoOrphanSession
  <1>1. IInv => NoOrphanSession
    BY DEF IInv, HeldInv, NoOrphanSession, Live
  <1> QED  BY <1>1, SessionInvariant, PTL

\* A session cookie that arrives is good: authenticate() evicts the fresh
\* record only when every record kept expires at the same second.
THEOREM LoginsStick == Spec => LoginSticks
  <1>1. IInv /\ [Next]_vars =>
          [\A b \in Browsers :
             jar'[b] \notin {0, jar[b]} =>
               \/ IsCurrent(jar[b], TRUE)'
               \/ \A r \in registry' : r.left = Lifetime]_vars
    <2> SUFFICES ASSUME IInv, Next, NEW b \in Browsers, jar'[b] \notin {0, jar[b]}
                 PROVE  \/ IsCurrent(jar[b], TRUE)'
                        \/ \A r \in registry' : r.left = Lifetime
      OBVIOUS
    <2>0. WebTypes /\ jar \in [Browsers -> Nat]
      BY DEF IInv, WebTypes
    <2>1. PICK c \in Browsers, p \in Passwords : LoginGranted(c, p)
      <3>1. CASE \E q \in Passwords : Initialize(q) \/ SetPassword(q)
        BY <3>1 DEF Initialize, SetPassword
      <3>2. CASE Serve \/ Stop \/ Tick
        BY <3>2 DEF Serve, Stop, Tick
      <3>3. CASE \E c \in Browsers : Forget(c)
        BY <2>0, <3>3 DEF Forget
      <3>4. ASSUME NEW c \in Browsers, Logout(c) PROVE FALSE
        BY <2>0, <3>4, LogoutKeeps
      <3>6. ASSUME NEW c \in Browsers, NEW q \in Passwords, LoginStray(c, q) PROVE FALSE
        BY <3>6, StrayKeeps
      <3>5. ASSUME NEW c \in Browsers, Handle(c), ~Logout(c),
                   ~(\E q \in Passwords : LoginGranted(c, q) \/ LoginStray(c, q))
            PROVE  FALSE
        <4>1. Redirect \/ \E form : Answer(c, form)
          BY <3>5, OtherHandlers DEF Handle
        <4> QED  BY <2>0, <4>1, PageCookie DEF Redirect
      <3> QED  BY <3>1, <3>2, <3>3, <3>4, <3>5, <3>6 DEF Next
    <2>2. PICK id \in FreshIds, readable \in BOOLEAN :
             /\ registry' \in Evicted(Kept(jar[c], readable) \cup {Fresh(id, FALSE)})
             /\ Delivered(c, id, "none")
      BY <2>1 DEF LoginGranted
    <2>3. up /\ pw' = pw
      BY <2>1 DEF LoginGranted, Attempted
    <2> DEFINE rec == Fresh(id, FALSE)
    <2>4. /\ id \in Nat /\ id > 0 /\ rec \in Records /\ rec.id = id /\ rec.left = Lifetime
          /\ rec.digest = Digest(pw)
      BY <2>3, FreshRecord
    <2>5. jar'[b] = id
      BY <2>0, <2>2, <2>4, AnswerCookie
    <2>6. rec \in registry' \/ \A r \in registry' : rec.left <= r.left
      BY <2>2, GrantedRecords
    <2> HIDE DEF rec
    <2>7. CASE rec \in registry'
      <3>1. PICK r \in registry' : r = rec
        BY <2>7
      <3>2. r.id = jar'[b] /\ r.left > 0 /\ r.digest = pw' /\ jar'[b] # 0
        BY <2>3, <2>4, <2>5, <3>1, Limits DEF Digest
      <3>3. IsCurrent(jar[b], TRUE)'
        BY <3>2 DEF IsCurrent, Read, Live, Digest
      <3> QED  BY <3>3
    <2>8. CASE \A r \in registry' : rec.left <= r.left
      <3>1. \A r \in registry' : r \in Records
        BY NextKeeps DEF IInv, WebTypes
      <3>2. \A r \in registry' : r.left \in 0..Lifetime
        BY <3>1 DEF Records
      <3>3. \A r \in registry' : Lifetime <= r.left
        BY <2>4, <2>8
      <3>4. \A n \in 0..Lifetime : Lifetime <= n => n = Lifetime
        BY Limits
      <3> QED  BY <3>2, <3>3, <3>4
    <2> QED  BY <2>6, <2>7, <2>8
  <1> QED  BY <1>1, SessionInvariant, PTL DEF Spec, LoginSticks

--------------------------------------------------------------------------------
(* The failed logins of an address and of them all.                        *)

\* A set of naturals has a least element.
LEMMA Least ==
    ASSUME NEW T \in SUBSET Nat, T # {}
    PROVE  \E x \in T : \A y \in T : x <= y
  <1> DEFINE R == {p \in Nat \X Nat : p[1] < p[2]}
  <1>1. IsWellFoundedOn(R, Nat)
    BY NatLessThanWellFounded DEF OpToRel
  <1>2. \A x, y \in Nat : y < x => <<y, x>> \in R
    OBVIOUS
  <1> HIDE DEF R
  <1>3. PICK x \in T : \A y \in T : ~(<<y, x>> \in R)
    BY <1>1, WFMin
  <1>4. \A y \in T : x \in Nat /\ y \in Nat /\ ~(y < x)
    BY <1>2, <1>3
  <1> QED  BY <1>4

Pos == Nat \ {0}

\* How many of the first n entries have more than v left.
Beyond(s, n, v) == {i \in 1..n : s[i] > v}
Above(s, v)   == Cardinality(Beyond(s, Len(s), v))

LEMMA OverFinite ==
    ASSUME NEW s, NEW n \in Nat, NEW v
    PROVE  IsFiniteSet(Beyond(s, n, v)) /\ Cardinality(Beyond(s, n, v)) \in Nat
  <1>1. IsFiniteSet(1..n)
    BY FS_Interval
  <1>2. Beyond(s, n, v) \subseteq 1..n
    BY DEF Beyond
  <1>3. IsFiniteSet(Beyond(s, n, v))
    BY <1>1, <1>2, FS_Subset
  <1> QED  BY <1>3, FS_CardinalityType

\* One entry more.
LEMMA OverNext ==
    ASSUME NEW s, NEW n \in Nat, NEW v
    PROVE  Cardinality(Beyond(s, n + 1, v)) =
               Cardinality(Beyond(s, n, v)) + (IF s[n + 1] > v THEN 1 ELSE 0)
  <1>1. IsFiniteSet(Beyond(s, n, v)) /\ Cardinality(Beyond(s, n, v)) \in Nat
    BY OverFinite
  <1>2. CASE s[n + 1] > v
    <2>1. Beyond(s, n + 1, v) = Beyond(s, n, v) \cup {n + 1}
      <3>1. ASSUME NEW x \in Beyond(s, n + 1, v) PROVE x \in Beyond(s, n, v) \cup {n + 1}
        BY DEF Beyond
      <3>2. ASSUME NEW x \in Beyond(s, n, v) \cup {n + 1} PROVE x \in Beyond(s, n + 1, v)
        BY <1>2 DEF Beyond
      <3> QED  BY <3>1, <3>2
    <2>2. n + 1 \notin Beyond(s, n, v)
      BY DEF Beyond
    <2> QED  BY <1>1, <1>2, <2>1, <2>2, FS_AddElement
  <1>3. CASE ~(s[n + 1] > v)
    <2>1. Beyond(s, n + 1, v) = Beyond(s, n, v)
      <3>1. ASSUME NEW x \in Beyond(s, n + 1, v) PROVE x \in Beyond(s, n, v)
        BY <1>3 DEF Beyond
      <3>2. ASSUME NEW x \in Beyond(s, n, v) PROVE x \in Beyond(s, n + 1, v)
        BY DEF Beyond
      <3> QED  BY <3>1, <3>2
    <2> QED  BY <1>1, <1>3, <2>1
  <1> QED  BY <1>2, <1>3

LEMMA AboveAppend ==
    ASSUME NEW s \in Seq(Nat), NEW w \in Nat, NEW v
    PROVE  Above(Append(s, w), v) = Above(s, v) + (IF w > v THEN 1 ELSE 0)
  <1> DEFINE a == Append(s, w)
  <1>1. Len(s) \in Nat /\ Len(a) = Len(s) + 1 /\ a[Len(s) + 1] = w /\ \A i \in 1..Len(s) : a[i] = s[i]
    OBVIOUS
  <1> HIDE DEF a
  <1>2. Beyond(a, Len(s), v) = Beyond(s, Len(s), v)
    BY <1>1 DEF Beyond
  <1>3. Cardinality(Beyond(a, Len(s) + 1, v)) =
            Cardinality(Beyond(a, Len(s), v)) + (IF a[Len(s) + 1] > v THEN 1 ELSE 0)
    BY <1>1, OverNext
  <1>4. Above(a, v) = Above(s, v) + (IF w > v THEN 1 ELSE 0)
    BY <1>1, <1>2, <1>3 DEF Above
  <1> QED  BY <1>4 DEF a

\* The stages of retain(): g[i] is what is left of the first i entries.
Retains(g, s, n) ==
    /\ g[0] = << >>
    /\ \A i \in 1..n : g[i] = IF s[i] > 0 THEN Append(g[i - 1], s[i]) ELSE g[i - 1]

LEMMA RetainsExist ==
    ASSUME NEW s \in Seq(Nat), NEW n \in 0..Len(s)
    PROVE  \E g \in [0..n -> Seq(Pos)] : Retains(g, s, n)
  <1> DEFINE Has(k) == \E g \in [0..k -> Seq(Pos)] : Retains(g, s, k)
  <1> DEFINE T == {k \in Nat : k <= Len(s) /\ ~Has(k)}
  <1>0. Len(s) \in Nat
    OBVIOUS
  <1> HIDE DEF Has
  <1> SUFFICES ASSUME T # {} PROVE FALSE
    <2>1. n \in Nat /\ n <= Len(s)
      BY <1>0
    <2>2. Has(n) => \E g \in [0..n -> Seq(Pos)] : Retains(g, s, n)
      BY DEF Has
    <2> QED  BY <2>1, <2>2
  <1>1. PICK k \in T : \A j \in T : k <= j
    <2>1. T \in SUBSET Nat
      OBVIOUS
    <2> QED  BY <2>1, Least
  <1>2. k # 0
    <2>1. << >> \in Seq(Pos)
      OBVIOUS
    <2>2. [i \in 0..0 |-> << >>] \in [0..0 -> Seq(Pos)]
      BY <2>1
    <2>3. Retains([i \in 0..0 |-> << >>], s, 0)
      BY DEF Retains
    <2>4. Has(0)
      BY <2>2, <2>3 DEF Has
    <2> QED  BY <2>4
  <1>3. k \in Nat /\ k - 1 \in Nat /\ k \in 1..Len(s) /\ k - 1 <= Len(s)
    BY <1>0, <1>1, <1>2
  <1>4. PICK g \in [0..k - 1 -> Seq(Pos)] : Retains(g, s, k - 1)
    <2>1. Has(k - 1)
      BY <1>1, <1>3
    <2> QED  BY <2>1 DEF Has
  <1> DEFINE last == IF s[k] > 0 THEN Append(g[k - 1], s[k]) ELSE g[k - 1]
             h == [i \in 0..k |-> IF i = k THEN last ELSE g[i]]
  <1>5. s[k] \in Nat /\ g[k - 1] \in Seq(Pos)
    BY <1>3, <1>4
  <1>6. last \in Seq(Pos)
    <2>1. CASE s[k] > 0
      <3>1. s[k] \in Pos
        BY <1>5, <2>1 DEF Pos
      <3> QED  BY <1>5, <2>1, <3>1
    <2> QED  BY <1>5, <2>1
  <1> HIDE DEF last
  <1>7. h \in [0..k -> Seq(Pos)]
    BY <1>3, <1>4, <1>6
  <1>8. Retains(h, s, k)
    <2>1. h[0] = << >>
      BY <1>3, <1>4 DEF Retains
    <2>2. ASSUME NEW i \in 1..k
          PROVE  h[i] = IF s[i] > 0 THEN Append(h[i - 1], s[i]) ELSE h[i - 1]
      <3>1. CASE i = k
        BY <1>3, <3>1 DEF last
      <3>2. CASE i # k
        <4>1. i \in 1..k - 1 /\ i - 1 \in 0..k - 1
          BY <1>3, <3>2
        <4>2. h[i] = g[i] /\ h[i - 1] = g[i - 1]
          BY <1>3, <4>1
        <4> QED  BY <1>4, <4>1, <4>2 DEF Retains
      <3> QED  BY <3>1, <3>2
    <2> QED  BY <2>1, <2>2 DEF Retains
  <1>9. Has(k)
    BY <1>7, <1>8 DEF Has
  <1> QED  BY <1>1, <1>9

LEMMA RetainsAgree ==
    ASSUME NEW s \in Seq(Nat), NEW f, NEW g, Retains(f, s, Len(s)), Retains(g, s, Len(s)),
           NEW n \in 0..Len(s)
    PROVE  f[n] = g[n]
  <1> DEFINE T == {k \in Nat : k <= Len(s) /\ f[k] # g[k]}
  <1>0. Len(s) \in Nat
    OBVIOUS
  <1> SUFFICES ASSUME T # {} PROVE FALSE
    BY <1>0
  <1>1. PICK k \in T : \A j \in T : k <= j
    <2>1. T \in SUBSET Nat
      OBVIOUS
    <2> QED  BY <2>1, Least
  <1>2. k # 0
    BY DEF Retains
  <1>3. k - 1 \in Nat /\ k \in 1..Len(s) /\ k - 1 <= Len(s)
    BY <1>0, <1>1, <1>2
  <1>4. f[k - 1] = g[k - 1]
    BY <1>1, <1>3
  <1>5. f[k] = g[k]
    BY <1>3, <1>4 DEF Retains
  <1> QED  BY <1>1, <1>5

LEMMA AgedIs ==
    ASSUME NEW s \in Seq(Nat)
    PROVE  \E g \in [0..Len(s) -> Seq(Pos)] : Retains(g, s, Len(s)) /\ Aged(s) = g[Len(s)]
  <1> DEFINE body(f) == [i \in 0..Len(s) |->
                            IF i = 0 THEN << >>
                            ELSE IF s[i] > 0 THEN Append(f[i - 1], s[i]) ELSE f[i - 1]]
  <1>0. Len(s) \in Nat
    OBVIOUS
  <1>1. PICK h \in [0..Len(s) -> Seq(Pos)] : Retains(h, s, Len(s))
    BY <1>0, RetainsExist
  <1>2. h = body(h)
    <2>1. ASSUME NEW i \in 0..Len(s) PROVE h[i] = body(h)[i]
      <3>1. CASE i = 0
        BY <1>1, <3>1 DEF Retains
      <3>2. CASE i \in 1..Len(s)
        BY <1>1, <3>2 DEF Retains
      <3> QED  BY SMTT(30), <1>0, <3>1, <3>2
    <2>2. DOMAIN h = DOMAIN body(h) /\ h = [i \in DOMAIN h |-> h[i]] /\ DOMAIN h = 0..Len(s)
      BY <1>1
    <2> HIDE DEF body
    <2>3. h = [i \in 0..Len(s) |-> body(h)[i]]
      BY SMTT(30), <2>1, <2>2
    <2> QED  BY <2>3 DEF body
  <1> DEFINE f == CHOOSE f : f = body(f)
  <1>3. f = body(f)
    BY <1>2
  <1>4. Aged(s) = f[Len(s)]
    BY DEF Aged
  <1> HIDE DEF f
  <1>5. Retains(f, s, Len(s))
    <2>1. ASSUME NEW i \in 0..Len(s) PROVE f[i] = body(f)[i]
      BY <1>3
    <2>2. body(f)[0] = << >>
      BY <1>0
    <2>3. ASSUME NEW i \in 1..Len(s)
          PROVE  body(f)[i] = IF s[i] > 0 THEN Append(f[i - 1], s[i]) ELSE f[i - 1]
      BY <1>0
    <2> HIDE DEF body
    <2>4. f[0] = << >>
      BY <1>0, <2>1, <2>2
    <2>5. \A i \in 1..Len(s) : f[i] = IF s[i] > 0 THEN Append(f[i - 1], s[i]) ELSE f[i - 1]
      BY <1>0, <2>1, <2>3
    <2> QED  BY <2>4, <2>5 DEF Retains
  <1>6. f[Len(s)] = h[Len(s)]
    BY <1>0, <1>1, <1>5, RetainsAgree
  <1> QED  BY <1>1, <1>4, <1>6

\* retain() keeps as many entries above any age as there were.
LEMMA AgedCounts ==
    ASSUME NEW s \in Seq(Nat), NEW v \in Nat
    PROVE  Aged(s) \in Seq(Pos) /\ Above(Aged(s), v) = Above(s, v)
  <1>0. Len(s) \in Nat
    OBVIOUS
  <1>1. PICK g \in [0..Len(s) -> Seq(Pos)] : Retains(g, s, Len(s)) /\ Aged(s) = g[Len(s)]
    BY AgedIs
  <1> DEFINE Same(k) == Above(g[k], v) = Cardinality(Beyond(s, k, v))
             T == {k \in Nat : k <= Len(s) /\ ~Same(k)}
  <1>2. T = {}
    <2> SUFFICES ASSUME T # {} PROVE FALSE
      OBVIOUS
    <2> HIDE DEF Same
    <2>1. PICK k \in T : \A j \in T : k <= j
      <3>1. T \in SUBSET Nat
        OBVIOUS
      <3> QED  BY <3>1, Least
    <2>2. k # 0
      <3>1. g[0] = << >> /\ Len(<< >>) = 0
        BY <1>1 DEF Retains
      <3>2. Beyond(<< >>, 0, v) = {} /\ Beyond(s, 0, v) = {}
        BY DEF Beyond
      <3>3. Same(0)
        BY <3>1, <3>2 DEF Same, Above
      <3> QED  BY <3>3
    <2>3. k - 1 \in Nat /\ k \in 1..Len(s) /\ k - 1 \in 0..Len(s) /\ k - 1 <= Len(s) /\ k = (k - 1) + 1
      BY <1>0, <2>1, <2>2
    <2>4. Same(k - 1)
      BY <2>1, <2>3
    <2>5. Cardinality(Beyond(s, k, v)) =
              Cardinality(Beyond(s, k - 1, v)) + (IF s[k] > v THEN 1 ELSE 0)
      BY ZenonT(40), <2>3, OverNext
    <2>6. g[k - 1] \in Seq(Pos) /\ s[k] \in Nat /\ Cardinality(Beyond(s, k - 1, v)) \in Nat
      <3>1. Cardinality(Beyond(s, k - 1, v)) \in Nat
        BY <2>3, OverFinite
      <3>2. s[k] \in Nat
        BY <2>3
      <3>3. g[k - 1] \in Seq(Pos)
        BY <1>1, <2>3
      <3> QED  BY <3>1, <3>2, <3>3
    <2>7. g[k - 1] \in Seq(Nat)
      BY SMTT(30), <2>6 DEF Pos
    <2>8. CASE s[k] > 0
      <3>1. g[k] = Append(g[k - 1], s[k])
        BY <1>1, <2>3, <2>8 DEF Retains
      <3>2. Above(g[k], v) = Above(g[k - 1], v) + (IF s[k] > v THEN 1 ELSE 0)
        BY SMTT(30), <2>6, <2>7, <3>1, AboveAppend
      <3>3. Same(k)
        BY <2>4, <2>5, <3>2 DEF Same
      <3> QED  BY <2>1, <3>3
    <2>9. CASE ~(s[k] > 0)
      <3>1. g[k] = g[k - 1] /\ ~(s[k] > v)
        BY SMTT(30), <1>1, <2>3, <2>6, <2>9 DEF Retains
      <3>2. Same(k)
        BY <2>4, <2>5, <2>6, <3>1 DEF Same
      <3> QED  BY <2>1, <3>2
    <2> QED  BY <2>8, <2>9
  <1>3. Same(Len(s))
    <2> HIDE DEF Same
    <2> QED  BY <1>0, <1>2
  <1>4. Aged(s) \in Seq(Pos)
    BY <1>0, <1>1
  <1> QED  BY <1>1, <1>3, <1>4 DEF Above

LEMMA Interval ==
    ASSUME NEW n \in Nat
    PROVE  IsFiniteSet(1..n) /\ Cardinality(1..n) = n
  <1>1. IsFiniteSet(1..n) /\ Cardinality(1..n) = IF 1 > n THEN 0 ELSE n - 1 + 1
    BY FS_Interval
  <1> QED  BY <1>1

\* What is left after retain() is what was above nothing.
LEMMA PositiveCount ==
    ASSUME NEW s \in Seq(Pos)
    PROVE  Above(s, 0) = Len(s) /\ s \in Seq(Nat)
  <1>1. Len(s) \in Nat /\ \A i \in 1..Len(s) : s[i] \in Pos
    OBVIOUS
  <1>2. \A i \in 1..Len(s) : s[i] > 0
    BY <1>1 DEF Pos
  <1>3. Beyond(s, Len(s), 0) = 1..Len(s)
    BY <1>2 DEF Beyond
  <1>4. Cardinality(1..Len(s)) = Len(s)
    BY <1>1, Interval
  <1> QED  BY <1>3, <1>4 DEF Above, Pos

LEMMA AgedLength ==
    ASSUME NEW s \in Seq(Nat)
    PROVE  Len(Aged(s)) = Above(s, 0) /\ Above(s, 0) <= Len(s) /\ Above(s, 0) \in Nat
  <1>1. Aged(s) \in Seq(Pos) /\ Above(Aged(s), 0) = Above(s, 0)
    BY AgedCounts
  <1>2. IsFiniteSet(1..Len(s)) /\ Cardinality(1..Len(s)) = Len(s) /\ Len(s) \in Nat
    BY Interval
  <1>3. Beyond(s, Len(s), 0) \subseteq 1..Len(s)
    BY DEF Beyond
  <1>4. Above(s, 0) <= Len(s) /\ Above(s, 0) \in Nat
    BY <1>2, <1>3, FS_Subset, FS_CardinalityType DEF Above
  <1> QED  BY <1>1, <1>4, PositiveCount

LEMMA OlderCounts ==
    ASSUME NEW s \in Seq(Nat), NEW v \in Nat
    PROVE  Older(s) \in Seq(Nat) /\ Len(Older(s)) = Len(s) /\ Above(Older(s), v) = Above(s, v + 1)
  <1>1. Len(s) \in Nat /\ DOMAIN s = 1..Len(s) /\ \A i \in 1..Len(s) : s[i] \in Nat
    OBVIOUS
  <1>2. Older(s) \in [1..Len(s) -> Nat]
    BY <1>1 DEF Older
  <1>3. Older(s) \in Seq(Nat) /\ Len(Older(s)) = Len(s)
    BY <1>1, <1>2
  <1>4. \A i \in 1..Len(s) : Older(s)[i] > v <=> s[i] > v + 1
    BY <1>1 DEF Older
  <1>5. Beyond(Older(s), Len(s), v) = Beyond(s, Len(s), v + 1)
    BY <1>4 DEF Beyond
  <1> QED  BY <1>3, <1>5 DEF Above

LEMMA AboveType ==
    ASSUME NEW s \in Seq(Nat), NEW v
    PROVE  Above(s, v) \in Nat
  BY OverFinite DEF Above
--------------------------------------------------------------------------------
Login(b) == <<"login", b>>

\* The limiter remembers every guess it let through for as long as it counts:
\* of any age, there are no more of them than the login key has entries.
GuessInv ==
    /\ rates \in [Keys -> Seq(Nat)] /\ tries \in [Browsers -> Seq(Pos)]
    /\ \A b \in Browsers, v \in Nat : Above(tries[b], v) <= Above(rates[Login(b)], v)
    /\ GuessesBounded

LEMMA LimiterConstants == Window \in Pos /\ Window \in Nat /\ LoginCount \in Nat
  BY WebAccessAssumption DEF Pos

\* allow(), for any key: nothing that still counts is forgotten.
LEMMA AllowCounts ==
    ASSUME rates \in [Keys -> Seq(Nat)], NEW k \in Keys
    PROVE  /\ Allow(k).rates \in [Keys -> Seq(Nat)]
           /\ \A j \in Keys, v \in Nat : Above(rates[j], v) <= Above(Allow(k).rates[j], v)
           /\ Allow(k).ok =>
                /\ Above(rates[k], 0) < LoginCount
                /\ \A v \in Nat : Above(Allow(k).rates[k], v) =
                                      Above(rates[k], v) + (IF Window > v THEN 1 ELSE 0)
  <1>1. /\ Pruned \in [Keys -> Seq(Nat)]
        /\ \A j \in Keys : Pruned[j] = Aged(rates[j]) /\ rates[j] \in Seq(Nat)
        /\ \A j \in Keys, v \in Nat : Above(Pruned[j], v) = Above(rates[j], v)
    <2>1. \A j \in Keys : rates[j] \in Seq(Nat)
      OBVIOUS
    <2>2. \A j \in Keys : Aged(rates[j]) \in Seq(Pos)
      BY <2>1, AgedCounts
    <2>3. \A j \in Keys : Aged(rates[j]) \in Seq(Nat)
      BY <2>2, PositiveCount
    <2>4. Pruned \in [Keys -> Seq(Nat)] /\ \A j \in Keys : Pruned[j] = Aged(rates[j])
      BY <2>3 DEF Pruned
    <2>5. \A j \in Keys, v \in Nat : Above(Aged(rates[j]), v) = Above(rates[j], v)
      BY <2>1, AgedCounts
    <2> QED  BY <2>1, <2>4, <2>5
  <1>2. Allow(k).ok = (Room(k) /\ Len(Pruned[k]) < LoginCount)
        /\ Allow(k).rates = IF Allow(k).ok THEN [Pruned EXCEPT ![k] = Append(@, Window)] ELSE Pruned
    BY DEF Allow
  <1>3. \A j \in Keys, v \in Nat : Above(rates[j], v) \in Nat
    BY <1>1, AboveType
  <1>4. CASE ~Allow(k).ok
    <2>1. Allow(k).rates = Pruned
      BY <1>2, <1>4
    <2>2. \A j \in Keys, v \in Nat : Above(rates[j], v) <= Above(Pruned[j], v)
      BY <1>1, <1>3
    <2> QED  BY <1>1, <1>4, <2>1, <2>2
  <1>5. CASE Allow(k).ok
    <2>1. Allow(k).rates = [Pruned EXCEPT ![k] = Append(Pruned[k], Window)]
      BY <1>2, <1>5
    <2>2. Pruned[k] \in Seq(Nat) /\ Append(Pruned[k], Window) \in Seq(Nat)
      BY <1>1, LimiterConstants
    <2>3. /\ Allow(k).rates \in [Keys -> Seq(Nat)]
          /\ Allow(k).rates[k] = Append(Pruned[k], Window)
          /\ \A j \in Keys : j # k => Allow(k).rates[j] = Pruned[j]
      BY <1>1, <2>1, <2>2
    <2>4. \A v \in Nat : Above(Allow(k).rates[k], v) =
                             Above(rates[k], v) + (IF Window > v THEN 1 ELSE 0)
      BY <1>1, <2>2, <2>3, AboveAppend, LimiterConstants
    <2>5. Above(rates[k], 0) < LoginCount
      <3>1. Len(Pruned[k]) = Above(rates[k], 0)
        BY <1>1, AgedLength
      <3> QED  BY <1>2, <1>5, <3>1
    <2>6. ASSUME NEW j \in Keys, NEW v \in Nat
          PROVE  Above(rates[j], v) <= Above(Allow(k).rates[j], v)
      <3>1. Above(rates[j], v) \in Nat
        BY <1>3
      <3>2. CASE j = k
        <4>1. Above(Allow(k).rates[k], v) = Above(rates[k], v) + (IF Window > v THEN 1 ELSE 0)
          BY <2>4
        <4> QED  BY <3>1, <3>2, <4>1
      <3>3. CASE j # k
        BY <1>1, <2>3, <3>1, <3>3
      <3> QED  BY <3>2, <3>3
    <2> QED  BY <2>3, <2>4, <2>5, <2>6
  <1> QED  BY <1>4, <1>5

LEMMA LoginKey ==
    ASSUME NEW b \in Browsers
    PROVE  Login(b) \in Keys
  BY DEF Login, Keys, Scopes

\* A step that verifies nothing, but may count an attempt.
LEMMA CountedOnly ==
    ASSUME GuessInv, UNCHANGED tries, UNCHANGED rates \/ \E k \in Keys : rates' = Allow(k).rates
    PROVE  GuessInv'
  <1>0. rates \in [Keys -> Seq(Nat)]
    BY DEF GuessInv
  <1>1. CASE UNCHANGED rates
    BY <1>1 DEF GuessInv, GuessesBounded
  <1>2. CASE \E k \in Keys : rates' = Allow(k).rates
    <2>1. PICK k \in Keys : rates' = Allow(k).rates
      BY <1>2
    <2>2. rates' \in [Keys -> Seq(Nat)]
          /\ \A j \in Keys, v \in Nat : Above(rates[j], v) <= Above(rates'[j], v)
      BY <1>0, <2>1, AllowCounts
    <2>3. ASSUME NEW b \in Browsers, NEW v \in Nat
          PROVE  Above(tries[b], v) <= Above(rates'[Login(b)], v)
      <3>1. Login(b) \in Keys
        BY LoginKey
      <3>2. /\ Above(tries[b], v) <= Above(rates[Login(b)], v)
            /\ Above(rates[Login(b)], v) <= Above(rates'[Login(b)], v)
        BY <2>2, <3>1 DEF GuessInv
      <3>3. tries[b] \in Seq(Nat) /\ rates[Login(b)] \in Seq(Nat) /\ rates'[Login(b)] \in Seq(Nat)
        BY <1>0, <2>2, <3>1, PositiveCount DEF GuessInv
      <3>4. /\ Above(tries[b], v) \in Nat /\ Above(rates[Login(b)], v) \in Nat
            /\ Above(rates'[Login(b)], v) \in Nat
        BY <3>3, AboveType
      <3> QED  BY <3>2, <3>4
    <2> QED  BY <2>2, <2>3 DEF GuessInv, GuessesBounded
  <1> QED  BY <1>1, <1>2

\* A guess is verified only on an attempt that counts.
LEMMA VerifiedCounts ==
    ASSUME GuessInv, NEW b \in Browsers, Attempted(b), Verified(b)
    PROVE  GuessInv'
  <1>0. rates \in [Keys -> Seq(Nat)] /\ tries \in [Browsers -> Seq(Pos)] /\ Login(b) \in Keys
    BY LoginKey DEF GuessInv
  <1> DEFINE k == Login(b)
             guess == Append(Aged(tries[b]), Window)
  <1>1. rates' = Allow(k).rates /\ Allow(k).ok /\ tries' = [tries EXCEPT ![b] = guess]
    BY DEF Attempted, Attempt, Verified, Login
  <1> HIDE DEF k
  <1>2. /\ rates' \in [Keys -> Seq(Nat)] /\ k \in Keys /\ Above(rates[k], 0) < LoginCount
        /\ \A j \in Keys, v \in Nat : Above(rates[j], v) <= Above(rates'[j], v)
        /\ \A v \in Nat : Above(rates'[k], v) = Above(rates[k], v) + (IF Window > v THEN 1 ELSE 0)
    BY <1>0, <1>1, AllowCounts DEF k
  <1>3. tries[b] \in Seq(Pos) /\ tries[b] \in Seq(Nat)
    BY <1>0, PositiveCount
  <1>4. Aged(tries[b]) \in Seq(Pos) /\ Aged(tries[b]) \in Seq(Nat)
    BY <1>3, AgedCounts, PositiveCount
  <1>5. guess \in Seq(Pos) /\ Len(guess) = Len(Aged(tries[b])) + 1
    BY <1>4, LimiterConstants
  <1>6. \A v \in Nat : Above(guess, v) = Above(tries[b], v) + (IF Window > v THEN 1 ELSE 0)
    BY <1>3, <1>4, AgedCounts, AboveAppend, LimiterConstants
  <1>7. Len(guess) <= LoginCount
    <2>1. Len(Aged(tries[b])) = Above(tries[b], 0) /\ Above(tries[b], 0) \in Nat
      BY <1>3, AgedLength
    <2>2. Above(tries[b], 0) <= Above(rates[k], 0)
      BY DEF GuessInv, k
    <2>3. Above(rates[k], 0) \in Nat
      BY <1>0, <1>2, AboveType
    <2> QED  BY <1>2, <1>5, <2>1, <2>2, <2>3, LimiterConstants
  <1> HIDE DEF guess
  <1>8. /\ tries' \in [Browsers -> Seq(Pos)] /\ tries'[b] = guess
        /\ \A c \in Browsers : c # b => tries'[c] = tries[c]
    BY <1>0, <1>1, <1>5
  <1>9. ASSUME NEW c \in Browsers, NEW v \in Nat
        PROVE  Above(tries'[c], v) <= Above(rates'[Login(c)], v)
    <2>1. Login(c) \in Keys /\ Above(tries[c], v) <= Above(rates[Login(c)], v)
      BY LoginKey DEF GuessInv
    <2>2. tries[c] \in Seq(Nat) /\ rates[Login(c)] \in Seq(Nat) /\ rates'[Login(c)] \in Seq(Nat)
      BY <1>0, <1>2, <2>1, PositiveCount
    <2>3. /\ Above(tries[c], v) \in Nat /\ Above(rates[Login(c)], v) \in Nat
          /\ Above(rates'[Login(c)], v) \in Nat
      BY <2>2, AboveType
    <2>4. CASE c = b
      <3>1. Above(guess, v) = Above(tries[b], v) + (IF Window > v THEN 1 ELSE 0)
        BY <1>6
      <3>2. Above(rates'[k], v) = Above(rates[k], v) + (IF Window > v THEN 1 ELSE 0)
        BY <1>2
      <3> QED  BY <1>8, <2>1, <2>3, <2>4, <3>1, <3>2 DEF k
    <2>5. CASE c # b
      BY <1>2, <1>8, <2>1, <2>3, <2>5
    <2> QED  BY <2>4, <2>5
  <1>10. GuessesBounded'
    BY <1>7, <1>8 DEF GuessInv, GuessesBounded
  <1> QED  BY <1>2, <1>8, <1>9, <1>10 DEF GuessInv

\* A second passes on both.
LEMMA TickCounts ==
    ASSUME GuessInv, Tick
    PROVE  GuessInv'
  <1>0. rates \in [Keys -> Seq(Nat)] /\ tries \in [Browsers -> Seq(Pos)]
    BY DEF GuessInv
  <1>1. /\ rates' = [k \in Keys |-> Older(rates[k])]
        /\ tries' = [b \in Browsers |-> Aged(Older(tries[b]))]
    BY DEF Tick
  <1>2. \A k \in Keys : Older(rates[k]) \in Seq(Nat)
    BY <1>0, OlderCounts
  <1>3. ASSUME NEW b \in Browsers
        PROVE  /\ tries[b] \in Seq(Nat) /\ Older(tries[b]) \in Seq(Nat)
               /\ Aged(Older(tries[b])) \in Seq(Pos)
               /\ Len(Aged(Older(tries[b]))) <= LoginCount
    <2>1. tries[b] \in Seq(Nat)
      BY <1>0, PositiveCount
    <2>2. Older(tries[b]) \in Seq(Nat) /\ Len(Older(tries[b])) = Len(tries[b])
      BY <2>1, OlderCounts
    <2>3. Aged(Older(tries[b])) \in Seq(Pos) /\ Len(Aged(Older(tries[b]))) <= Len(Older(tries[b]))
      BY <2>2, AgedCounts, AgedLength
    <2>4. Len(tries[b]) <= LoginCount /\ Len(tries[b]) \in Nat
      BY <2>1 DEF GuessInv, GuessesBounded
    <2>5. Len(Aged(Older(tries[b]))) \in Nat
      BY <2>3
    <2> QED  BY <2>1, <2>2, <2>3, <2>4, <2>5, LimiterConstants
  <1>4. rates' \in [Keys -> Seq(Nat)] /\ tries' \in [Browsers -> Seq(Pos)]
    BY <1>1, <1>2, <1>3
  <1>5. ASSUME NEW b \in Browsers, NEW v \in Nat
        PROVE  Above(tries'[b], v) <= Above(rates'[Login(b)], v)
    <2>1. Login(b) \in Keys /\ v + 1 \in Nat
      BY LoginKey
    <2>2. tries'[b] = Aged(Older(tries[b])) /\ rates'[Login(b)] = Older(rates[Login(b)])
      BY <1>1, <2>1
    <2>3. Above(tries'[b], v) = Above(tries[b], v + 1)
      BY ZenonT(40), <1>3, <2>2, AgedCounts, OlderCounts
    <2>4. Above(rates'[Login(b)], v) = Above(rates[Login(b)], v + 1)
      BY <1>0, <2>1, <2>2, OlderCounts
    <2> QED  BY <2>1, <2>3, <2>4 DEF GuessInv
  <1>6. GuessesBounded'
    BY <1>1, <1>3 DEF GuessesBounded
  <1> QED  BY <1>4, <1>5, <1>6 DEF GuessInv

LEMMA StopCounts ==
    ASSUME Stop
    PROVE  GuessInv'
  <1>1. << >> \in Seq(Nat) /\ << >> \in Seq(Pos) /\ Len(<< >>) = 0
    OBVIOUS
  <1>2. rates' \in [Keys -> Seq(Nat)] /\ tries' \in [Browsers -> Seq(Pos)]
    BY <1>1 DEF Stop
  <1>3. ASSUME NEW b \in Browsers, NEW v \in Nat
        PROVE  Above(tries'[b], v) <= Above(rates'[Login(b)], v)
    <2>1. tries'[b] = << >> /\ rates'[Login(b)] = << >>
      BY LoginKey DEF Stop
    <2>2. Above(<< >>, v) \in Nat
      BY <1>1, AboveType
    <2> QED  BY <2>1, <2>2
  <1>4. GuessesBounded'
    BY <1>1, LimiterConstants DEF GuessesBounded, Stop
  <1> QED  BY <1>2, <1>3, <1>4 DEF GuessInv

LEMMA InitCounts ==
    ASSUME Init
    PROVE  GuessInv
  <1>0. rates = [k \in Keys |-> << >>] /\ tries = [b \in Browsers |-> << >>]
    BY DEF Init
  <1>1. << >> \in Seq(Nat) /\ << >> \in Seq(Pos) /\ Len(<< >>) = 0
    OBVIOUS
  <1>2. rates \in [Keys -> Seq(Nat)] /\ tries \in [Browsers -> Seq(Pos)]
    BY <1>0, <1>1
  <1>3. ASSUME NEW b \in Browsers, NEW v \in Nat
        PROVE  Above(tries[b], v) <= Above(rates[Login(b)], v)
    <2>1. tries[b] = << >> /\ rates[Login(b)] = << >>
      BY <1>0, LoginKey
    <2>2. Above(<< >>, v) \in Nat
      BY <1>1, AboveType
    <2> QED  BY <2>1, <2>2
  <1>4. GuessesBounded
    BY <1>0, <1>1, LimiterConstants DEF GuessesBounded
  <1> QED  BY <1>2, <1>3, <1>4 DEF GuessInv

LEMMA NextCounts ==
    ASSUME GuessInv, [Next]_vars
    PROVE  GuessInv'
  <1>1. CASE \E p \in Passwords : Initialize(p) \/ SetPassword(p)
    BY <1>1, CountedOnly DEF Initialize, SetPassword
  <1>2. CASE Serve
    BY <1>2, CountedOnly DEF Serve
  <1>3. CASE Stop
    BY <1>3, StopCounts
  <1>4. CASE Tick
    BY <1>4, TickCounts
  <1>5. ASSUME NEW b \in Browsers, Handle(b) \/ Forget(b)
        PROVE  GuessInv'
    <2>1. \A scope \in Scopes : <<scope, b>> \in Keys
      BY DEF Keys
    <2>2. CASE Refused(b) \/ LoginGet(b) \/ Logout(b) \/ PageGet(b) \/ NotFound(b)
               \/ PlainPost(b) \/ Forget(b)
      BY <2>2, CountedOnly DEF Refused, LoginGet, Logout, PageGet, NotFound, PlainPost, Forget
    <2>3. CASE LoginLimited(b) \/ LoginExpired(b)
      BY <2>1, <2>3, CountedOnly DEF LoginLimited, LoginExpired, Attempted, Attempt, Scopes
    <2>4. CASE RebootPost(b) \/ DiagnosticsPost(b) \/ DownloadPost(b)
      BY <2>1, <2>4, CountedOnly DEF RebootPost, DiagnosticsPost, DownloadPost, Scopes
    <2>5. CASE LoginRefused(b) \/ \E p \in Passwords : LoginGranted(b, p) \/ LoginStray(b, p)
      BY <2>5, VerifiedCounts DEF LoginRefused, LoginGranted, LoginStray
    <2> QED  BY <1>5, <2>2, <2>3, <2>4, <2>5 DEF Handle
  <1>6. CASE UNCHANGED vars
    BY <1>6, CountedOnly DEF vars
  <1> QED  BY <1>1, <1>2, <1>3, <1>4, <1>5, <1>6 DEF Next

\* While the server runs, no peer has its guesses verified more often than the
\* limit in any window, for every limit, window, table size and mix of other
\* peers and routes: what allow() has let through it remembers as long as it
\* counts.
THEOREM GuessesAreBounded == Spec => []GuessesBounded
  <1>1. Init => GuessInv
    BY InitCounts
  <1>2. GuessInv /\ [Next]_vars => GuessInv'
    BY NextCounts
  <1>3. GuessInv => GuessesBounded
    BY DEF GuessInv
  <1> QED  BY <1>1, <1>2, <1>3, PTL DEF Spec

--------------------------------------------------------------------------------
(* Discovery: the invariant.                                               *)

\* The records that the steps change a field of.
ProbeShape(p) ==
    p = [left |-> p.left, until |-> p.until, on |-> p.on, open |-> p.open, body |-> p.body,
         ready |-> p.ready, got |-> p.got, torn |-> p.torn, missed |-> p.missed]

DiscoveryShapes ==
    /\ rcv = [pc |-> rcv.pc, cmd |-> rcv.cmd, via |-> rcv.via, list |-> rcv.list,
              removed |-> rcv.removed, resolvers |-> rcv.resolvers, pending |-> rcv.pending,
              serial |-> rcv.serial, late |-> rcv.late]
    /\ hist = [found |-> hist.found, gone |-> hist.gone, lossy |-> hist.lossy]
    /\ ProbeShape(probe)
    /\ Free => rcv = Off /\ hist = Nothing

\* The command that fills the cache asks the server the settings name.
TransportInv ==
    /\ rcv.cmd = "sources" => rcv.via = ConfiguredServer
    /\ CacheCurrent

Removes(m, n) == m.kind = "remove" /\ m.name = n
Finds(m, n)   == m.kind = "found" /\ m.ep # Undiallable /\ m.name = n

\* What the queued messages still have to do: every name removed is in the set
\* of removals or has its removal queued; a removed name is not listed; the
\* last queued address of a name is the last one read; and a name that is not
\* removed and has no address queued is listed as it was last read.
Agrees(list, removed, pending, found, gone) ==
    /\ \A n : n \in gone <=> n \in removed \/ \E i \in 1..Len(pending) : Removes(pending[i], n)
    /\ \A n \in removed : n \notin DOMAIN list
    /\ \A i \in 1..Len(pending) : \A n :
         Finds(pending[i], n) /\ (\A j \in 1..Len(pending) : j > i => ~Finds(pending[j], n)) =>
             n \in DOMAIN found /\ found[n] = pending[i].ep
    /\ \A n : n \notin gone /\ (\A i \in 1..Len(pending) : ~Finds(pending[i], n)) =>
         /\ n \in DOMAIN list <=> n \in DOMAIN found
         /\ n \in DOMAIN list => list[n] = found[n]

BrowseTypes ==
    /\ \E S : rcv.pending \in Seq(S)
    /\ IsFiniteSet(DOMAIN rcv.list) /\ Cardinality(DOMAIN rcv.list) <= MaxSources
    /\ IsFiniteSet(rcv.removed) /\ Cardinality(rcv.removed) <= MaxRemoved
    /\ rcv.list = [n \in DOMAIN rcv.list |-> rcv.list[n]]
    /\ hist.found = [n \in DOMAIN hist.found |-> hist.found[n]]
    /\ rcv.pc \in {"off", "open", "server"} => rcv.pending = << >> /\ rcv.removed = {}

BrowseInv ==
    /\ BrowseTypes
    /\ ~hist.lossy => Agrees(rcv.list, rcv.removed, rcv.pending, hist.found, hist.gone)

\* While there is audio to wait for, the video sample leaves time for it unless
\* it holds on to a frame that has begun; what a sample was in time for it
\* takes; and only the sample in progress is committed to a frame.
ProbeInv ==
    rcv.pc \in Media \cup {"report"} =>
        /\ probe.left \in Nat /\ probe.until \in Nat /\ probe.body \in Nat
        /\ probe.ready \subseteq probe.open /\ probe.open \subseteq probe.on
        /\ rcv.pc \in Media /\ probe.body > 0 => rcv.pc \in probe.open \ probe.got
        /\ rcv.pc = "video" /\ "audio" \in probe.open \ probe.got =>
             /\ probe.until >= 1
             /\ probe.body = 0 /\ "video" \notin probe.torn => probe.left >= probe.until
        /\ rcv.pc = "audio" /\ "audio" \in probe.ready \ probe.got =>
             InTime("audio") \/ "video" \in probe.got \cup probe.torn
        /\ "video" \in probe.ready \ probe.got /\ ~probe.missed =>
             rcv.pc = "video" /\ InTime("video")
        /\ ProbeFair

DiscoveryInv == DiscoveryShapes /\ TransportInv /\ BrowseInv /\ ProbeInv
--------------------------------------------------------------------------------
(* What a message does to the list and to the history. *)

Set(f, n, e) == [k \in DOMAIN f \cup {n} |-> IF k = n THEN e ELSE f[k]]

FoundBy(m, f) == IF Finds(m, m.name) THEN Set(f, m.name, m.ep) ELSE f
GoneBy(m, g)  == IF m.kind = "remove" THEN g \cup {m.name} ELSE g

ListBy(m, l, r) ==
    IF m.kind = "remove" THEN Without(l, m.name)
    ELSE IF Finds(m, m.name) /\ m.name \notin r THEN Set(l, m.name, m.ep) ELSE l

\* A message read is a message queued, for the history.
LEMMA QueueAgrees ==
    ASSUME NEW l, NEW r, NEW S, NEW p \in Seq(S), NEW f, NEW g, NEW m, Agrees(l, r, p, f, g)
    PROVE  Agrees(l, r, Append(p, m), FoundBy(m, f), GoneBy(m, g))
  <1> DEFINE q == Append(p, m)
  <1>1. /\ Len(p) \in Nat /\ Len(q) = Len(p) + 1 /\ q[Len(p) + 1] = m
        /\ \A i \in 1..Len(p) : q[i] = p[i]
    OBVIOUS
  <1> HIDE DEF q
  <1>2. \A i \in 1..Len(q) : i \in 1..Len(p) \/ i = Len(p) + 1
    BY <1>1
  <1>3. 1..Len(p) \subseteq 1..Len(q) /\ Len(p) + 1 \in 1..Len(q)
    BY <1>1
  <1>4. ASSUME NEW n
        PROVE  n \in GoneBy(m, g) <=> n \in r \/ \E i \in 1..Len(q) : Removes(q[i], n)
    <2>1. (\E i \in 1..Len(q) : Removes(q[i], n))
             <=> (\E i \in 1..Len(p) : Removes(p[i], n)) \/ Removes(m, n)
      BY <1>1, <1>2, <1>3
    <2>2. n \in GoneBy(m, g) <=> n \in g \/ Removes(m, n)
      BY DEF GoneBy, Removes
    <2> QED  BY <2>1, <2>2 DEF Agrees
  <1>5. ASSUME NEW i \in 1..Len(q), NEW n, Finds(q[i], n),
               \A j \in 1..Len(q) : j > i => ~Finds(q[j], n)
        PROVE  n \in DOMAIN FoundBy(m, f) /\ FoundBy(m, f)[n] = q[i].ep
    <2>1. CASE i = Len(p) + 1
      BY <1>1, <1>5, <2>1 DEF Finds, FoundBy, Set
    <2>2. CASE i \in 1..Len(p)
      <3>1. ~Finds(m, n) /\ Finds(p[i], n) /\ \A j \in 1..Len(p) : j > i => ~Finds(p[j], n)
        BY <1>1, <1>3, <1>5, <2>2
      <3>2. n \in DOMAIN f /\ f[n] = p[i].ep
        BY <2>2, <3>1 DEF Agrees
      <3>3. n \in DOMAIN FoundBy(m, f) /\ FoundBy(m, f)[n] = f[n]
        BY <3>1, <3>2 DEF Finds, FoundBy, Set
      <3> QED  BY <1>1, <2>2, <3>2, <3>3
    <2> QED  BY <1>2, <2>1, <2>2
  <1>6. ASSUME NEW n, n \notin GoneBy(m, g), \A i \in 1..Len(q) : ~Finds(q[i], n)
        PROVE  /\ n \in DOMAIN l <=> n \in DOMAIN FoundBy(m, f)
               /\ n \in DOMAIN l => l[n] = FoundBy(m, f)[n]
    <2>1. n \notin g /\ ~Finds(m, n) /\ \A i \in 1..Len(p) : ~Finds(p[i], n)
      BY <1>1, <1>3, <1>6 DEF GoneBy
    <2>2. (n \in DOMAIN l <=> n \in DOMAIN f) /\ (n \in DOMAIN l => l[n] = f[n])
      BY <2>1 DEF Agrees
    <2>3. /\ n \in DOMAIN FoundBy(m, f) <=> n \in DOMAIN f
          /\ n \in DOMAIN f => FoundBy(m, f)[n] = f[n]
      BY <2>1 DEF Finds, FoundBy, Set
    <2> QED  BY <2>2, <2>3
  <1>7. \A n \in r : n \notin DOMAIN l
    BY DEF Agrees
  <1>8. Agrees(l, r, q, FoundBy(m, f), GoneBy(m, g))
    BY <1>4, <1>5, <1>6, <1>7 DEF Agrees
  <1> QED  BY <1>8 DEF q

\* browse() takes the oldest message queued.
LEMMA HandleAgrees ==
    ASSUME NEW l, NEW r, NEW S, NEW p \in Seq(S), NEW f, NEW g, Agrees(l, r, p, f, g), p # << >>,
           NEW m, m = Head(p)
    PROVE  Agrees(ListBy(m, l, r), GoneBy(m, r), Tail(p), f, g)
  <1> DEFINE q == Tail(p)
             k == ListBy(m, l, r)
  <1>1. /\ Len(p) \in Nat /\ Len(p) > 0 /\ Len(q) = Len(p) - 1 /\ m = p[1]
        /\ \A i \in 1..Len(q) : q[i] = p[i + 1]
    OBVIOUS
  <1>k. /\ m.kind = "remove" => k = Without(l, m.name)
        /\ m.kind # "remove" /\ Finds(m, m.name) /\ m.name \notin r => k = Set(l, m.name, m.ep)
        /\ m.kind # "remove" /\ ~(Finds(m, m.name) /\ m.name \notin r) => k = l
    BY DEF ListBy
  <1> HIDE DEF q, k
  <1>2. \A i \in 1..Len(p) : i = 1 \/ (i - 1 \in 1..Len(q) /\ p[i] = q[i - 1])
    <2> TAKE i \in 1..Len(p)
    <2>1. CASE i # 1
      <3>1. i - 1 \in 1..Len(q) /\ (i - 1) + 1 = i
        BY <1>1, <2>1
      <3> QED  BY <1>1, <3>1
    <2> QED  BY <2>1
  <1>3. \A i \in 1..Len(q) : i + 1 \in 1..Len(p) /\ i \in Nat
    BY <1>1
  <1>4. 1 \in 1..Len(p)
    BY <1>1
  <1>5. ASSUME NEW n
        PROVE  n \in g <=> n \in GoneBy(m, r) \/ \E i \in 1..Len(q) : Removes(q[i], n)
    <2>1. (\E i \in 1..Len(p) : Removes(p[i], n))
             <=> Removes(m, n) \/ \E i \in 1..Len(q) : Removes(q[i], n)
      BY <1>1, <1>2, <1>3, <1>4
    <2>2. n \in GoneBy(m, r) <=> n \in r \/ Removes(m, n)
      BY DEF GoneBy, Removes
    <2> QED  BY <2>1, <2>2 DEF Agrees
  <1>6. ASSUME NEW i \in 1..Len(q), NEW n, Finds(q[i], n),
               \A j \in 1..Len(q) : j > i => ~Finds(q[j], n)
        PROVE  n \in DOMAIN f /\ f[n] = q[i].ep
    <2>1. i + 1 \in 1..Len(p) /\ p[i + 1] = q[i] /\ i \in Nat
      BY <1>1, <1>3
    <2>2. ASSUME NEW j \in 1..Len(p), j > i + 1
          PROVE  ~Finds(p[j], n)
      <3>1. j - 1 \in 1..Len(q) /\ p[j] = q[j - 1] /\ j - 1 > i
        BY <1>2, <2>1, <2>2
      <3> QED  BY <1>6, <3>1
    <2> QED  BY <1>6, <2>1, <2>2 DEF Agrees
  <1>7. ASSUME NEW n, n \notin g, \A i \in 1..Len(q) : ~Finds(q[i], n)
        PROVE  (n \in DOMAIN k <=> n \in DOMAIN f) /\ (n \in DOMAIN k => k[n] = f[n])
    <2>1. ~Removes(m, n) /\ n \notin r
      BY <1>1, <1>4, <1>7 DEF Agrees
    <2>2. CASE Finds(m, n)
      <3>1. \A j \in 1..Len(p) : j > 1 => ~Finds(p[j], n)
        BY <1>2, <1>7
      <3>2. n \in DOMAIN f /\ f[n] = m.ep
        BY <1>1, <1>4, <2>2, <3>1 DEF Agrees
      <3>3. k = Set(l, n, m.ep)
        BY <1>k, <2>1, <2>2 DEF Finds
      <3>4. n \in DOMAIN k /\ k[n] = m.ep
        BY <3>3 DEF Set
      <3> QED  BY <3>2, <3>4
    <2>3. CASE ~Finds(m, n)
      <3>1. \A i \in 1..Len(p) : ~Finds(p[i], n)
        BY <1>1, <1>2, <1>7, <2>3
      <3>2. (n \in DOMAIN l <=> n \in DOMAIN f) /\ (n \in DOMAIN l => l[n] = f[n])
        BY <1>7, <3>1 DEF Agrees
      <3>3. (n \in DOMAIN k <=> n \in DOMAIN l) /\ (n \in DOMAIN l => k[n] = l[n])
        <4>1. CASE m.kind = "remove"
          <5>1. k = Without(l, m.name) /\ m.name # n
            BY <1>k, <2>1, <4>1 DEF Removes
          <5>2. DOMAIN k = DOMAIN l \ {m.name} /\ \A j \in DOMAIN l : j # m.name => k[j] = l[j]
            BY <5>1 DEF Without, Restrict
          <5> QED  BY <5>1, <5>2
        <4>2. CASE m.kind # "remove" /\ Finds(m, m.name) /\ m.name \notin r
          <5>1. k = Set(l, m.name, m.ep) /\ m.name # n
            BY <1>k, <2>3, <4>2 DEF Finds
          <5>2. DOMAIN k = DOMAIN l \cup {m.name} /\ \A j \in DOMAIN l : j # m.name => k[j] = l[j]
            BY <5>1 DEF Set
          <5> QED  BY <5>1, <5>2
        <4>3. CASE m.kind # "remove" /\ ~(Finds(m, m.name) /\ m.name \notin r)
          BY <1>k, <4>3
        <4> QED  BY <4>1, <4>2, <4>3
      <3> QED  BY <3>2, <3>3
    <2> QED  BY <2>2, <2>3
  <1>8. \A n \in GoneBy(m, r) : n \notin DOMAIN k
    <2>0. \A n \in r : n \notin DOMAIN l
      BY DEF Agrees
    <2>1. CASE m.kind = "remove"
      <3>1. DOMAIN k = DOMAIN l \ {m.name}
        BY <1>k, <2>1 DEF Without, Restrict
      <3> QED  BY <2>0, <2>1, <3>1 DEF GoneBy
    <2>2. CASE m.kind # "remove" /\ Finds(m, m.name) /\ m.name \notin r
      <3>1. k = Set(l, m.name, m.ep) /\ GoneBy(m, r) = r
        BY <1>k, <2>2 DEF GoneBy
      <3>2. DOMAIN k = DOMAIN l \cup {m.name}
        BY <3>1 DEF Set
      <3> QED  BY <2>0, <2>2, <3>1, <3>2
    <2>3. CASE m.kind # "remove" /\ ~(Finds(m, m.name) /\ m.name \notin r)
      BY <1>k, <2>0, <2>3 DEF GoneBy
    <2> QED  BY <2>1, <2>2, <2>3
  <1>9. Agrees(k, GoneBy(m, r), q, f, g)
    BY <1>5, <1>6, <1>7, <1>8 DEF Agrees
  <1> QED  BY <1>9 DEF q, k

\* Nothing queued, nothing removed but what is gone: the list is what it
\* should be.
LEMMA AgreesEmpty ==
    ASSUME NEW l, NEW r, NEW f, NEW g, Agrees(l, r, << >>, f, g),
           l = [n \in DOMAIN l |-> l[n]]
    PROVE  l = Restrict(f, DOMAIN f \ g)
  <1>1. \A i \in 1..Len(<< >>) : FALSE
    OBVIOUS
  <1>2. \A n : n \in g <=> n \in r
    BY <1>1 DEF Agrees
  <1>3. \A n : n \notin g => /\ n \in DOMAIN l <=> n \in DOMAIN f
                             /\ n \in DOMAIN l => l[n] = f[n]
    BY <1>1 DEF Agrees
  <1>4. \A n \in g : n \notin DOMAIN l
    BY <1>2 DEF Agrees
  <1>5. DOMAIN l = DOMAIN f \ g
    BY <1>3, <1>4
  <1>6. \A n \in DOMAIN l : l[n] = f[n]
    BY <1>3, <1>4
  <1> QED  BY <1>5, <1>6 DEF Restrict

\* A message read when nothing is queued is handled at once.
LEMMA ReadAgrees ==
    ASSUME NEW l, NEW r, NEW f, NEW g, NEW m, Agrees(l, r, << >>, f, g)
    PROVE  Agrees(ListBy(m, l, r), GoneBy(m, r), << >>, FoundBy(m, f), GoneBy(m, g))
  <1>1. << >> \in Seq({m}) /\ Append(<< >>, m) = <<m>> /\ Tail(<<m>>) = << >> /\ Head(<<m>>) = m
        /\ <<m>> \in Seq({m}) /\ <<m>> # << >>
    OBVIOUS
  <1>2. Agrees(l, r, <<m>>, FoundBy(m, f), GoneBy(m, g))
    BY <1>1, QueueAgrees
  <1>3. Agrees(ListBy(m, l, r), GoneBy(m, r), Tail(<<m>>), FoundBy(m, f), GoneBy(m, g))
    BY <1>1, <1>2, HandleAgrees
  <1> QED  BY <1>1, <1>3

LEMMA ListBounds ==
    /\ MaxSources \in Nat /\ MaxRemoved \in Nat /\ MaxPending \in Nat
    /\ Budget \in Nat /\ Budget > 0 /\ MaxPending > 0 /\ BodyBudget \in Nat /\ BodyBudget > 0
  BY DiscoveryAssumption

LEMMA NotedIs ==
    ASSUME DiscoveryShapes, NEW m
    PROVE  Noted(m) = [found |-> FoundBy(m, hist.found), gone |-> GoneBy(m, hist.gone),
                       lossy |-> hist.lossy]
  <1>1. CASE m.kind = "remove"
    BY <1>1 DEF Noted, FoundBy, GoneBy, Finds, DiscoveryShapes
  <1>2. CASE m.kind = "found" /\ m.ep # Undiallable
    BY <1>2 DEF Noted, FoundBy, GoneBy, Finds, Set, DiscoveryShapes
  <1>3. CASE m.kind # "remove" /\ ~(m.kind = "found" /\ m.ep # Undiallable)
    BY <1>3 DEF Noted, FoundBy, GoneBy, Finds, DiscoveryShapes
  <1> QED  BY <1>1, <1>2, <1>3

LEMMA FoundByFunction ==
    ASSUME NEW m, NEW f, f = [n \in DOMAIN f |-> f[n]]
    PROVE  FoundBy(m, f) = [n \in DOMAIN FoundBy(m, f) |-> FoundBy(m, f)[n]]
  BY DEF FoundBy, Set

\* put() and remove() keep a list a list, within its limit.
LEMMA PutTypes ==
    ASSUME NEW l, IsFiniteSet(DOMAIN l), Cardinality(DOMAIN l) < MaxSources, NEW n, NEW e,
           NEW k, k = Put(l, n, e)
    PROVE  /\ k = Set(l, n, e) /\ k = [j \in DOMAIN k |-> k[j]]
           /\ IsFiniteSet(DOMAIN k) /\ Cardinality(DOMAIN k) <= MaxSources
  <1>1. k = Set(l, n, e) /\ DOMAIN k = DOMAIN l \cup {n} /\ k = [j \in DOMAIN k |-> k[j]]
    BY DEF Put, Set
  <1>2. IsFiniteSet(DOMAIN k) /\ Cardinality(DOMAIN k) =
            IF n \in DOMAIN l THEN Cardinality(DOMAIN l) ELSE Cardinality(DOMAIN l) + 1
    BY <1>1, FS_AddElement
  <1>3. Cardinality(DOMAIN l) \in Nat
    BY FS_CardinalityType
  <1> QED  BY <1>1, <1>2, <1>3, ListBounds

LEMMA WithoutTypes ==
    ASSUME NEW l, IsFiniteSet(DOMAIN l), Cardinality(DOMAIN l) <= MaxSources, NEW n,
           NEW k, k = Without(l, n)
    PROVE  /\ k = [j \in DOMAIN k |-> k[j]]
           /\ IsFiniteSet(DOMAIN k) /\ Cardinality(DOMAIN k) <= MaxSources
  <1>1. DOMAIN k \subseteq DOMAIN l /\ k = [j \in DOMAIN k |-> k[j]]
    BY DEF Without, Restrict
  <1>2. IsFiniteSet(DOMAIN k) /\ Cardinality(DOMAIN k) <= Cardinality(DOMAIN l)
    BY <1>1, FS_Subset
  <1>3. Cardinality(DOMAIN l) \in Nat /\ Cardinality(DOMAIN k) \in Nat
    BY <1>2, FS_CardinalityType
  <1> QED  BY <1>1, <1>2, <1>3, ListBounds

LEMMA RemovedTypes ==
    ASSUME NEW r, IsFiniteSet(r), Cardinality(r) < MaxRemoved, NEW n
    PROVE  IsFiniteSet(r \cup {n}) /\ Cardinality(r \cup {n}) <= MaxRemoved
  <1>1. IsFiniteSet(r \cup {n}) /\ Cardinality(r \cup {n}) =
            IF n \in r THEN Cardinality(r) ELSE Cardinality(r) + 1
    BY FS_AddElement
  <1>2. Cardinality(r) \in Nat
    BY FS_CardinalityType
  <1> QED  BY <1>1, <1>2, ListBounds

\* browse()'s handling of a message, whatever it forgets ...
LEMMA HandledTypes ==
    ASSUME DiscoveryShapes, BrowseTypes, NEW m, NEW h, h = Handled(m)
    PROVE  /\ h = [pc |-> h.pc, cmd |-> rcv.cmd, via |-> rcv.via, list |-> h.list,
                   removed |-> h.removed, resolvers |-> rcv.resolvers, pending |-> rcv.pending,
                   serial |-> h.serial, late |-> rcv.late]
           /\ h.pc \in {rcv.pc, "resolver"}
           /\ IsFiniteSet(DOMAIN h.list) /\ Cardinality(DOMAIN h.list) <= MaxSources
           /\ IsFiniteSet(h.removed) /\ Cardinality(h.removed) <= MaxRemoved
           /\ h.list = [n \in DOMAIN h.list |-> h.list[n]]
           /\ ~Forgets(m) => /\ h.list = ListBy(m, rcv.list, rcv.removed)
                             /\ h.removed = GoneBy(m, rcv.removed)
  <1>0. /\ IsFiniteSet(DOMAIN rcv.list) /\ Cardinality(DOMAIN rcv.list) <= MaxSources
        /\ IsFiniteSet(rcv.removed) /\ Cardinality(rcv.removed) <= MaxRemoved
        /\ rcv.list = [n \in DOMAIN rcv.list |-> rcv.list[n]]
        /\ Cardinality(DOMAIN rcv.list) \in Nat /\ Cardinality(rcv.removed) \in Nat
    BY FS_CardinalityType DEF BrowseTypes
  <1>1. CASE m.kind = "new"
    <2>1. h = OnNew(m)
      BY <1>1 DEF Handled
    <2>2. ListBy(m, rcv.list, rcv.removed) = rcv.list /\ GoneBy(m, rcv.removed) = rcv.removed
      BY <1>1 DEF ListBy, GoneBy, Finds
    <2> QED  BY <1>0, <2>1, <2>2 DEF OnNew, DiscoveryShapes
  <1>2. CASE m.kind = "remove"
    <2> DEFINE r == IF Cardinality(rcv.removed) < MaxRemoved THEN rcv.removed \cup {m.name}
                    ELSE rcv.removed
    <2>1. h = [rcv EXCEPT !.list = Without(rcv.list, m.name), !.removed = r]
      BY <1>2 DEF Handled, OnRemove
    <2>2. IsFiniteSet(r) /\ Cardinality(r) <= MaxRemoved
      BY <1>0, RemovedTypes
    <2>3. ~Forgets(m) => r = GoneBy(m, rcv.removed)
      BY <1>0, <1>2, ListBounds DEF Forgets, GoneBy
    <2>4. ListBy(m, rcv.list, rcv.removed) = Without(rcv.list, m.name)
      BY <1>2 DEF ListBy
    <2> HIDE DEF r
    <2>5. /\ h.list = Without(rcv.list, m.name) /\ h.removed = r
          /\ h.pc = rcv.pc
          /\ h = [pc |-> h.pc, cmd |-> rcv.cmd, via |-> rcv.via, list |-> h.list,
                  removed |-> h.removed, resolvers |-> rcv.resolvers, pending |-> rcv.pending,
                  serial |-> h.serial, late |-> rcv.late]
      BY <2>1 DEF DiscoveryShapes
    <2> QED  BY <1>0, <2>2, <2>3, <2>4, <2>5, WithoutTypes
  <1>3. CASE m.kind = "found"
    <2>1. h = OnFound(m) /\ GoneBy(m, rcv.removed) = rcv.removed
      BY <1>3 DEF Handled, GoneBy
    <2>2. CASE /\ m.ep # Undiallable /\ m.name \notin rcv.removed
               /\ Cardinality(DOMAIN rcv.list) < MaxSources
      <3>1. h = [rcv EXCEPT !.list = Put(rcv.list, m.name, m.ep)]
        BY <2>1, <2>2 DEF OnFound
      <3>2. /\ h.list = Put(rcv.list, m.name, m.ep) /\ h.removed = rcv.removed /\ h.pc = rcv.pc
            /\ h = [pc |-> h.pc, cmd |-> rcv.cmd, via |-> rcv.via, list |-> h.list,
                    removed |-> h.removed, resolvers |-> rcv.resolvers, pending |-> rcv.pending,
                    serial |-> h.serial, late |-> rcv.late]
        BY <3>1 DEF DiscoveryShapes
      <3>3. ListBy(m, rcv.list, rcv.removed) = Set(rcv.list, m.name, m.ep)
        BY <1>3, <2>2 DEF ListBy, Finds
      <3> QED  BY <1>0, <2>1, <2>2, <3>2, <3>3, PutTypes
    <2>3. CASE ~(/\ m.ep # Undiallable /\ m.name \notin rcv.removed
                 /\ Cardinality(DOMAIN rcv.list) < MaxSources)
      <3>1. h = rcv
        BY <2>1, <2>3 DEF OnFound
      <3>2. ~Forgets(m) => ListBy(m, rcv.list, rcv.removed) = rcv.list
        BY <1>0, <1>3, <2>3, ListBounds DEF Forgets, ListBy, Finds
      <3> QED  BY <1>0, <2>1, <3>1, <3>2 DEF DiscoveryShapes
    <2> QED  BY <2>2, <2>3
  <1>4. CASE m.kind \notin {"new", "remove", "found"}
    <2>1. h = rcv
      BY <1>4 DEF Handled
    <2>2. ListBy(m, rcv.list, rcv.removed) = rcv.list /\ GoneBy(m, rcv.removed) = rcv.removed
      BY <1>4 DEF ListBy, GoneBy, Finds
    <2> QED  BY <1>0, <2>1, <2>2 DEF DiscoveryShapes
  <1> QED  BY <1>1, <1>2, <1>3, <1>4
--------------------------------------------------------------------------------
(* Steps. *)

\* The receiver's record after a step that leaves the browse alone.
Along ==
    /\ rcv' = [pc |-> rcv'.pc, cmd |-> rcv.cmd, via |-> rcv.via, list |-> rcv.list,
               removed |-> rcv.removed, resolvers |-> rcv'.resolvers, pending |-> rcv.pending,
               serial |-> rcv'.serial, late |-> rcv'.late]
    /\ rcv'.pc # "off" /\ (rcv'.pc \in {"open", "server"} => rcv.pc \in {"open", "server"})

LEMMA ConfiguredSame == net' = net => ConfiguredServer' = ConfiguredServer
  BY DEF ConfiguredServer

\* A step between the start and the end of a command that reads no message.
LEMMA AlongKeeps ==
    ASSUME DiscoveryInv, Along, UNCHANGED <<net, cache, unsure, hist>>, ProbeInv',
           ProbeShape(probe')
    PROVE  DiscoveryInv'
  <1>1. DiscoveryShapes'
    BY DEF DiscoveryInv, DiscoveryShapes, Along, Free
  <1>2. TransportInv'
    BY ConfiguredSame DEF DiscoveryInv, TransportInv, CacheCurrent, Along
  <1>3. BrowseTypes'
    BY DEF DiscoveryInv, BrowseInv, BrowseTypes, Along
  <1>4. /\ rcv'.list = rcv.list /\ rcv'.removed = rcv.removed /\ rcv'.pending = rcv.pending
    BY DEF Along
  <1>5. BrowseInv'
    BY <1>3, <1>4 DEF DiscoveryInv, BrowseInv
  <1> QED  BY <1>1, <1>2, <1>5 DEF DiscoveryInv

LEMMA UnsampledProbe ==
    ASSUME rcv'.pc \notin Media \cup {"report"}
    PROVE  ProbeInv'
  BY DEF ProbeInv

\* What the daemon or the server does, and the dashboard's other steps.
LEMMA SameReceiver ==
    ASSUME DiscoveryInv, UNCHANGED <<rcv, probe, hist>>, TransportInv'
    PROVE  DiscoveryInv'
  <1>1. DiscoveryShapes'
    BY DEF DiscoveryInv, DiscoveryShapes, Free
  <1>2. BrowseInv'
    BY DEF DiscoveryInv, BrowseInv, BrowseTypes
  <1>3. ProbeInv'
    BY DEF DiscoveryInv, ProbeInv, ProbeFair, InTime, Limit
  <1> QED  BY <1>1, <1>2, <1>3 DEF DiscoveryInv

LEMMA TransportSame ==
    ASSUME DiscoveryInv, UNCHANGED <<rcv, net, cache, unsure>>
    PROVE  TransportInv'
  BY DEF DiscoveryInv, TransportInv, CacheCurrent, ConfiguredServer

LEMMA SettingsKeep ==
    ASSUME DiscoveryInv, (\E t : NetworkPost(t) \/ NetworkFails(t)) \/ Refresh \/ Expires
    PROVE  DiscoveryInv'
  <1>1. UNCHANGED <<rcv, probe, hist>>
    BY DEF NetworkPost, NetworkFails, Refresh, Expires
  <1>2. CASE \E t : NetworkPost(t) \/ NetworkFails(t)
    <2>1. PICK t : NetworkPost(t) \/ NetworkFails(t)
      BY <1>2
    <2>2. rcv.cmd # "sources"
      BY <2>1 DEF NetworkPost, NetworkFails, DiscoveryInv, DiscoveryShapes, Off
    <2>3. \/ cache' = NoList
          \/ net' = net /\ cache' = cache /\ (unsure => unsure')
          \/ cache' = cache /\ (cache = NoList \/ unsure')
      BY <2>1 DEF NetworkPost, NetworkFails
    <2>4. CacheCurrent'
      BY <2>3, ConfiguredSame DEF DiscoveryInv, TransportInv, CacheCurrent
    <2>5. TransportInv'
      BY <1>1, <2>2, <2>4 DEF TransportInv
    <2> QED  BY <1>1, <2>5, SameReceiver
  <1>3. CASE Refresh \/ Expires
    <2>1. net' = net /\ cache' = NoList
      BY <1>3 DEF Refresh, Expires
    <2>2. TransportInv'
      BY <1>1, <2>1, ConfiguredSame DEF DiscoveryInv, TransportInv, CacheCurrent
    <2> QED  BY <1>1, <2>2, SameReceiver
  <1> QED  BY <1>2, <1>3

\* A receiver that has not read anything yet.
Started(pc, cmd, via) ==
    [pc |-> pc, cmd |-> cmd, via |-> via, list |-> << >>, removed |-> {}, resolvers |-> 0,
     pending |-> << >>, serial |-> 0, late |-> FALSE]

LEMMA FreshReceiver ==
    ASSUME NEW pc, NEW cmd, NEW via, rcv' = Started(pc, cmd, via),
           hist' = Nothing, pc \notin {"video", "audio", "report"},
           ProbeShape(probe'),
           TransportInv', pc = "off" => rcv' = Off
    PROVE  DiscoveryInv'
  <1>1. /\ rcv' = [pc |-> pc, cmd |-> cmd, via |-> via, list |-> << >>,
                   removed |-> {}, resolvers |-> 0, pending |-> << >>, serial |-> 0, late |-> FALSE]
        /\ rcv'.pc = pc /\ rcv'.list = << >> /\ rcv'.removed = {} /\ rcv'.pending = << >>
    BY DEF Started
  <1>2. DiscoveryShapes'
    BY <1>1 DEF DiscoveryShapes, Nothing, Free
  <1>3. hist'.found = << >> /\ hist'.gone = {} /\ hist'.lossy = FALSE
    BY DEF Nothing
  <1>4. /\ << >> \in Seq({}) /\ Len(<< >>) = 0 /\ DOMAIN << >> = {}
        /\ << >> = [n \in {} |-> << >>[n]]
    OBVIOUS
  <1>5. IsFiniteSet({}) /\ Cardinality({}) = 0
    BY FS_EmptySet
  <1>6. BrowseTypes'
    <2>1. \E S : rcv'.pending \in Seq(S)
      BY <1>1, <1>4
    <2>2. DOMAIN rcv'.list = {} /\ Cardinality(DOMAIN rcv'.list) <= MaxSources
          /\ IsFiniteSet(DOMAIN rcv'.list)
      BY <1>1, <1>4, <1>5, ListBounds
    <2>3. IsFiniteSet(rcv'.removed) /\ Cardinality(rcv'.removed) <= MaxRemoved
      BY <1>1, <1>5, ListBounds
    <2>4. rcv'.list = [n \in DOMAIN rcv'.list |-> rcv'.list[n]]
          /\ hist'.found = [n \in DOMAIN hist'.found |-> hist'.found[n]]
      BY <1>1, <1>3, <1>4
    <2> QED  BY <1>1, <2>1, <2>2, <2>3, <2>4 DEF BrowseTypes
  <1>7. Agrees(<< >>, {}, << >>, << >>, {})
    <2>1. \A i \in 1..Len(<< >>) : FALSE
      OBVIOUS
    <2> QED  BY <1>4, <2>1 DEF Agrees
  <1>8. BrowseInv'
    BY <1>1, <1>3, <1>6, <1>7 DEF BrowseInv
  <1>9. ProbeInv'
    BY <1>1, UnsampledProbe DEF Media
  <1> QED  BY <1>2, <1>8, <1>9 DEF DiscoveryInv

LEMMA StartKeeps ==
    ASSUME DiscoveryInv, (\E cmd : Start(cmd)) \/ StartDirect
    PROVE  DiscoveryInv'
  <1>0. UNCHANGED <<probe, net, cache, unsure>> /\ DiscoveryShapes
    BY DEF Start, StartDirect, web, DiscoveryInv
  <1>1. ProbeShape(probe')
    BY <1>0 DEF DiscoveryShapes
  <1>2. CASE \E cmd : Start(cmd)
    <2>1. PICK cmd : Start(cmd)
      BY <1>2
    <2>2. rcv' = Started("open", cmd, ConfiguredServer) /\ hist' = Nothing
      BY <2>1 DEF Start, Off, Started
    <2>3. rcv'.via = ConfiguredServer
      BY <2>2 DEF Started
    <2>4. TransportInv'
      BY <1>0, <2>3, ConfiguredSame DEF DiscoveryInv, TransportInv, CacheCurrent
    <2> QED  BY <1>1, <2>2, <2>4, FreshReceiver
  <1>3. CASE StartDirect
    <2>1. rcv' = Started("dial", "probe", NoServer) /\ rcv'.cmd = "probe"
      BY <1>3 DEF StartDirect, Dialling, Off, Started
    <2>2. hist' = Nothing
      BY <1>0, <1>3 DEF StartDirect, DiscoveryShapes
    <2>3. TransportInv'
      BY <1>0, <2>1, ConfiguredSame DEF DiscoveryInv, TransportInv, CacheCurrent
    <2> QED  BY <1>1, <2>1, <2>2, <2>3, FreshReceiver
  <1> QED  BY <1>2, <1>3

\* The command ends; what sources() got came from the server of the settings.
LEMMA ExitKeeps ==
    ASSUME DiscoveryInv, Exit, UNCHANGED <<net, unsure>>,
           cache' = cache \/ (rcv.cmd = "sources" /\ cache' = rcv.via)
    PROVE  DiscoveryInv'
  <1>1. rcv' = Started("off", "none", NoServer) /\ rcv' = Off
        /\ rcv'.cmd = "none" /\ hist' = Nothing
    BY DEF Exit, Disconnects, Off, Started
  <1>2. ProbeShape(probe')
    BY DEF Exit, NoProbe, ProbeShape
  <1>3. TransportInv'
    BY <1>1, ConfiguredSame DEF DiscoveryInv, TransportInv, CacheCurrent
  <1> QED  BY <1>1, <1>2, <1>3, FreshReceiver

LEMMA EndKeeps ==
    ASSUME DiscoveryInv, Prints \/ Killed \/ Reports
    PROVE  DiscoveryInv'
  <1>1. CASE Prints \/ Killed
    BY <1>1, ExitKeeps DEF Prints, Killed, Returns
  <1>2. CASE Reports
    BY <1>2, ExitKeeps DEF Reports, web
  <1> QED  BY <1>1, <1>2

\* The steps that only move the receiver on.
LEMMA MoveKeeps ==
    ASSUME DiscoveryInv,
           \/ Opens \/ Subscribes \/ Deadline \/ CallTimesOut \/ LoopEnds \/ Frees \/ ServerEnds
    PROVE  DiscoveryInv'
  <1>0. /\ UNCHANGED <<net, cache, unsure, hist, probe>> /\ DiscoveryShapes
        /\ rcv.pc \in {"open", "browser", "loop", "resolver", "server", "free"}
    BY DEF Opens, Subscribes, Deadline, CallTimesOut, LoopEnds, Frees, ServerEnds, web, DiscoveryInv
  <1>1. Along /\ rcv'.pc \notin Media \cup {"report"}
    <2>1. CASE Opens
      BY <1>0, <2>1 DEF Opens, Goes, DiscoveryShapes, Along, Media
    <2>2. CASE Subscribes \/ CallTimesOut \/ LoopEnds \/ ServerEnds
      BY <1>0, <2>2 DEF Subscribes, CallTimesOut, LoopEnds, ServerEnds, Goes, DiscoveryShapes, Along,
         Media
    <2>3. CASE Deadline
      BY <1>0, <2>3 DEF Deadline, DiscoveryShapes, Along, Media
    <2>4. CASE Frees
      BY <1>0, <2>4 DEF Frees, DiscoveryShapes, Along, Media
    <2> QED  BY <2>1, <2>2, <2>3, <2>4
  <1>2. ProbeInv'
    BY <1>1, UnsampledProbe
  <1>3. ProbeShape(probe')
    BY <1>0 DEF DiscoveryShapes
  <1> QED  BY <1>0, <1>1, <1>2, <1>3, AlongKeeps

\* A step that reads or handles a message: the rest of the invariant.
LEMMA ReadKeeps ==
    ASSUME DiscoveryInv, UNCHANGED <<net, cache, unsure, probe>>, BrowseInv',
           rcv' = [pc |-> rcv'.pc, cmd |-> rcv.cmd, via |-> rcv.via, list |-> rcv'.list,
                   removed |-> rcv'.removed, resolvers |-> rcv'.resolvers,
                   pending |-> rcv'.pending, serial |-> rcv'.serial, late |-> rcv'.late],
           rcv'.pc \notin {"off", "video", "audio", "report"},
           hist' = [found |-> hist'.found, gone |-> hist'.gone, lossy |-> hist'.lossy]
    PROVE  DiscoveryInv'
  <1>1. DiscoveryShapes'
    BY DEF DiscoveryInv, DiscoveryShapes, Free
  <1>2. TransportInv'
    BY ConfiguredSame DEF DiscoveryInv, TransportInv, CacheCurrent
  <1>3. ProbeInv'
    BY UnsampledProbe DEF Media
  <1> QED  BY <1>1, <1>2, <1>3 DEF DiscoveryInv

\* call() queues a signal, at the limit at the cost of the oldest one.
LEMMA CallReadsKeeps ==
    ASSUME DiscoveryInv, CallReads
    PROVE  DiscoveryInv'
  <1> DEFINE m == Head(wire)
  <1>0. /\ UNCHANGED <<net, cache, unsure, probe>> /\ DiscoveryShapes /\ BrowseTypes
        /\ rcv.pc \in {"browser", "resolver"}
    BY DEF CallReads, web, DiscoveryInv, BrowseInv
  <1>1. /\ rcv' = CASE IsSignal(m) -> [rcv EXCEPT !.pending = Queued(rcv.pending, m)]
                    [] IsReply(m) /\ m.kind = "return" ->
                         [rcv EXCEPT !.pc = "loop",
                                     !.resolvers = @ + (IF rcv.pc = "resolver" THEN 1 ELSE 0)]
                    [] IsReply(m) \/ m.kind = "bad" ->
                         [rcv EXCEPT !.pc = IF @ = "browser" THEN "print" ELSE "loop"]
                    [] OTHER -> rcv
        /\ hist' = [Noted(m) EXCEPT !.lossy =
                      @ \/ (IsSignal(m) /\ Len(rcv.pending) = MaxPending)]
    BY DEF CallReads
  <1> HIDE DEF m
  <1>2. /\ hist'.found = FoundBy(m, hist.found) /\ hist'.gone = GoneBy(m, hist.gone)
        /\ hist'.lossy = (hist.lossy \/ (IsSignal(m) /\ Len(rcv.pending) = MaxPending))
        /\ hist' = [found |-> hist'.found, gone |-> hist'.gone, lossy |-> hist'.lossy]
    BY <1>0, <1>1, NotedIs
  <1>3. /\ hist.found = [n \in DOMAIN hist.found |-> hist.found[n]]
    BY <1>0 DEF BrowseTypes
  <1>4. hist'.found = [n \in DOMAIN hist'.found |-> hist'.found[n]]
    BY <1>2, <1>3, FoundByFunction
  <1>5. PICK S : rcv.pending \in Seq(S)
    BY <1>0 DEF BrowseTypes
  <1>6. CASE IsSignal(m)
    <2>1. /\ rcv' = [pc |-> rcv.pc, cmd |-> rcv.cmd, via |-> rcv.via, list |-> rcv.list,
                     removed |-> rcv.removed, resolvers |-> rcv.resolvers,
                     pending |-> Queued(rcv.pending, m), serial |-> rcv.serial, late |-> rcv.late]
      <3>1. rcv' = [rcv EXCEPT !.pending = Queued(rcv.pending, m)]
        BY <1>1, <1>6 DEF IsSignal, IsReply
      <3> QED  BY <1>0, <3>1 DEF DiscoveryShapes
    <2>2. Queued(rcv.pending, m) \in Seq(S \cup {m})
      <3>1. rcv.pending \in Seq(S \cup {m}) /\ m \in S \cup {m}
        BY <1>5
      <3>2. CASE Len(rcv.pending) = MaxPending
        <4>1. rcv.pending # << >>
          BY <3>2, ListBounds
        <4>2. Tail(rcv.pending) \in Seq(S \cup {m})
          BY <3>1, <4>1
        <4> QED  BY <3>1, <3>2, <4>2 DEF Queued
      <3>3. CASE Len(rcv.pending) # MaxPending
        BY <3>1, <3>3 DEF Queued
      <3> QED  BY <3>2, <3>3
    <2>3. BrowseTypes'
      BY <1>0, <1>4, <2>1, <2>2 DEF BrowseTypes
    <2>4. ~hist'.lossy => Agrees(rcv'.list, rcv'.removed, rcv'.pending, hist'.found, hist'.gone)
      <3> SUFFICES ASSUME ~hist'.lossy
                   PROVE  Agrees(rcv'.list, rcv'.removed, rcv'.pending, hist'.found, hist'.gone)
        OBVIOUS
      <3>1. ~hist.lossy /\ Len(rcv.pending) # MaxPending
        BY <1>2, <1>6
      <3>2. Queued(rcv.pending, m) = Append(rcv.pending, m)
        BY <3>1 DEF Queued
      <3>3. Agrees(rcv.list, rcv.removed, rcv.pending, hist.found, hist.gone)
        BY <3>1 DEF DiscoveryInv, BrowseInv
      <3>4. Agrees(rcv.list, rcv.removed, Append(rcv.pending, m), FoundBy(m, hist.found),
                   GoneBy(m, hist.gone))
        BY <1>5, <3>3, QueueAgrees
      <3>5. rcv'.list = rcv.list /\ rcv'.removed = rcv.removed /\ rcv'.pending = Append(rcv.pending, m)
        BY <2>1, <3>2
      <3> QED  BY <1>2, <3>4, <3>5
    <2> QED  BY <1>0, <1>2, <2>1, <2>3, <2>4, ReadKeeps DEF BrowseInv
  <1>7. CASE ~IsSignal(m)
    <2>1. hist'.found = hist.found /\ hist'.gone = hist.gone /\ (~hist'.lossy => ~hist.lossy)
      <3>1. m.kind # "remove" /\ m.kind # "found"
        BY <1>7 DEF IsSignal
      <3>2. hist'.found = hist.found /\ hist'.gone = hist.gone
        BY <1>2, <3>1 DEF FoundBy, GoneBy, Finds
      <3> QED  BY <1>2, <3>2
    <2>2. /\ rcv' = [pc |-> rcv'.pc, cmd |-> rcv.cmd, via |-> rcv.via, list |-> rcv.list,
                     removed |-> rcv.removed, resolvers |-> rcv'.resolvers,
                     pending |-> rcv.pending, serial |-> rcv.serial, late |-> rcv.late]
          /\ rcv'.pc \in {"browser", "resolver", "loop", "print"}
      <3>1. \/ rcv' = [rcv EXCEPT !.pc = "loop",
                                  !.resolvers = @ + (IF rcv.pc = "resolver" THEN 1 ELSE 0)]
            \/ rcv' = [rcv EXCEPT !.pc = IF @ = "browser" THEN "print" ELSE "loop"]
            \/ rcv' = rcv
        BY <1>1, <1>7
      <3> QED  BY <1>0, <3>1 DEF DiscoveryShapes
    <2>3. BrowseTypes'
      BY <1>0, <2>1, <2>2 DEF BrowseTypes
    <2>4. rcv'.list = rcv.list /\ rcv'.removed = rcv.removed /\ rcv'.pending = rcv.pending
      BY <2>2
    <2>5. BrowseInv'
      BY <2>1, <2>3, <2>4 DEF DiscoveryInv, BrowseInv
    <2> QED  BY <1>0, <1>2, <2>2, <2>5, ReadKeeps
  <1> QED  BY <1>6, <1>7

\* next() hands out the oldest queued signal.
LEMMA NextQueuedKeeps ==
    ASSUME DiscoveryInv, NextQueued
    PROVE  DiscoveryInv'
  <1> DEFINE m == Head(rcv.pending)
             h == Handled(m)
  <1>0. /\ UNCHANGED <<net, cache, unsure, probe>> /\ DiscoveryShapes /\ BrowseTypes
        /\ rcv.pc = "loop" /\ rcv.pending # << >>
        /\ rcv' = [h EXCEPT !.pending = Tail(h.pending)]
        /\ hist' = [hist EXCEPT !.lossy = hist.lossy \/ Forgets(m)]
    BY DEF NextQueued, web, DiscoveryInv, BrowseInv
  <1>1. PICK S : rcv.pending \in Seq(S)
    BY <1>0 DEF BrowseTypes
  <1>2. Tail(rcv.pending) \in Seq(S)
    BY <1>0, <1>1
  <1>3. /\ h = [pc |-> h.pc, cmd |-> rcv.cmd, via |-> rcv.via, list |-> h.list,
                removed |-> h.removed, resolvers |-> rcv.resolvers, pending |-> rcv.pending,
                serial |-> h.serial, late |-> rcv.late]
        /\ h.pc \in {rcv.pc, "resolver"}
        /\ IsFiniteSet(DOMAIN h.list) /\ Cardinality(DOMAIN h.list) <= MaxSources
        /\ IsFiniteSet(h.removed) /\ Cardinality(h.removed) <= MaxRemoved
        /\ h.list = [n \in DOMAIN h.list |-> h.list[n]]
        /\ ~Forgets(m) => /\ h.list = ListBy(m, rcv.list, rcv.removed)
                          /\ h.removed = GoneBy(m, rcv.removed)
    BY <1>0, HandledTypes
  <1> HIDE DEF h
  <1>4. /\ hist'.found = hist.found /\ hist'.gone = hist.gone
        /\ hist'.lossy = (hist.lossy \/ Forgets(m))
        /\ hist' = [found |-> hist'.found, gone |-> hist'.gone, lossy |-> hist'.lossy]
    BY <1>0 DEF DiscoveryShapes
  <1> HIDE DEF m
  <1>5. rcv' = [pc |-> h.pc, cmd |-> rcv.cmd, via |-> rcv.via, list |-> h.list,
                removed |-> h.removed, resolvers |-> rcv.resolvers,
                pending |-> Tail(rcv.pending), serial |-> h.serial, late |-> rcv.late]
    <2>1. h.pending = rcv.pending
      BY <1>3
    <2>2. rcv' = [h EXCEPT !.pending = Tail(rcv.pending)]
      BY <1>0, <2>1
    <2>3. h = [pc |-> h.pc, cmd |-> rcv.cmd, via |-> rcv.via, list |-> h.list,
               removed |-> h.removed, resolvers |-> rcv.resolvers, pending |-> rcv.pending,
               serial |-> h.serial, late |-> rcv.late]
      BY <1>3
    <2>4. PICK t : t = Tail(rcv.pending)
      OBVIOUS
    <2>5. rcv' = [pc |-> h.pc, cmd |-> rcv.cmd, via |-> rcv.via, list |-> h.list,
                  removed |-> h.removed, resolvers |-> rcv.resolvers,
                  pending |-> t, serial |-> h.serial, late |-> rcv.late]
      <3>1. rcv' = [h EXCEPT !.pending = t]
        BY <2>2, <2>4
      <3> QED  BY <2>3, <3>1
    <2> QED  BY <2>4, <2>5
  <1>6. /\ rcv'.pc \in {"loop", "resolver"} /\ rcv'.list = h.list /\ rcv'.removed = h.removed
        /\ rcv'.pending = Tail(rcv.pending)
    BY <1>0, <1>3, <1>5
  <1>7. BrowseTypes'
    BY <1>0, <1>2, <1>3, <1>4, <1>6 DEF BrowseTypes
  <1>8. ASSUME ~hist'.lossy
        PROVE  Agrees(rcv'.list, rcv'.removed, rcv'.pending, hist'.found, hist'.gone)
    <2>1. ~hist.lossy /\ ~Forgets(m)
      BY <1>4, <1>8
    <2>2. Agrees(rcv.list, rcv.removed, rcv.pending, hist.found, hist.gone)
      BY <2>1 DEF DiscoveryInv, BrowseInv
    <2>3. m = Head(rcv.pending)
      BY DEF m
    <2>4. Agrees(ListBy(m, rcv.list, rcv.removed), GoneBy(m, rcv.removed), Tail(rcv.pending),
                 hist.found, hist.gone)
      BY <1>0, <1>1, <2>2, <2>3, HandleAgrees
    <2> QED  BY <1>3, <1>4, <1>6, <2>1, <2>4
  <1>9. BrowseInv'
    BY <1>7, <1>8 DEF BrowseInv
  <1>10. rcv' = [pc |-> rcv'.pc, cmd |-> rcv.cmd, via |-> rcv.via, list |-> rcv'.list,
                 removed |-> rcv'.removed, resolvers |-> rcv'.resolvers,
                 pending |-> rcv'.pending, serial |-> rcv'.serial, late |-> rcv'.late]
    BY <1>5
  <1> QED  BY <1>0, <1>4, <1>6, <1>9, <1>10, ReadKeeps

\* next() reads from the bus.
LEMMA NextReadsKeeps ==
    ASSUME DiscoveryInv, NextReads
    PROVE  DiscoveryInv'
  <1> DEFINE m == Head(wire)
             h == Handled(m)
  <1>0. /\ UNCHANGED <<net, cache, unsure, probe>> /\ DiscoveryShapes /\ BrowseTypes
        /\ rcv.pc = "loop" /\ rcv.pending = << >>
        /\ rcv' = IF m.kind = "bad" THEN [rcv EXCEPT !.pc = "free"] ELSE h
        /\ hist' = [Noted(m) EXCEPT !.lossy = @ \/ Forgets(m)]
    BY DEF NextReads, web, DiscoveryInv, BrowseInv
  <1>1. /\ h = [pc |-> h.pc, cmd |-> rcv.cmd, via |-> rcv.via, list |-> h.list,
                removed |-> h.removed, resolvers |-> rcv.resolvers, pending |-> rcv.pending,
                serial |-> h.serial, late |-> rcv.late]
        /\ h.pc \in {rcv.pc, "resolver"}
        /\ IsFiniteSet(DOMAIN h.list) /\ Cardinality(DOMAIN h.list) <= MaxSources
        /\ IsFiniteSet(h.removed) /\ Cardinality(h.removed) <= MaxRemoved
        /\ h.list = [n \in DOMAIN h.list |-> h.list[n]]
        /\ ~Forgets(m) => /\ h.list = ListBy(m, rcv.list, rcv.removed)
                          /\ h.removed = GoneBy(m, rcv.removed)
    BY <1>0, HandledTypes
  <1>2. m.kind = "bad" => h = rcv
    BY DEF Handled
  <1> HIDE DEF h, m
  <1>3. /\ hist'.found = FoundBy(m, hist.found) /\ hist'.gone = GoneBy(m, hist.gone)
        /\ hist'.lossy = (hist.lossy \/ Forgets(m))
        /\ hist' = [found |-> hist'.found, gone |-> hist'.gone, lossy |-> hist'.lossy]
    BY <1>0, NotedIs
  <1>4. /\ rcv' = [pc |-> rcv'.pc, cmd |-> rcv.cmd, via |-> rcv.via, list |-> h.list,
                   removed |-> h.removed, resolvers |-> rcv.resolvers,
                   pending |-> << >>, serial |-> h.serial, late |-> rcv.late]
        /\ rcv'.pc \in {"loop", "resolver", "free"}
    <2>1. CASE m.kind = "bad"
      BY <1>0, <1>2, <2>1 DEF DiscoveryShapes
    <2>2. CASE m.kind # "bad"
      BY <1>0, <1>1, <2>2
    <2> QED  BY <2>1, <2>2
  <1>5. rcv'.list = h.list /\ rcv'.removed = h.removed /\ rcv'.pending = << >>
    BY <1>4
  <1>6. hist'.found = [n \in DOMAIN hist'.found |-> hist'.found[n]]
    BY <1>0, <1>3, FoundByFunction DEF BrowseTypes
  <1>7. BrowseTypes'
    BY ZenonT(40), <1>0, <1>1, <1>4, <1>5, <1>6 DEF BrowseTypes
  <1>8. ASSUME ~hist'.lossy
        PROVE  Agrees(rcv'.list, rcv'.removed, rcv'.pending, hist'.found, hist'.gone)
    <2>1. ~hist.lossy /\ ~Forgets(m)
      BY <1>3, <1>8
    <2>2. Agrees(rcv.list, rcv.removed, << >>, hist.found, hist.gone)
      BY <1>0, <2>1 DEF DiscoveryInv, BrowseInv
    <2>3. Agrees(ListBy(m, rcv.list, rcv.removed), GoneBy(m, rcv.removed), << >>,
                 FoundBy(m, hist.found), GoneBy(m, hist.gone))
      BY <2>2, ReadAgrees
    <2> QED  BY <1>1, <1>3, <1>5, <2>1, <2>3
  <1>9. BrowseInv'
    BY <1>7, <1>8 DEF BrowseInv
  <1> QED  BY <1>0, <1>3, <1>4, <1>5, <1>9, ReadKeeps

\* server_sources(): a removal is the last word until the name comes again.
\* The types of a list that a server built: it has no queue and no removals.
LEMMA ServerTypes ==
    ASSUME DiscoveryInv, rcv.pc = "server", rcv'.removed = {}, rcv'.pending = << >>,
           rcv'.list = [j \in DOMAIN rcv'.list |-> rcv'.list[j]],
           IsFiniteSet(DOMAIN rcv'.list), Cardinality(DOMAIN rcv'.list) <= MaxSources,
           hist'.found = [n \in DOMAIN hist'.found |-> hist'.found[n]]
    PROVE  BrowseTypes'
  <1>1. << >> \in Seq({})
    OBVIOUS
  <1>2. \E S : rcv'.pending \in Seq(S)
    BY <1>1
  <1>3. IsFiniteSet(rcv.removed) /\ Cardinality(rcv.removed) <= MaxRemoved /\ rcv.removed = {}
    BY DEF DiscoveryInv, BrowseInv, BrowseTypes
  <1>4. IsFiniteSet(rcv'.removed) /\ Cardinality(rcv'.removed) <= MaxRemoved
    BY <1>3
  <1> QED  BY <1>2, <1>4 DEF BrowseTypes

LEMMA ServerReadsKeeps ==
    ASSUME DiscoveryInv, ServerReads
    PROVE  DiscoveryInv'
  <1> DEFINE m == Head(wire)
  <1>0. /\ UNCHANGED <<net, cache, unsure, probe>> /\ DiscoveryShapes /\ BrowseTypes
        /\ rcv.pc = "server" /\ Cardinality(DOMAIN rcv.list) < MaxSources
        /\ rcv' = CASE m.kind = "remove" -> [rcv EXCEPT !.list = Without(rcv.list, m.name)]
                    [] m.kind = "found" /\ m.ep # Undiallable
                         -> [rcv EXCEPT !.list = Put(rcv.list, m.name, m.ep)]
                    [] m.kind = "bad" -> [rcv EXCEPT !.pc = "print"]
                    [] OTHER -> rcv
        /\ hist' = NotedServer(m)
    BY DEF ServerReads, web, DiscoveryInv, BrowseInv
  <1> HIDE DEF m
  <1>1. /\ rcv.pending = << >> /\ rcv.removed = {}
        /\ IsFiniteSet(DOMAIN rcv.list) /\ Cardinality(DOMAIN rcv.list) <= MaxSources
        /\ hist.found = [n \in DOMAIN hist.found |-> hist.found[n]]
    BY <1>0 DEF BrowseTypes
  <1>2. ~hist.lossy => Agrees(rcv.list, {}, << >>, hist.found, hist.gone)
    BY <1>1 DEF DiscoveryInv, BrowseInv
  <1>3. CASE m.kind = "remove"
    <2> DEFINE l == Without(rcv.list, m.name)
               f == Without(hist.found, m.name)
    <2>1. /\ rcv' = [pc |-> rcv.pc, cmd |-> rcv.cmd, via |-> rcv.via, list |-> l,
                     removed |-> {}, resolvers |-> rcv.resolvers, pending |-> << >>,
                     serial |-> rcv.serial, late |-> rcv.late]
      <3>1. rcv' = [rcv EXCEPT !.list = l]
        BY <1>0, <1>3
      <3> HIDE DEF l
      <3> QED  BY <1>0, <1>1, <3>1 DEF DiscoveryShapes
    <2>2. hist' = [found |-> f, gone |-> hist.gone, lossy |-> hist.lossy]
      <3>1. hist' = [hist EXCEPT !.found = f]
        BY <1>0, <1>3 DEF NotedServer
      <3> HIDE DEF f
      <3> QED  BY <1>0, <3>1 DEF DiscoveryShapes
    <2>3. /\ l = [j \in DOMAIN l |-> l[j]] /\ IsFiniteSet(DOMAIN l) /\ Cardinality(DOMAIN l) <= MaxSources
      BY <1>1, WithoutTypes
    <2>4. f = [j \in DOMAIN f |-> f[j]]
      BY DEF Without, Restrict
    <2>5. /\ DOMAIN l = DOMAIN rcv.list \ {m.name} /\ DOMAIN f = DOMAIN hist.found \ {m.name}
          /\ \A n \in DOMAIN l : l[n] = rcv.list[n]
          /\ \A n \in DOMAIN f : f[n] = hist.found[n]
      BY DEF Without, Restrict
    <2> HIDE DEF l, f
    <2>6. /\ rcv'.list = l /\ rcv'.removed = {} /\ rcv'.pending = << >> /\ rcv'.pc = "server"
          /\ hist'.found = f /\ hist'.gone = hist.gone /\ hist'.lossy = hist.lossy
      BY <1>0, <2>1, <2>2
    <2>7. BrowseTypes'
      BY <1>0, <2>3, <2>4, <2>6, ServerTypes
    <2>8. ~hist.lossy => Agrees(l, {}, << >>, f, hist.gone)
      <3> SUFFICES ASSUME ~hist.lossy PROVE Agrees(l, {}, << >>, f, hist.gone)
        OBVIOUS
      <3>1. \A i \in 1..Len(<< >>) : FALSE
        OBVIOUS
      <3>2. \A n : n \notin hist.gone
        BY <1>2, <3>1 DEF Agrees
      <3>3. \A n : /\ n \in DOMAIN rcv.list <=> n \in DOMAIN hist.found
                   /\ n \in DOMAIN rcv.list => rcv.list[n] = hist.found[n]
        BY <1>2, <3>1, <3>2 DEF Agrees
      <3>4. \A n : (n \in DOMAIN l <=> n \in DOMAIN f) /\ (n \in DOMAIN l => l[n] = f[n])
        BY <2>5, <3>3
      <3> QED  BY <3>1, <3>2, <3>4 DEF Agrees
    <2>9. BrowseInv'
      BY <2>6, <2>7, <2>8 DEF BrowseInv
    <2>10. /\ rcv' = [pc |-> rcv'.pc, cmd |-> rcv.cmd, via |-> rcv.via, list |-> rcv'.list,
                      removed |-> rcv'.removed, resolvers |-> rcv'.resolvers,
                      pending |-> rcv'.pending, serial |-> rcv'.serial, late |-> rcv'.late]
           /\ hist' = [found |-> hist'.found, gone |-> hist'.gone, lossy |-> hist'.lossy]
      BY <2>1, <2>2
    <2> QED  BY <1>0, <2>6, <2>9, <2>10, ReadKeeps
  <1>4. CASE m.kind # "remove"
    <2> DEFINE l == ListBy(m, rcv.list, {})
    <2>1. hist' = [found |-> FoundBy(m, hist.found), gone |-> GoneBy(m, hist.gone),
                   lossy |-> hist.lossy]
      BY <1>0, <1>4, NotedIs DEF NotedServer
    <2>2. /\ rcv' = [pc |-> rcv'.pc, cmd |-> rcv.cmd, via |-> rcv.via, list |-> l,
                     removed |-> {}, resolvers |-> rcv.resolvers, pending |-> << >>,
                     serial |-> rcv.serial, late |-> rcv.late]
          /\ rcv'.pc \in {"server", "print"}
          /\ l = [j \in DOMAIN l |-> l[j]] /\ IsFiniteSet(DOMAIN l) /\ Cardinality(DOMAIN l) <= MaxSources
      <3>1. CASE m.kind = "found" /\ m.ep # Undiallable
        <4>1. rcv' = [rcv EXCEPT !.list = Put(rcv.list, m.name, m.ep)]
          BY <1>0, <3>1
        <4>2. l = Set(rcv.list, m.name, m.ep)
          BY <3>1 DEF ListBy, Finds
        <4>3. /\ l = Put(rcv.list, m.name, m.ep) /\ l = [j \in DOMAIN l |-> l[j]]
              /\ IsFiniteSet(DOMAIN l) /\ Cardinality(DOMAIN l) <= MaxSources
          BY <1>0, <1>1, <4>2, PutTypes
        <4> HIDE DEF l
        <4>4. rcv' = [rcv EXCEPT !.list = l]
          BY <4>1, <4>3
        <4> QED  BY <1>0, <1>1, <4>3, <4>4 DEF DiscoveryShapes
      <3>2. CASE ~(m.kind = "found" /\ m.ep # Undiallable)
        <4>1. rcv' = [rcv EXCEPT !.pc = "print"] \/ rcv' = rcv
          BY <1>0, <1>4, <3>2
        <4>2. l = rcv.list
          BY <1>4, <3>2 DEF ListBy, Finds
        <4> HIDE DEF l
        <4> QED  BY <1>0, <1>1, <4>1, <4>2 DEF DiscoveryShapes, BrowseTypes
      <3> QED  BY <3>1, <3>2
    <2>3. l = ListBy(m, rcv.list, {}) /\ GoneBy(m, {}) = {}
      BY <1>4 DEF GoneBy
    <2> HIDE DEF l
    <2>4. /\ rcv'.list = l /\ rcv'.removed = {} /\ rcv'.pending = << >>
          /\ hist'.found = FoundBy(m, hist.found) /\ hist'.gone = GoneBy(m, hist.gone)
          /\ hist'.lossy = hist.lossy
      BY <2>1, <2>2
    <2>5. hist'.found = [n \in DOMAIN hist'.found |-> hist'.found[n]]
      BY <1>1, <2>4, FoundByFunction
    <2>6. BrowseTypes'
      BY <1>0, <2>2, <2>4, <2>5, ServerTypes
    <2>7. ~hist.lossy => Agrees(l, {}, << >>, FoundBy(m, hist.found), GoneBy(m, hist.gone))
      BY <1>2, <2>3, ReadAgrees
    <2>8. BrowseInv'
      BY <2>4, <2>6, <2>7 DEF BrowseInv
    <2>9. /\ rcv' = [pc |-> rcv'.pc, cmd |-> rcv.cmd, via |-> rcv.via, list |-> rcv'.list,
                     removed |-> rcv'.removed, resolvers |-> rcv'.resolvers,
                     pending |-> rcv'.pending, serial |-> rcv'.serial, late |-> rcv'.late]
          /\ hist' = [found |-> hist'.found, gone |-> hist'.gone, lossy |-> hist'.lossy]
      BY <2>1, <2>2
    <2> QED  BY <1>0, <2>2, <2>8, <2>9, ReadKeeps
  <1> QED  BY <1>3, <1>4

LEMMA ResolvedKeeps ==
    ASSUME DiscoveryInv, NEW n, Resolved(n)
    PROVE  DiscoveryInv'
  <1>1. CASE n \in DOMAIN rcv.list
    <2>1. UNCHANGED <<net, cache, unsure, probe>> /\ DiscoveryShapes
      BY <1>1 DEF Resolved, web, DiscoveryInv
    <2>2. rcv' = Started("dial", "probe", NoServer) /\ rcv'.cmd = "probe" /\ hist' = Nothing
      BY <1>1 DEF Resolved, Disconnects, Dialling, Off, Started
    <2>3. TransportInv'
      BY <2>1, <2>2, ConfiguredSame DEF DiscoveryInv, TransportInv, CacheCurrent
    <2>4. ProbeShape(probe')
      BY <2>1 DEF DiscoveryShapes
    <2> QED  BY <2>2, <2>3, <2>4, FreshReceiver
  <1>2. CASE n \notin DOMAIN rcv.list
    BY <1>2, ExitKeeps DEF Resolved, web
  <1> QED  BY <1>1, <1>2

\* The fields of a probe's record.
ProbeIs(p, left, until, on, open, body, ready, got, torn, missed) ==
    /\ ProbeShape(p) /\ p.left = left /\ p.until = until /\ p.on = on /\ p.open = open
    /\ p.body = body /\ p.ready = ready /\ p.got = got /\ p.torn = torn /\ p.missed = missed

\* A pass of measure() begins, with its video sample.
LEMMA PassBegins ==
    ASSUME NEW p, ProbeShape(p), p.left \in Nat, p.ready \subseteq p.open, p.open \subseteq p.on,
           p.left > 0, p.body = 0, "video" \in p.ready \ p.got => p.missed,
           rcv'.pc = "video", probe' = Samples(p)
    PROVE  ProbeInv' /\ ProbeShape(probe')
  <1> DEFINE d == FairSampleDeadline(p.left, "audio" \in p.on \ p.got)
  <1>1. d \in Nat /\ d <= p.left /\ ("audio" \in p.on \ p.got => d >= 1)
    <2>1. PICK b \in BOOLEAN : b <=> "audio" \in p.on \ p.got
      OBVIOUS
    <2>2. d = IF b THEN p.left - p.left \div 2 ELSE 0
      BY <2>1 DEF FairSampleDeadline
    <2>3. p.left \div 2 \in Nat /\ p.left \div 2 < p.left
      OBVIOUS
    <2> HIDE DEF d
    <2> QED  BY <2>1, <2>2, <2>3
  <1>2. probe' = [p EXCEPT !.until = d]
    BY DEF Samples
  <1> HIDE DEF d
  <1>3. ProbeIs(probe', p.left, d, p.on, p.open, p.body, p.ready, p.got, p.torn, p.missed)
    BY <1>2 DEF ProbeShape, ProbeIs
  <1> QED  BY <1>1, <1>3 DEF ProbeInv, ProbeFair, ProbeIs, Media

LEMMA FreshProbe ==
    ASSUME NEW o, NEW p, p = [NoProbe EXCEPT !.left = Budget, !.on = o, !.open = o]
    PROVE  ProbeIs(p, Budget, 0, o, o, 0, {}, {}, {}, FALSE)
  BY DEF NoProbe, ProbeIs, ProbeShape

\* A frame that has begun is lost with its channel; another channel does not
\* matter to the sample in progress.
LEMMA ClosedIs ==
    ASSUME NEW p, ProbeShape(p), NEW media, NEW q, q = Closed(p, media)
    PROVE  ProbeIs(q, p.left, p.until, p.on, p.open \ {media}, IF media = rcv.pc THEN 0 ELSE p.body,
                   p.ready, p.got, IF media = rcv.pc /\ p.body > 0 THEN p.torn \cup {media} ELSE p.torn,
                   p.missed)
  <1> DEFINE b == IF media = rcv.pc THEN 0 ELSE p.body
             t == IF media = rcv.pc /\ p.body > 0 THEN p.torn \cup {media} ELSE p.torn
  <1>1. q = [p EXCEPT !.open = p.open \ {media}, !.body = b, !.torn = t]
    BY DEF Closed
  <1> HIDE DEF b, t
  <1>2. ProbeIs(q, p.left, p.until, p.on, p.open \ {media}, b, p.ready, p.got, t, p.missed)
    BY <1>1 DEF ProbeIs, ProbeShape
  <1> QED  BY <1>2 DEF b, t

LEMMA TakenIs ==
    ASSUME ProbeShape(probe), NEW media, NEW q, q = Taken(media)
    PROVE  /\ ProbeIs(q, probe.left, probe.until, probe.on, probe.open, 0, probe.ready, q.got,
                      probe.torn, probe.missed)
           /\ probe.got \subseteq q.got
           /\ media \in probe.ready /\ InTime(media) => media \in q.got
  <1> DEFINE g == IF media \in probe.ready /\ InTime(media) THEN probe.got \cup {media} ELSE probe.got
  <1>1. q = [probe EXCEPT !.got = g, !.body = 0]
    BY DEF Taken
  <1>2. probe.got \subseteq g /\ (media \in probe.ready /\ InTime(media) => media \in g)
    OBVIOUS
  <1> HIDE DEF g
  <1>3. /\ ProbeIs(q, probe.left, probe.until, probe.on, probe.open, 0, probe.ready, g,
                   probe.torn, probe.missed)
        /\ q.got = g
    BY <1>1 DEF ProbeIs, ProbeShape
  <1> QED  BY <1>2, <1>3

\* What ProbeInv says while a sample is in progress.
LEMMA SampleFacts ==
    ASSUME DiscoveryInv, rcv.pc \in Media
    PROVE  /\ probe.left \in Nat /\ probe.until \in Nat /\ probe.body \in Nat
           /\ probe.ready \subseteq probe.open /\ probe.open \subseteq probe.on
           /\ probe.body > 0 => rcv.pc \in probe.open \ probe.got
           /\ rcv.pc = "video" /\ "audio" \in probe.open \ probe.got =>
                /\ probe.until >= 1
                /\ probe.body = 0 /\ "video" \notin probe.torn => probe.left >= probe.until
           /\ rcv.pc = "audio" /\ "audio" \in probe.ready \ probe.got =>
                InTime("audio") \/ "video" \in probe.got \cup probe.torn
           /\ "video" \in probe.ready \ probe.got /\ ~probe.missed =>
                rcv.pc = "video" /\ InTime("video")
  BY DEF DiscoveryInv, ProbeInv

LEMMA DialsProbe ==
    ASSUME DiscoveryInv, Dials
    PROVE  ProbeInv' /\ ProbeShape(probe')
  <1>1. PICK on \in SUBSET Media :
            probe' = Samples([NoProbe EXCEPT !.left = Budget, !.on = on, !.open = on])
    BY DEF Dials
  <1> DEFINE p == [NoProbe EXCEPT !.left = Budget, !.on = on, !.open = on]
  <1>2. ProbeIs(p, Budget, 0, on, on, 0, {}, {}, {}, FALSE)
    BY FreshProbe
  <1>3. rcv'.pc = "video"
    BY DEF Dials, Goes, DiscoveryShapes, DiscoveryInv
  <1> HIDE DEF p
  <1>4. /\ ProbeShape(p) /\ p.left \in Nat /\ p.left > 0 /\ p.ready \subseteq p.open
        /\ p.open \subseteq p.on /\ p.body = 0 /\ ("video" \in p.ready \ p.got => p.missed)
    BY <1>2, ListBounds DEF ProbeIs
  <1> QED  BY <1>1, <1>3, <1>4, PassBegins DEF p

LEMMA BeginsProbe ==
    ASSUME DiscoveryInv, ProbeShape(probe), Begins
    PROVE  ProbeInv' /\ ProbeShape(probe')
  <1>1. /\ rcv' = rcv /\ rcv.pc \in Media /\ ~Over(rcv.pc) /\ probe.body = 0
        /\ probe' = [probe EXCEPT !.body = BodyBudget]
    BY DEF Begins, Sampling
  <1>2. ProbeIs(probe', probe.left, probe.until, probe.on, probe.open, BodyBudget, probe.ready, probe.got,
                probe.torn, probe.missed)
    BY <1>1 DEF ProbeIs, ProbeShape
  <1>3. rcv.pc \in probe.open \ probe.got /\ rcv.pc \notin probe.ready
    BY <1>1 DEF Over
  <1>4. BodyBudget \in Nat /\ BodyBudget > 0
    BY ListBounds
  <1> QED  BY <1>1, <1>2, <1>3, <1>4, SampleFacts DEF ProbeInv, ProbeFair, ProbeIs, InTime, Limit, Media

LEMMA ArrivesProbe ==
    ASSUME DiscoveryInv, ProbeShape(probe), NEW media \in Media, Arrives(media)
    PROVE  ProbeInv' /\ ProbeShape(probe')
  <1> DEFINE m == probe.missed \/ (media = "video" /\ ~(rcv.pc = "video" /\ InTime("video")))
  <1>1. /\ rcv' = rcv /\ rcv.pc \in Media /\ media \in probe.open
        /\ probe.left > 0 \/ (media = rcv.pc /\ probe.body > 0)
        /\ probe' = [probe EXCEPT !.ready = probe.ready \cup {media}, !.missed = m]
    BY DEF Arrives, Sampling
  <1>m. (probe.missed => m) /\ (media = "video" /\ ~m => rcv.pc = "video" /\ InTime("video"))
    OBVIOUS
  <1> HIDE DEF m
  <1>2. ProbeIs(probe', probe.left, probe.until, probe.on, probe.open, probe.body,
                probe.ready \cup {media}, probe.got, probe.torn, m)
    BY <1>1 DEF ProbeIs, ProbeShape
  <1>3. rcv.pc = "audio" /\ media = "audio" => InTime("audio")
    BY <1>1, SampleFacts DEF InTime, Limit
  <1> QED  BY <1>1, <1>m, <1>2, <1>3, SampleFacts
              DEF ProbeInv, ProbeFair, ProbeIs, InTime, Limit, Media

LEMMA ClosesProbe ==
    ASSUME DiscoveryInv, ProbeShape(probe), NEW media \in Media, Closes(media)
    PROVE  ProbeInv' /\ ProbeShape(probe')
  <1>1. /\ rcv' = rcv /\ rcv.pc \in Media /\ media \in probe.open \ probe.ready
        /\ probe' = Closed(probe, media)
    BY DEF Closes, Sampling
  <1>2. ProbeIs(probe', probe.left, probe.until, probe.on, probe.open \ {media},
                IF media = rcv.pc THEN 0 ELSE probe.body, probe.ready, probe.got,
                IF media = rcv.pc /\ probe.body > 0 THEN probe.torn \cup {media} ELSE probe.torn,
                probe.missed)
    BY <1>1, ClosedIs
  <1>3. CASE media = rcv.pc
    BY <1>1, <1>2, <1>3, SampleFacts DEF ProbeInv, ProbeFair, ProbeIs, InTime, Limit, Media
  <1>4. CASE media # rcv.pc
    BY <1>1, <1>2, <1>4, SampleFacts DEF ProbeInv, ProbeFair, ProbeIs, InTime, Limit, Media
  <1> QED  BY <1>3, <1>4

LEMMA VideoProbe ==
    ASSUME DiscoveryInv, ProbeShape(probe), VideoSampled
    PROVE  ProbeInv' /\ ProbeShape(probe')
  <1>1. rcv.pc = "video" /\ rcv'.pc = "audio" /\ Over("video") /\ probe' = Taken("video")
    BY DEF VideoSampled, Goes, DiscoveryShapes, DiscoveryInv
  <1>2. /\ ProbeIs(probe', probe.left, probe.until, probe.on, probe.open, 0, probe.ready, probe'.got,
                   probe.torn, probe.missed)
        /\ probe.got \subseteq probe'.got
        /\ "video" \in probe.ready /\ InTime("video") => "video" \in probe'.got
    BY <1>1, TakenIs
  <1>3. ASSUME "audio" \in probe.ready \ probe.got
        PROVE  probe.left > 0 \/ "video" \in probe'.got \cup probe.torn
    <2>1. CASE probe.body > 0
      BY <1>1, <1>2, <2>1, SampleFacts DEF Over, InTime, Media
    <2>2. CASE probe.body = 0
      BY <1>1, <1>3, <2>2, SampleFacts DEF Media
    <2> QED  BY <1>1, <2>1, <2>2, SampleFacts DEF Media
  <1> QED  BY <1>1, <1>2, <1>3, SampleFacts DEF ProbeInv, ProbeFair, ProbeIs, InTime, Limit, Media

LEMMA AudioProbe ==
    ASSUME DiscoveryInv, ProbeShape(probe), AudioSampled
    PROVE  ProbeInv' /\ ProbeShape(probe')
  <1> DEFINE p == Taken("audio")
  <1>1. /\ rcv.pc = "audio"
        /\ \/ p.left > 0 /\ probe' = Samples(p) /\ rcv' = [rcv EXCEPT !.pc = "video"]
           \/ probe' = p /\ rcv' = [rcv EXCEPT !.pc = "report"]
    BY DEF AudioSampled, Goes
  <1>2. /\ ProbeIs(p, probe.left, probe.until, probe.on, probe.open, 0, probe.ready, p.got,
                   probe.torn, probe.missed)
        /\ probe.got \subseteq p.got
        /\ "audio" \in probe.ready /\ InTime("audio") => "audio" \in p.got
    BY TakenIs
  <1> HIDE DEF p
  <1>3. CASE p.left > 0 /\ probe' = Samples(p) /\ rcv' = [rcv EXCEPT !.pc = "video"]
    <2>1. rcv'.pc = "video"
      BY <1>3 DEF DiscoveryShapes, DiscoveryInv
    <2>2. /\ ProbeShape(p) /\ p.left \in Nat /\ p.ready \subseteq p.open /\ p.open \subseteq p.on
          /\ p.body = 0 /\ ("video" \in p.ready \ p.got => p.missed)
      BY <1>1, <1>2, SampleFacts DEF ProbeIs, Media
    <2> QED  BY <1>3, <2>1, <2>2, PassBegins
  <1>4. CASE probe' = p /\ rcv' = [rcv EXCEPT !.pc = "report"]
    <2>1. rcv'.pc = "report"
      BY <1>4 DEF DiscoveryShapes, DiscoveryInv
    <2> QED  BY <1>1, <1>2, <1>4, <2>1, SampleFacts DEF ProbeInv, ProbeFair, ProbeIs, Media
  <1> QED  BY <1>1, <1>3, <1>4

LEMMA WaitsProbe ==
    ASSUME DiscoveryInv, ProbeShape(probe), SampleWaits
    PROVE  ProbeInv' /\ ProbeShape(probe')
  <1> DEFINE n == IF probe.left > 0 THEN probe.left - 1 ELSE 0
             p == [probe EXCEPT !.left = n]
  <1>1. /\ rcv' = rcv /\ rcv.pc \in Media
        /\ ~Over(rcv.pc) \/ (probe.open \subseteq probe.got /\ probe.left > 0)
        /\ probe' = CASE p.body > 1 -> [p EXCEPT !.body = p.body - 1]
                      [] p.body = 1 -> Closed(p, rcv.pc)
                      [] OTHER -> p
    BY DEF SampleWaits, Sampling
  <1>2. /\ n \in Nat /\ (probe.left > 0 => n = probe.left - 1)
    BY <1>1, SampleFacts
  <1>3. ProbeIs(p, n, probe.until, probe.on, probe.open, probe.body, probe.ready, probe.got,
                probe.torn, probe.missed)
    <2> HIDE DEF n
    <2> QED  BY DEF ProbeIs, ProbeShape
  <1> HIDE DEF n, p
  <1>4. /\ "video" \in probe.ready => "video" \in probe.got \/ rcv.pc # "video"
        /\ "audio" \in probe.ready => "audio" \in probe.got \/ rcv.pc # "audio"
        /\ probe.open \subseteq probe.got => probe.ready \subseteq probe.got
    BY <1>1, SampleFacts DEF Over
  <1>5. CASE probe.body > 1
    <2>1. probe' = [p EXCEPT !.body = probe.body - 1]
      BY <1>1, <1>3, <1>5 DEF ProbeIs
    <2>2. ProbeIs(probe', n, probe.until, probe.on, probe.open, probe.body - 1, probe.ready, probe.got,
                  probe.torn, probe.missed)
      BY <1>3, <2>1 DEF ProbeIs, ProbeShape
    <2>3. probe.body - 1 \in Nat /\ probe.body - 1 > 0
      BY <1>1, <1>5, SampleFacts
    <2> QED  BY <1>1, <1>2, <1>4, <1>5, <2>2, <2>3, SampleFacts
                DEF ProbeInv, ProbeFair, ProbeIs, InTime, Limit, Media
  <1>6. CASE probe.body = 1
    <2>1. probe' = Closed(p, rcv.pc) /\ p.body = 1
      BY <1>1, <1>3, <1>6 DEF ProbeIs
    <2>2. ProbeIs(probe', n, probe.until, probe.on, probe.open \ {rcv.pc}, 0, probe.ready, probe.got,
                  probe.torn \cup {rcv.pc}, probe.missed)
      <3>1. /\ ProbeShape(p) /\ p.left = n /\ p.until = probe.until /\ p.on = probe.on
            /\ p.open = probe.open /\ p.ready = probe.ready /\ p.got = probe.got
            /\ p.torn = probe.torn /\ p.missed = probe.missed /\ p.body > 0
        BY <1>3, <2>1 DEF ProbeIs
      <3>2. ProbeIs(probe', p.left, p.until, p.on, p.open \ {rcv.pc}, 0, p.ready, p.got,
                    p.torn \cup {rcv.pc}, p.missed)
        BY <2>1, <3>1, ClosedIs
      <3> QED  BY <3>1, <3>2
    <2>3. rcv.pc \notin probe.ready
      BY <1>1, <1>4, <1>6, SampleFacts DEF Media
    <2> QED  BY <1>1, <1>2, <1>4, <1>6, <2>2, <2>3, SampleFacts
                DEF ProbeInv, ProbeFair, ProbeIs, InTime, Limit, Media
  <1>7. CASE probe.body = 0
    <2>1. probe' = p
      BY <1>1, <1>3, <1>7 DEF ProbeIs
    <2>2. ProbeIs(probe', n, probe.until, probe.on, probe.open, 0, probe.ready, probe.got,
                  probe.torn, probe.missed)
      BY <1>3, <1>7, <2>1
    <2>3. CASE ~Over(rcv.pc)
      <3>1. probe.left > Limit(rcv.pc) /\ rcv.pc \in probe.open \ probe.got /\ rcv.pc \notin probe.ready
        BY <1>1, <1>7, <2>3 DEF Over, InTime
      <3>2. rcv.pc = "video" => n >= probe.until
        BY <1>1, <1>2, <3>1, SampleFacts DEF Limit
      <3> QED  BY <1>1, <1>2, <2>2, <3>1, <3>2, SampleFacts
                  DEF ProbeInv, ProbeFair, ProbeIs, InTime, Limit, Media
    <2>4. CASE probe.open \subseteq probe.got
      <3>1. probe.ready \subseteq probe.got
        BY <1>4, <2>4
      <3> QED  BY <1>1, <1>2, <2>2, <2>4, <3>1, SampleFacts
                  DEF ProbeInv, ProbeFair, ProbeIs, Media
    <2> QED  BY <1>1, <2>3, <2>4
  <1>8. probe.body \in Nat
    BY <1>1, SampleFacts
  <1> QED  BY <1>5, <1>6, <1>7, <1>8

LEMMA ProbeKeeps ==
    ASSUME DiscoveryInv,
           \/ Dials \/ Begins \/ (\E media \in Media : Arrives(media) \/ Closes(media))
           \/ VideoSampled \/ AudioSampled \/ SampleWaits
    PROVE  DiscoveryInv'
  <1>0. UNCHANGED <<net, cache, unsure, hist>> /\ DiscoveryShapes /\ ProbeShape(probe)
    BY DEF Dials, Begins, Arrives, Closes, VideoSampled, AudioSampled, SampleWaits, web,
           DiscoveryInv, DiscoveryShapes
  <1>1. Along
    BY <1>0 DEF Dials, Begins, Arrives, Closes, VideoSampled, AudioSampled, SampleWaits, Goes, Along,
                DiscoveryShapes, Sampling, Media
  <1>2. ProbeInv' /\ ProbeShape(probe')
    BY <1>0, DialsProbe, BeginsProbe, ArrivesProbe, ClosesProbe, VideoProbe, AudioProbe, WaitsProbe
  <1> QED  BY <1>0, <1>1, <1>2, AlongKeeps

LEMMA NextDiscovers ==
    ASSUME DiscoveryInv, [DiscoveryNext]_discoveryVars
    PROVE  DiscoveryInv'
  <1>1. ASSUME UNCHANGED <<web, rcv, probe, hist>> PROVE DiscoveryInv'
    BY <1>1, SameReceiver, TransportSame DEF web
  <1>2. CASE \/ Makes \/ Replies \/ Noise \/ (\E n \in Names : Serves(n))
             \/ \E n \in Names, e \in Endpoints : Announces(n, e) \/ Withdraws(n, e) \/ Resolves(n, e)
    BY <1>1, <1>2 DEF Makes, Replies, Noise, Serves, Announces, Withdraws, Resolves
  <1>3. CASE (\E t : NetworkPost(t) \/ NetworkFails(t)) \/ Refresh \/ Expires
    BY <1>3, SettingsKeep
  <1>4. CASE (\E cmd : Start(cmd)) \/ StartDirect
    BY <1>4, StartKeeps
  <1>5. CASE Prints \/ Killed \/ Reports
    BY <1>5, EndKeeps
  <1>6. CASE \/ Opens \/ Subscribes \/ Deadline \/ CallTimesOut \/ LoopEnds \/ Frees \/ ServerEnds
    BY <1>6, MoveKeeps
  <1>7. CASE CallReads \/ NextQueued \/ NextReads \/ ServerReads
    BY <1>7, CallReadsKeeps, NextQueuedKeeps, NextReadsKeeps, ServerReadsKeeps
  <1>8. CASE \E n \in Names : Resolved(n)
    BY <1>8, ResolvedKeeps
  <1>9. CASE \/ Dials \/ Begins \/ (\E media \in Media : Arrives(media) \/ Closes(media))
             \/ VideoSampled \/ AudioSampled \/ SampleWaits
    BY <1>9, ProbeKeeps
  <1>10. CASE UNCHANGED discoveryVars
    BY <1>1, <1>10 DEF discoveryVars
  <1> QED  BY <1>2, <1>3, <1>4, <1>5, <1>6, <1>7, <1>8, <1>9, <1>10 DEF DiscoveryNext

LEMMA InitDiscovers ==
    ASSUME DiscoveryInit
    PROVE  DiscoveryInv
  <1>1. /\ cache = NoList /\ rcv = Off /\ probe = NoProbe /\ hist = Nothing
    BY DEF DiscoveryInit
  <1>2. DiscoveryShapes
    BY <1>1 DEF DiscoveryShapes, Off, NoProbe, Nothing, Free, ProbeShape
  <1>3. TransportInv
    BY <1>1 DEF TransportInv, CacheCurrent, Off
  <1>4. /\ rcv.pc = "off" /\ rcv.list = << >> /\ rcv.removed = {} /\ rcv.pending = << >>
        /\ hist.found = << >> /\ hist.gone = {}
    BY <1>1 DEF Off, Nothing
  <1>5. /\ << >> \in Seq({}) /\ DOMAIN << >> = {} /\ << >> = [n \in {} |-> << >>[n]]
    OBVIOUS
  <1>6. IsFiniteSet({}) /\ Cardinality({}) = 0
    BY FS_EmptySet
  <1>7. BrowseTypes
    <2>1. \E S : rcv.pending \in Seq(S)
      BY <1>4, <1>5
    <2>2. DOMAIN rcv.list = {} /\ Cardinality(DOMAIN rcv.list) <= MaxSources
          /\ IsFiniteSet(DOMAIN rcv.list)
      BY <1>4, <1>5, <1>6, ListBounds
    <2>3. IsFiniteSet(rcv.removed) /\ Cardinality(rcv.removed) <= MaxRemoved
      BY <1>4, <1>6, ListBounds
    <2>4. rcv.list = [n \in DOMAIN rcv.list |-> rcv.list[n]]
          /\ hist.found = [n \in DOMAIN hist.found |-> hist.found[n]]
      BY <1>4, <1>5
    <2> QED  BY <1>4, <2>1, <2>2, <2>3, <2>4 DEF BrowseTypes
  <1>8. Agrees(<< >>, {}, << >>, << >>, {})
    <2>1. \A i \in 1..Len(<< >>) : FALSE
      OBVIOUS
    <2> QED  BY <1>5, <2>1 DEF Agrees
  <1>9. BrowseInv
    BY <1>4, <1>7, <1>8 DEF BrowseInv
  <1>10. ProbeInv
    BY <1>4 DEF ProbeInv, Media
  <1> QED  BY <1>2, <1>3, <1>9, <1>10 DEF DiscoveryInv

\* DiscoveryInv is inductive.  It says what a browse still has to do with the
\* signals call() queued while it waited, which transport a running command
\* asks, and that measure() keeps time for audio while it samples video, but for a
\* frame that has begun.
THEOREM DiscoveryInvariant == DiscoverySpec => []DiscoveryInv
  <1>1. DiscoveryInit => DiscoveryInv
    BY InitDiscovers
  <1>2. DiscoveryInv /\ [DiscoveryNext]_discoveryVars => DiscoveryInv'
    BY NextDiscovers
  <1> QED  BY <1>1, <1>2, PTL DEF DiscoverySpec

\* The list a browse prints is what the messages it read add up to, for any
\* limits and any number of names, endpoints and signals (mdns.rs browse(),
\* dbus.rs call() and next(), discovery.rs server_sources()).
THEOREM ListsAreExact == DiscoverySpec => []ListExact
  <1>1. DiscoveryInv => ListExact
    <2> SUFFICES ASSUME DiscoveryInv, ~hist.lossy, rcv.pending = << >>
                 PROVE  rcv.list = Restrict(hist.found, DOMAIN hist.found \ hist.gone)
      BY DEF ListExact, Expected
    <2>1. Agrees(rcv.list, rcv.removed, << >>, hist.found, hist.gone)
      BY DEF DiscoveryInv, BrowseInv
    <2>2. rcv.list = [n \in DOMAIN rcv.list |-> rcv.list[n]]
      BY DEF DiscoveryInv, BrowseInv, BrowseTypes
    <2> QED  BY <2>1, <2>2, AgreesEmpty
  <1> QED  BY <1>1, DiscoveryInvariant, PTL

\* The cached names came by the transport the settings select: no list of
\* playback.rs sources() survives app.rs network_post(), but for a save that
\* was reported as failed after the new file was in place.
THEOREM CacheIsCurrent == DiscoverySpec => []CacheCurrent
  <1>1. DiscoveryInv => CacheCurrent
    BY DEF DiscoveryInv, TransportInv
  <1> QED  BY <1>1, DiscoveryInvariant, PTL

\* A probe that reports nothing had no audio in time, or spent its time on a
\* video frame that was never finished, and no video in video's share: for
\* every budget of the probe and of a frame's body (measure(), sample(),
\* fair_sample_deadline(), receive()).
THEOREM ProbesAreFair == DiscoverySpec => []ProbeFair
  <1>1. DiscoveryInv => ProbeFair
    BY DEF DiscoveryInv, ProbeInv, ProbeFair
  <1> QED  BY <1>1, DiscoveryInvariant, PTL
================================================================================
