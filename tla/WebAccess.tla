------------------------------- MODULE WebAccess -------------------------------
(***************************************************************************)
(* Who may use the operator's web interface: crates/omt-web/src/auth.rs    *)
(* (the stored password, the session registry, CSRF tokens) and app.rs     *)
(* (the routes, their preambles and the rate limiter).                     *)
(*                                                                         *)
(* The server is one thread and runs a handler to its end, so a handler is *)
(* one step.  A browser has one cookie jar and an open form that may be    *)
(* older than its cookies (a second tab); the answer to a request may be   *)
(* lost on the way back.  HMAC is injective, so a registry key is the      *)
(* session id; and nonces are never reused, so an open form is good for    *)
(* the login cookie or the session cookie its browser holds now, or for    *)
(* nothing.  A tick is a second.                                           *)
(***************************************************************************)
EXTENDS Integers, FiniteSets, Sequences

CONSTANTS
    Browsers,     \* browsers; each one is a peer address of its own
    Passwords,    \* what can be typed at the login form
    IdCount,      \* bound: session ids, reused once nobody holds them
    Lifetime,     \* session_lifetime_s
    MaxSessions,  \* MAXIMUM_SESSIONS
    LoginCount,   \* login_limit.count, and the other scopes'
    Window,       \* its window
    RateKeys,     \* RATE_KEYS
    Changes,      \* bound: passwords ever stored
    None

ASSUME WebAccessAssumption ==
    /\ {IdCount, Lifetime, MaxSessions, LoginCount, Window, RateKeys} \subseteq Nat \ {0}
    /\ Changes \in Nat

VARIABLES
    secret,    \* web_secret exists
    pwFile,    \* the stored password: [pw, salt], or none
    changes,   \* passwords stored so far; each gets a salt of its own
    registry,  \* web_sessions.json: records [id, left, digest], and for each
               \* its history: born, the password it was made under, and
               \* stray, its cookie or its revocation was lost
    up,        \* the server runs
    pw,        \* the password it loaded when it started
    rates,     \* (scope, peer) -> what is left of each counted attempt
    jar,       \* each browser's session cookie, or 0
    page,      \* what its open form's token is good for: a scope, or "none"
    tries      \* history: passwords verified in the last window, per browser

disk == <<secret, pwFile, changes>>
vars == <<disk, registry, up, pw, rates, jar, page, tries>>

Ids    == 1..IdCount
Scopes == {"login", "reboot", "diagnostics", "download"}
Keys   == Scopes \X Browsers

Init ==
    /\ secret = FALSE /\ pwFile = None /\ changes = 0
    /\ registry = {}
    /\ up = FALSE /\ pw = None
    /\ rates = [k \in Keys |-> << >>]
    /\ jar = [b \in Browsers |-> 0]
    /\ page = [b \in Browsers |-> "none"]
    /\ tries = [b \in Browsers |-> << >>]
--------------------------------------------------------------------------------
(* The stored password.                                                    *)

\* encode_password(): every stored password has a fresh salt.
Stored(p) == [pw |-> p, salt |-> changes + 1]

\* OMT_WEB_PASSWORD is plain text.
Emergency(p) == [pw |-> p, salt |-> 0]

\* Password::verify()
Verify(stored, typed) == stored.pw = typed

Digest_Plain(stored) == stored.pw

\* The registry binds a session to HMAC(secret, stored password).
Digest(stored) == stored

\* `omt-web initialize`: never replaces a secret or a password that exists.
Initialize(p) ==
    /\ ~secret \/ pwFile = None
    /\ secret' = TRUE
    /\ IF pwFile = None
       THEN changes < Changes /\ pwFile' = Stored(p) /\ changes' = changes + 1
       ELSE UNCHANGED <<pwFile, changes>>
    /\ UNCHANGED <<registry, up, pw, rates, jar, page, tries>>

\* `omt-web set-password`, beside a running server: replace_password(), which
\* refuses while the emergency password overrides the file.
SetPassword(p) ==
    /\ changes < Changes /\ ~(up /\ pw.salt = 0)
    /\ pwFile' = Stored(p) /\ changes' = changes + 1
    /\ UNCHANGED <<secret, registry, up, pw, rates, jar, page, tries>>

\* Auth::load(), App::new(): the limiter starts empty.
Serve ==
    /\ ~up /\ secret
    /\ \/ pwFile # None /\ pw' = pwFile
       \/ \E p \in Passwords : pw' = Emergency(p)
    /\ up' = TRUE
    /\ UNCHANGED <<disk, registry, rates, jar, page, tries>>

\* Stopped, or died: what it held in memory is gone.
Stop ==
    /\ up /\ up' = FALSE /\ pw' = None
    /\ rates' = [k \in Keys |-> << >>] /\ tries' = [b \in Browsers |-> << >>]
    /\ UNCHANGED <<disk, registry, jar, page>>
--------------------------------------------------------------------------------
(* Sessions.                                                               *)

\* read_registry(): whatever cannot be read is an empty registry.
Read(readable) == IF readable THEN registry ELSE {}

\* The test of is_current() on one record.
Live(r) == r.left > 0 /\ r.digest = Digest(pw)

\* is_current()
IsCurrent(id, readable) == id # 0 /\ \E r \in Read(readable) : r.id = id /\ Live(r)

\* random_hex(32): the smallest id nobody knows stands for a fresh one.
FreshIds == LET free == Ids \ ({r.id : r \in registry} \cup {jar[b] : b \in Browsers})
            IN  {i \in free : \A j \in free : i <= j}

Fresh(id, stray) ==
    [id |-> id, left |-> Lifetime, digest |-> Digest(pw), born |-> pw, stray |-> stray]

Evicted_Newest(records) ==
    IF Cardinality(records) <= MaxSessions THEN {records}
    ELSE {records \ {r} : r \in {s \in records : \A t \in records : t.left <= s.left}}

\* The soonest-expiring record gives way past the cap; which of several that
\* expire together depends on their keys.
Evicted(records) ==
    IF Cardinality(records) <= MaxSessions THEN {records}
    ELSE {records \ {r} : r \in {s \in records : \A t \in records : s.left <= t.left}}

Kept_Previous(previous, readable) == {r \in Read(readable) : Live(r)}

\* The records a login keeps: live ones, but for the browser's previous session.
Kept(previous, readable) == {r \in Read(readable) : Live(r) /\ r.id # previous}

\* write_registry(): the file is replaced, or stays as it was.
WriteRegistry(records) == {records, registry}

\* revoke()
Revoked(id) == {r \in registry : r.id # id}

\* History: no browser holds this session any more.
Strayed(records, id) == {[r EXCEPT !.stray = @ \/ r.id = id] : r \in records}
--------------------------------------------------------------------------------
(* The rate limiter.                                                       *)

\* retain(): what has time left, in its order.
Aged(s) ==
    LET kept[i \in 0..Len(s)] ==
            IF i = 0 THEN << >>
            ELSE IF s[i] > 0 THEN Append(kept[i - 1], s[i]) ELSE kept[i - 1]
    IN  kept[Len(s)]

\* allow(): every key is aged first and an empty one forgotten.
Pruned == [k \in Keys |-> Aged(rates[k])]

Known(k) == {j \in Keys \ {k} : Pruned[j] # << >>}

Room(k) == Pruned[k] # << >> \/ Cardinality(Known(k)) < RateKeys

Allow_Evicts(k) ==
    LET spared == IF Room(k) THEN Pruned
                  ELSE [j \in Keys |-> IF j \in Known(k) THEN << >> ELSE Pruned[j]]
        ok     == Len(Pruned[k]) < LoginCount
    IN  [ok |-> ok, rates |-> IF ok THEN [spared EXCEPT ![k] = Append(@, Window)] ELSE spared]

\* A full table refuses a key it does not know; a known one may be tried
\* LoginCount times in a window.
Allow(k) ==
    LET ok == Room(k) /\ Len(Pruned[k]) < LoginCount
    IN  [ok |-> ok, rates |-> IF ok THEN [Pruned EXCEPT ![k] = Append(@, Window)] ELSE Pruned]
--------------------------------------------------------------------------------
(* The routes.                                                             *)

\* An answer sets the cookie and the form of the tab that asked, or is shown by
\* another tab, whose cookies make this tab's form stale.
Delivered(b, session, form) ==
    /\ jar' = [jar EXCEPT ![b] = session]
    /\ page' \in {[page EXCEPT ![b] = form],
                  [page EXCEPT ![b] = IF @ = form /\ form = "session" THEN @ ELSE "none"]}

\* A page, which leaves the session cookie alone; it may never arrive.
Answer(b, form) == Delivered(b, jar[b], form) \/ UNCHANGED <<jar, page>>

\* An answer that sets no cookie and shows no form.
Redirect == UNCHANGED <<jar, page>>

\* login_page(): a fresh nonce in the cookie and in the form.
LoginPage(b) == Answer(b, "login")

\* common() and render(): the form carries the session's token.
SessionPage(b) == Answer(b, "session")

\* authenticated_post(): a current session, and its token in the form.
Posts(b) == up /\ IsCurrent(jar[b], TRUE) /\ page[b] = "session"

\* The other two answers of that preamble: to the login, or "session expired".
Refused(b) ==
    /\ up
    /\ IF IsCurrent(jar[b], TRUE) THEN page[b] # "session" /\ SessionPage(b) ELSE Redirect
    /\ UNCHANGED <<disk, registry, up, pw, rates, tries>>

\* login_get()
LoginGet(b) == \E readable \in BOOLEAN :
    /\ up
    /\ IF IsCurrent(jar[b], readable) THEN Redirect ELSE LoginPage(b)
    /\ UNCHANGED <<disk, registry, up, pw, rates, tries>>

Attempt(b) == Allow(<<"login", b>>)

LoginLimited(b) ==
    /\ up /\ ~Attempt(b).ok /\ rates' = Attempt(b).rates
    /\ LoginPage(b)
    /\ UNCHANGED <<disk, registry, up, pw, tries>>

\* An attempt counts, whatever becomes of it.
Attempted(b) == up /\ Attempt(b).ok /\ rates' = Attempt(b).rates

ValidNonce(b) == page[b] = "login"

\* login_post() with a stale form: the password is not looked at.
LoginExpired(b) ==
    /\ Attempted(b) /\ ~ValidNonce(b)
    /\ LoginPage(b)
    /\ UNCHANGED <<disk, registry, up, pw, tries>>

Verified(b) == tries' = [tries EXCEPT ![b] = Append(Aged(@), Window)]

\* A wrong password, or the registry was not replaced.
LoginRefused(b) ==
    /\ Attempted(b) /\ ValidNonce(b) /\ Verified(b)
    /\ LoginPage(b)
    /\ UNCHANGED <<disk, registry, up, pw>>

\* authenticate(): a fresh session in place of the browser's previous one.
LoginGranted(b, typed) ==
    /\ Attempted(b) /\ ValidNonce(b) /\ Verified(b) /\ Verify(pw, typed)
    /\ \E id \in FreshIds, readable \in BOOLEAN :
         /\ registry' \in Evicted(Kept(jar[b], readable) \cup {Fresh(id, FALSE)})
         /\ Delivered(b, id, "none")
    /\ UNCHANGED <<disk, up, pw>>

\* The registry was replaced, but its directory could not be synced, which
\* login_post() answers as a failure; or the answer with the cookie is lost.
LoginStray(b, typed) ==
    /\ Attempted(b) /\ ValidNonce(b) /\ Verified(b) /\ Verify(pw, typed)
    /\ \E id \in FreshIds, readable \in BOOLEAN :
         registry' \in Evicted(Kept(jar[b], readable) \cup {Fresh(id, TRUE)})
    /\ LoginPage(b)
    /\ UNCHANGED <<disk, up, pw>>

\* logout(): the cookie goes even when the registry could not be read or replaced.
Logout(b) ==
    /\ Posts(b)
    /\ \E records \in WriteRegistry(Revoked(jar[b])) :
         \/ /\ registry' = Strayed(records, jar[b])
            /\ jar' = [jar EXCEPT ![b] = 0]
            /\ page' = [page EXCEPT ![b] = "none"]
         \/ registry' = records /\ UNCHANGED <<jar, page>>
    /\ UNCHANGED <<disk, up, pw, rates, tries>>

\* Every page behind require_session(), and the pages an error renders.
PageGet(b) ==
    /\ up /\ IsCurrent(jar[b], TRUE) /\ SessionPage(b)
    /\ UNCHANGED <<disk, registry, up, pw, rates, tries>>

\* not_found(): a page or the login form, by the session.
NotFound(b) ==
    /\ up
    /\ IF IsCurrent(jar[b], TRUE) THEN SessionPage(b) ELSE LoginPage(b)
    /\ UNCHANGED <<disk, registry, up, pw, rates, tries>>

\* post_action(), and the network settings: no limit, and nothing that is kept
\* here.
PlainPost(b) ==
    /\ Posts(b)
    /\ Redirect \/ SessionPage(b)
    /\ UNCHANGED <<disk, registry, up, pw, rates, tries>>

\* reboot_post(): session, token, then limit; a request that fails redirects.
RebootPost(b) ==
    /\ Posts(b)
    /\ LET attempt == Allow(<<"reboot", b>>)
       IN  rates' = attempt.rates /\ (SessionPage(b) \/ (attempt.ok /\ Redirect))
    /\ UNCHANGED <<disk, registry, up, pw, tries>>

\* diagnostics_action(): a page in any case.
DiagnosticsPost(b) ==
    /\ Posts(b)
    /\ rates' = Allow(<<"diagnostics", b>>).rates
    /\ SessionPage(b)
    /\ UNCHANGED <<disk, registry, up, pw, tries>>

\* diagnostics_download(): the archive comes without a cookie or a form.
DownloadPost(b) ==
    /\ Posts(b)
    /\ LET attempt == Allow(<<"download", b>>)
       IN  rates' = attempt.rates /\ (SessionPage(b) \/ (attempt.ok /\ Redirect))
    /\ UNCHANGED <<disk, registry, up, pw, tries>>

\* handle(): the route's handler, to its end.  (Static files and a wrong method
\* change nothing.)
Handle(b) ==
    \/ Refused(b) \/ LoginGet(b) \/ LoginLimited(b) \/ LoginExpired(b)
    \/ LoginRefused(b) \/ (\E p \in Passwords : LoginGranted(b, p) \/ LoginStray(b, p))
    \/ Logout(b) \/ PageGet(b) \/ NotFound(b)
    \/ PlainPost(b) \/ RebootPost(b) \/ DiagnosticsPost(b) \/ DownloadPost(b)
--------------------------------------------------------------------------------
\* Less one second.
Older(s) == [i \in DOMAIN s |-> IF s[i] > 0 THEN s[i] - 1 ELSE 0]

\* Sessions and limits age together.
Tick ==
    /\ registry' = {[r EXCEPT !.left = IF @ > 0 THEN @ - 1 ELSE 0] : r \in registry}
    /\ rates' = [k \in Keys |-> Older(rates[k])]
    /\ tries' = [b \in Browsers |-> Aged(Older(tries[b]))]
    /\ UNCHANGED <<disk, up, pw, jar, page>>

\* A browser forgets its cookies.
Forget(b) ==
    /\ jar[b] # 0
    /\ jar' = [jar EXCEPT ![b] = 0]
    /\ page' = [page EXCEPT ![b] = "none"]
    /\ registry' = Strayed(registry, jar[b])
    /\ UNCHANGED <<disk, up, pw, rates, tries>>

Next ==
    \/ \E p \in Passwords : Initialize(p) \/ SetPassword(p)
    \/ Serve \/ Stop \/ Tick
    \/ \E b \in Browsers : Handle(b) \/ Forget(b)

Spec == Init /\ [][Next]_vars
--------------------------------------------------------------------------------
(* Properties.                                                             *)

\* A session is worth something only under the stored password it was made
\* with: changing the password, even to the same one, ends every session at
\* the next start of the server, and so does the emergency password.
SessionsFollowPassword ==
    up => \A r \in registry : IsCurrent(r.id, TRUE) => r.born = pw

\* Every live session is one some browser still holds, but for those that went
\* astray one by one: the cookie was forgotten or its answer lost, the write of
\* the registry was reported as failed after the new file was in place, or the
\* revocation failed.  A second login and a logout leave nothing else behind
\* that could still be used.
NoOrphanSession ==
    up => \A r \in registry : Live(r) /\ ~r.stray => \E b \in Browsers : jar[b] = r.id

\* While the server runs, no peer has its guesses verified more often than
\* the limit in any window, however full the limiter's table is.
GuessesBounded == \A b \in Browsers : Len(tries[b]) <= LoginCount

\* A session cookie that arrives opens the interface: the fresh record was
\* not the one evicted, unless all that are kept expire at the same second.
LoginSticks ==
    [][\A b \in Browsers :
         jar'[b] \notin {0, jar[b]} =>
           \/ IsCurrent(jar[b], TRUE)'
           \/ \A r \in registry' : r.left = Lifetime]_vars
================================================================================
