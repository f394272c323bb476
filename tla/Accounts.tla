------------------------------- MODULE Accounts -------------------------------
(***************************************************************************)
(* Signing in: passwords, access tokens, refresh tokens and their rotation.*)
(*                                                                         *)
(* A token is a JWT signed over the user and the second of its issue, with *)
(* nothing else in it: two of one user and one second are the SAME string. *)
(* Refresh tokens have a row in refresh_tokens; access tokens have none    *)
(* and are checked for their age.  A browser keeps the cookie with the     *)
(* refresh token and the last access token; its tabs may send requests at  *)
(* once.  Users are never deleted or given another e-mail or role (no use  *)
(* case does it); roles and rate limits are left out.                      *)
(***************************************************************************)
EXTENDS Naturals

CONSTANTS
    Users,
    Browsers,
    Nobody,        \* neither a user nor a browser
    Passwords,
    FirstPassword, \* the password each user is created with
    Requests,      \* request slots: how many handlers may be in flight
    AccessLife,    \* seconds an access token is accepted for
    RefreshLife,   \* seconds a refresh token is accepted for
    LastSecond,    \* bound on the clock
    MaxRequests,   \* bound on the requests made
    Faults         \* "stop": a handler ends between two awaits;
                   \* "lost": its answer does not reach the browser

ASSUME NobodyAssumption == Nobody \notin Users \cup Browsers
ASSUME PasswordAssumption == FirstPassword \in Passwords
ASSUME TimeAssumption ==
    /\ AccessLife \in Nat \ {0} /\ RefreshLife \in Nat \ {0}
    /\ LastSecond \in Nat /\ MaxRequests \in Nat
ASSUME FaultsAssumption == Faults \subseteq {"stop", "lost"}

VARIABLES
    now,
    password,   \* users table
    rows,       \* refresh_tokens table, by its unique token
    cookie,     \* the refresh token each browser sends
    bearer,     \* the access token each browser sends
    req,        \* the handler each slot is running
    asked,      \* requests made so far (bounds them and numbers the sessions)
    mishaps,    \* auxiliary: what befell each session besides plain use
    loggedOut   \* auxiliary: sessions of which a logout was completed

vars == <<now, password, rows, cookie, bearer, req, asked, mishaps, loggedOut>>

-----------------------------------------------------------------------------
Seconds == 0..LastSecond
Sessions == 1..MaxRequests           \* a login opens one, named by its number
NoSession == 0
Token == [user : Users, at : Seconds]
NoToken == [user |-> Nobody, at |-> 0]

Row == [state : {"none", "live", "revoked"},      \* revokedAt is null, or set
        session : Sessions \cup {NoSession}]      \* auxiliary
NoRow == [state |-> "none", session |-> NoSession]

Handler ==
    [pc : {"idle", "login", "refresh.revoke", "refresh.create", "logout", "password"},
     browser : Browsers \cup {Nobody},
     user : Users \cup {Nobody},
     token : Token \cup {NoToken},             \* the refresh token presented
     session : Sessions \cup {NoSession},      \* auxiliary: its session
     new : Passwords]                          \* the password to write
Idle == [pc |-> "idle", browser |-> Nobody, user |-> Nobody, token |-> NoToken,
         session |-> NoSession, new |-> FirstPassword]

Mishap == {"crossed", "cut", "collided"}

Expires(t) == t.at + RefreshLife
Stored(t) == rows[t].state # "none" /\ now < Expires(t)           \* a mutant
Usable(t) == rows[t].state = "live" /\ now < Expires(t)

\* JwtStrategy: the signature and the age of the bearer, and nothing stored.
Authenticated(b) == bearer[b] # NoToken /\ now < bearer[b].at + AccessLife

InFlight(s) == {r \in Requests : req[r].pc # "idle" /\ req[r].session = s}
Mark(s, what) == [mishaps EXCEPT ![s] = @ \cup {what}]

TypeOK ==
    /\ now \in Seconds
    /\ password \in [Users -> Passwords]
    /\ rows \in [Token -> Row]
    /\ cookie \in [Browsers -> Token \cup {NoToken}]
    /\ bearer \in [Browsers -> Token \cup {NoToken}]
    /\ req \in [Requests -> Handler]
    /\ asked \in 0..MaxRequests
    /\ mishaps \in [Sessions -> SUBSET Mishap]
    /\ loggedOut \subseteq Sessions

Init ==
    /\ now = 0
    /\ password = [u \in Users |-> FirstPassword]
    /\ rows = [t \in Token |-> NoRow]
    /\ cookie = [b \in Browsers |-> NoToken]
    /\ bearer = [b \in Browsers |-> NoToken]
    /\ req = [r \in Requests |-> Idle]
    /\ asked = 0
    /\ mishaps = [s \in Sessions |-> {}]
    /\ loggedOut = {}

-----------------------------------------------------------------------------
(* A request arrives and its handler runs to its first write.              *)

Arrive(r, h) ==
    /\ req[r].pc = "idle" /\ asked < MaxRequests
    /\ asked' = asked + 1
    /\ req' = [req EXCEPT ![r] = h]
    /\ UNCHANGED <<now, password, rows, cookie, bearer, loggedOut>>

\* LoginUseCase: the user is read and the password compared with its hash.
Login(r, b, u, p) ==
    /\ p = password[u]
    /\ Arrive(r, [Idle EXCEPT !.pc = "login", !.browser = b, !.user = u,
                              !.session = asked + 1])
    /\ UNCHANGED mishaps

\* A request about the session of the browser's cookie.
Present(r, b, pc) ==
    LET t == cookie[b]
        s == rows[t].session
    IN
    /\ Authenticated(b) /\ t # NoToken
    /\ Arrive(r, [Idle EXCEPT !.pc = pc, !.browser = b, !.user = t.user,
                              !.token = t, !.session = s])
    /\ mishaps' = IF InFlight(s) = {} THEN mishaps ELSE Mark(s, "crossed")

\* RefreshTokensUseCase up to the revocation; the guard wants a bearer first.
Refresh(r, b) ==
    /\ cookie[b] # NoToken /\ Usable(cookie[b])
    /\ Present(r, b, "refresh.revoke")

Logout(r, b) == Present(r, b, "logout")

\* ChangePasswordUseCase: the hash compared is the one read here.
ChangePassword(r, b, p, q) ==
    /\ Authenticated(b)
    /\ p = password[bearer[b].user]
    /\ Arrive(r, [Idle EXCEPT !.pc = "password", !.browser = b,
                              !.user = bearer[b].user, !.new = q])
    /\ UNCHANGED mishaps

-----------------------------------------------------------------------------
(* The writes.                                                             *)

End(r) == req' = [req EXCEPT ![r] = Idle]

FirstCookieOnly(b, t, s) ==                                       \* a mutant
    /\ cookie' = [cookie EXCEPT ![b] = IF @ = NoToken THEN t ELSE @]
    /\ bearer' = [bearer EXCEPT ![b] = t]
    /\ UNCHANGED mishaps
\* The answer sets the cookie and hands out an access token, unless it is lost.
Answer(b, t, s) ==
    \/ /\ cookie' = [cookie EXCEPT ![b] = t]
       /\ bearer' = [bearer EXCEPT ![b] = t]
       /\ UNCHANGED mishaps
    \/ /\ "lost" \in Faults
       /\ mishaps' = Mark(s, "cut")
       /\ UNCHANGED <<cookie, bearer>>

\* The tokens of this second are signed and the refresh token is inserted: its
\* column is unique, and the string of this second may be there already.
NotLive(t) == rows[t].state # "live"                              \* a mutant
Free(t) == rows[t].state = "none"
Insert(r) ==
    LET t == [user |-> req[r].user, at |-> now]
        s == req[r].session
    IN
    \/ /\ Free(t)
       /\ rows' = [rows EXCEPT ![t] = [state |-> "live", session |-> s]]
       /\ Answer(req[r].browser, t, s)
    \/ /\ ~Free(t)
       /\ mishaps' = Mark(s, "collided")
       /\ UNCHANGED <<rows, cookie, bearer>>

Create(r) ==
    /\ req[r].pc \in {"login", "refresh.create"}
    /\ Insert(r)
    /\ End(r)
    /\ UNCHANGED <<now, password, asked, loggedOut>>

Unrevoked(t) == rows                                              \* a mutant
MarkedExpired(t) == [rows EXCEPT ![t].state = "expired"]           \* a mutant
Revoked(t) == [rows EXCEPT ![t].state = "revoked"]

RefreshRevoke(r) ==
    /\ req[r].pc = "refresh.revoke"
    /\ rows' = Revoked(req[r].token)
    /\ req' = [req EXCEPT ![r].pc = "refresh.create"]
    /\ UNCHANGED <<now, password, cookie, bearer, asked, mishaps, loggedOut>>

LogoutRevoke(r) ==
    /\ req[r].pc = "logout"
    /\ rows' = Revoked(req[r].token)
    /\ \/ cookie' = [cookie EXCEPT ![req[r].browser] = NoToken]
       \/ "lost" \in Faults /\ UNCHANGED cookie
    /\ loggedOut' = loggedOut \cup {req[r].session}
    /\ End(r)
    /\ UNCHANGED <<now, password, bearer, asked, mishaps>>

PasswordWrite(r) ==
    /\ req[r].pc = "password"
    /\ password' = [password EXCEPT ![req[r].user] = req[r].new]
    /\ End(r)
    /\ UNCHANGED <<now, rows, cookie, bearer, asked, mishaps, loggedOut>>

Stop(r) ==
    /\ "stop" \in Faults
    /\ req[r].pc # "idle"
    /\ mishaps' = IF req[r].session = NoSession THEN mishaps ELSE Mark(req[r].session, "cut")
    /\ End(r)
    /\ UNCHANGED <<now, password, rows, cookie, bearer, asked, loggedOut>>

Tick ==
    /\ now < LastSecond
    /\ now' = now + 1
    /\ UNCHANGED <<password, rows, cookie, bearer, req, asked, mishaps, loggedOut>>

Next ==
    \/ Tick
    \/ \E r \in Requests :
          \/ \E b \in Browsers, u \in Users, p \in Passwords : Login(r, b, u, p)
          \/ \E b \in Browsers : Refresh(r, b) \/ Logout(r, b)
          \/ \E b \in Browsers, p, q \in Passwords : ChangePassword(r, b, p, q)
          \/ Create(r) \/ RefreshRevoke(r) \/ LogoutRevoke(r)
          \/ PasswordWrite(r) \/ Stop(r)

Spec == Init /\ [][Next]_vars

-----------------------------------------------------------------------------
(* Properties.                                                             *)

LiveTokens(s) == {t \in Token : rows[t].state = "live" /\ rows[t].session = s}

\* Rotation: a session has at most one refresh token that is not revoked, and
\* none while one is being exchanged, as long as no two of its requests
\* crossed (refresh-tokens.use-case checks, revokes and replaces in three calls).
OneLiveToken ==
    \A s \in Sessions : "crossed" \notin mishaps[s] =>
        /\ \A t1, t2 \in LiveTokens(s) : t1 = t2
        /\ (\E r \in InFlight(s) : req[r].pc = "refresh.create") => LiveTokens(s) = {}

\* A logout ends the session for good, the browser's old cookie included: no
\* refresh token of it is live, unless a request crossed or an answer with a
\* newer token was lost (the logout revokes the token it is sent).
LogoutEndsSession ==
    \A s \in loggedOut : mishaps[s] \cap {"crossed", "cut"} = {} => LiveTokens(s) = {}

\* A revoked token is never accepted again, though a token issued in the same
\* second is the same string (refresh-token.prisma: the token is unique).
RevokedStaysRevoked ==
    [][\A t \in Token : rows[t].state = "revoked" => rows'[t].state = "revoked"]_rows

\* Nobody is signed out by the rotation: the cookie a browser holds is its
\* session's live token, unless a request crossed, was cut off, or met a token
\* of the same second.
CookieIsLive ==
    \A b \in Browsers :
        LET t == cookie[b]
            s == rows[t].session
        IN  t # NoToken /\ mishaps[s] = {} /\ s \notin loggedOut /\ InFlight(s) = {}
                => rows[t].state = "live"
===============================================================================
