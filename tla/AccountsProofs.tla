---------------------------- MODULE AccountsProofs ----------------------------
(***************************************************************************)
(* Theorems about Accounts that hold for any number of users, browsers and *)
(* requests in flight, and any lifetimes of the tokens.                    *)
(*                                                                         *)
(* The argument: a session lives in one browser (Places), so only its own  *)
(* handlers write its tokens and that browser's cookie.  As long as no two *)
(* of them crossed there is one at a time (Alone), so the token it checked *)
(* is still the session's only live one when it revokes it (Rotates), and  *)
(* the cookie names the live token whenever nobody is at work (Follows).   *)
(***************************************************************************)
EXTENDS Accounts, TLAPS

Busy(h) == h.pc \in {"login", "refresh.revoke", "refresh.create", "logout"}
HasToken(h) == h.pc \in {"refresh.revoke", "refresh.create", "logout"}
SessionOf(b) == rows[cookie[b]].session

\* What a handler carries, as the table has it.
HandlerOK(h) ==
    /\ Busy(h) => h.session \in 1..asked /\ h.browser \in Browsers
    /\ h.pc # "idle" => h.user \in Users
    /\ h.pc \in {"idle", "password"} => h.session = NoSession
    /\ HasToken(h) => /\ h.token \in Token /\ rows[h.token].state # "none"
                      /\ rows[h.token].session = h.session
    /\ h.pc = "login" => \A t \in Token : rows[t].session # h.session

Basic ==
    /\ TypeOK
    /\ \A t \in Token :
          /\ rows[t].session \in 1..asked \cup {NoSession}
          /\ rows[t].state # "none" => rows[t].session \in 1..asked
    /\ \A b \in Browsers : cookie[b] # NoToken => rows[cookie[b]].state # "none"
    /\ loggedOut \subseteq 1..asked
    /\ \A r \in Requests : HandlerOK(req[r])

\* A session's cookie is in one browser, where all its requests come from.
Places ==
    /\ \A b1, b2 \in Browsers :
          cookie[b1] # NoToken /\ cookie[b2] # NoToken /\ SessionOf(b1) = SessionOf(b2) => b1 = b2
    /\ \A r \in Requests, b \in Browsers :
          Busy(req[r]) /\ cookie[b] # NoToken /\ SessionOf(b) = req[r].session
              => b = req[r].browser
    /\ \A r, q \in Requests :
          Busy(req[r]) /\ Busy(req[q]) /\ req[r].session = req[q].session
              => req[r].browser = req[q].browser
    /\ \A r, q \in Requests :
          req[r].pc = "login" /\ req[q].pc = "login" /\ req[r].session = req[q].session => r = q

Alone(s) == "crossed" \notin mishaps[s] => \A r, q \in InFlight(s) : r = q

\* The live token of a session, and what its handler knows of it.
Rotates(s) ==
    "crossed" \notin mishaps[s] =>
        /\ \A t1, t2 \in LiveTokens(s) : t1 = t2
        /\ \A r \in InFlight(s) :
              /\ req[r].pc = "refresh.create" => LiveTokens(s) = {}
              /\ req[r].pc = "refresh.revoke" => LiveTokens(s) \subseteq {req[r].token}

\* The cookie, a logout under way and a logout completed, when nothing was lost.
Smooth(s) == mishaps[s] \cap {"crossed", "cut"} = {}
Ends(s) ==
    Smooth(s) =>
        /\ \A b \in Browsers : cookie[b] # NoToken /\ SessionOf(b) = s =>
              LiveTokens(s) \subseteq {cookie[b]}
        /\ \A r \in InFlight(s) : req[r].pc = "logout" => LiveTokens(s) \subseteq {req[r].token}
        /\ s \in loggedOut =>
              LiveTokens(s) = {} /\ \A r \in InFlight(s) : req[r].pc = "logout"

\* The cookie is live but while it is being replaced.
Follows(s) ==
    mishaps[s] = {} /\ s \notin loggedOut =>
        \A b \in Browsers : cookie[b] # NoToken /\ SessionOf(b) = s =>
            \/ rows[cookie[b]].state = "live"
            \/ \E r \in InFlight(s) : req[r].pc = "refresh.create"

SessionOK(s) == Alone(s) /\ Rotates(s) /\ Ends(s) /\ Follows(s)
IInv == Basic /\ Places /\ \A s \in Sessions : SessionOK(s)

USE NobodyAssumption, PasswordAssumption, TimeAssumption

-----------------------------------------------------------------------------
(* Helpers.                                                                *)

LEMMA IdleLemma ==
    /\ Idle \in Handler /\ Idle.pc = "idle" /\ Idle.session = NoSession /\ ~Busy(Idle)
    /\ NoToken \notin Token /\ NoRow \in Row /\ NoRow.state = "none"
<1>1. Idle \in Handler /\ Idle.pc = "idle" /\ Idle.session = NoSession
  BY DEF Idle, Handler
<1>2. NoToken \notin Token
  BY DEF NoToken, Token
<1>3. NoRow \in Row /\ NoRow.state = "none"
  BY DEF NoRow, Row
<1> QED
  BY <1>1, <1>2, <1>3 DEF Busy

LEMMA IdleOK == HandlerOK(Idle)
BY IdleLemma DEF HandlerOK, Busy, HasToken

LEMMA SessionLemma ==
    /\ NoSession \notin Sessions
    /\ asked \in 0..MaxRequests => 1..asked \subseteq Sessions
    /\ asked \in 0..MaxRequests /\ asked < MaxRequests =>
          asked + 1 \in Sessions /\ asked + 1 \in 0..MaxRequests /\ asked + 1 \notin 1..asked
BY DEF NoSession, Sessions

LEMMA InitHolds == Init => IInv
<1> SUFFICES ASSUME Init PROVE IInv
  OBVIOUS
<1>1. TypeOK
  BY IdleLemma DEF Init, TypeOK, Seconds
<1>2. \A t \in Token : rows[t].state = "none" /\ rows[t].session = NoSession
  BY IdleLemma DEF Init, NoRow
<1>3. \A r \in Requests : req[r] = Idle /\ ~Busy(req[r])
  BY IdleLemma DEF Init
<1>4. \A s \in Sessions : LiveTokens(s) = {} /\ InFlight(s) = {}
  BY <1>2, <1>3, IdleLemma DEF LiveTokens, InFlight
<1>5. Basic
  BY <1>1, <1>2, <1>3, IdleOK DEF Init, Basic
<1>6. Places
  BY <1>3, IdleLemma DEF Init, Places
<1>7. ASSUME NEW s \in Sessions PROVE SessionOK(s)
  BY <1>4 DEF Init, SessionOK, Alone, Rotates, Ends, Follows
<1> QED
  BY <1>5, <1>6, <1>7 DEF IInv

-----------------------------------------------------------------------------
(* What a step leaves of the invariant.                                    *)

\* Nothing about s changes but the cookies of it that are overwritten.
Untouched(s) ==
    /\ mishaps'[s] = mishaps[s] /\ (s \in loggedOut' <=> s \in loggedOut)
    /\ LiveTokens(s)' = LiveTokens(s) /\ InFlight(s)' = InFlight(s)
    /\ \A r \in InFlight(s) : req'[r] = req[r]
    /\ \A b \in Browsers : cookie'[b] # NoToken /\ SessionOf(b)' = s =>
          cookie'[b] = cookie[b] /\ SessionOf(b) = s /\ rows'[cookie[b]].state = rows[cookie[b]].state

LEMMA UntouchedLemma ==
    ASSUME NEW s \in Sessions, SessionOK(s), Untouched(s)
    PROVE  SessionOK(s)'
<1>1. Alone(s)'
  BY DEF SessionOK, Alone, Untouched
<1>2. Rotates(s)'
  BY DEF SessionOK, Rotates, Untouched
<1>3. Ends(s)'
  BY DEF SessionOK, Ends, Smooth, Untouched
<1>4. Follows(s)'
  BY DEF SessionOK, Follows, Untouched
<1> QED
  BY <1>1, <1>2, <1>3, <1>4 DEF SessionOK

\* The handlers of another session, after a step of r.
LEMMA OtherHandlers ==
    ASSUME TypeOK, NEW r \in Requests, NEW h \in Handler, req' = [req EXCEPT ![r] = h],
           NEW s \in Sessions, s # req[r].session \/ req[r].pc = "idle",
           s # h.session \/ h.pc = "idle"
    PROVE  InFlight(s)' = InFlight(s) /\ \A q \in InFlight(s) : req'[q] = req[q]
BY DEF TypeOK, InFlight

\* A step that issues no token: some may be revoked, a cookie cleared.
Mild ==
    /\ rows' \in [Token -> Row] /\ cookie' \in [Browsers -> Token \cup {NoToken}]
    /\ UNCHANGED bearer
    /\ \A t \in Token :
          /\ rows'[t].session = rows[t].session
          /\ rows'[t].state = "none" <=> rows[t].state = "none"
    /\ \A b \in Browsers : cookie'[b] \in {cookie[b], NoToken}

LEMMA Unwritten == ASSUME Basic, UNCHANGED <<rows, cookie, bearer>> PROVE Mild
BY DEF Basic, TypeOK, Mild

LEMMA QuietElsewhere ==
    ASSUME IInv, NEW r \in Requests, NEW h \in Handler, req' = [req EXCEPT ![r] = h], Mild,
           NEW s \in Sessions, mishaps'[s] = mishaps[s], s \in loggedOut' <=> s \in loggedOut,
           \A t \in Token : rows[t].session = s => rows'[t] = rows[t],
           s # req[r].session \/ req[r].pc = "idle", s # h.session \/ h.pc = "idle"
    PROVE  SessionOK(s)'
<1>1. InFlight(s)' = InFlight(s) /\ \A q \in InFlight(s) : req'[q] = req[q]
  BY OtherHandlers DEF IInv, Basic
<1>2. LiveTokens(s)' = LiveTokens(s)
  BY DEF LiveTokens, Mild
<1>3. ASSUME NEW b \in Browsers, cookie'[b] # NoToken, SessionOf(b)' = s
      PROVE  cookie'[b] = cookie[b] /\ SessionOf(b) = s /\ rows'[cookie[b]].state = rows[cookie[b]].state
  <2>1. cookie'[b] = cookie[b] /\ cookie[b] \in Token
    BY <1>3 DEF Mild, IInv, Basic, TypeOK
  <2>2. rows'[cookie[b]].session = rows[cookie[b]].session
    BY <2>1 DEF Mild
  <2> QED
    BY <1>3, <2>1, <2>2 DEF SessionOf
<1>4. Untouched(s)
  BY <1>1, <1>2, <1>3 DEF Untouched
<1> QED
  BY <1>4, UntouchedLemma DEF IInv

LEMMA BasicKept ==
    ASSUME Basic, NEW r \in Requests, NEW h \in Handler, req' = [req EXCEPT ![r] = h],
           HandlerOK(h)', Mild, now' \in Seconds,
           password' \in [Users -> Passwords], asked' \in 0..MaxRequests, asked <= asked',
           mishaps' \in [Sessions -> SUBSET Mishap], loggedOut' \subseteq 1..asked'
    PROVE  Basic'
<1>1. req' \in [Requests -> Handler] /\ req'[r] = h
  BY DEF Basic, TypeOK
<1>2. 1..asked \subseteq 1..asked' /\ 1..asked' \subseteq Sessions
  BY DEF Basic, TypeOK, Sessions
<1>3. ASSUME NEW q \in Requests PROVE HandlerOK(req[q])'
  <2>1. CASE q = r
    BY <1>1, <2>1 DEF HandlerOK, Busy, HasToken
  <2>2. CASE q # r
    <3>1. PICK n \in Handler : n = req[q] /\ n = req'[q] /\ HandlerOK(n)
      BY <2>2 DEF Basic, TypeOK
    <3>2. HandlerOK(n)'
      BY <1>2, <3>1 DEF HandlerOK, Busy, HasToken, Mild
    <3> QED
      BY <3>1, <3>2 DEF HandlerOK, Busy, HasToken
  <2> QED
    BY <2>1, <2>2
<1>4. TypeOK'
  BY <1>1, <1>2 DEF Basic, TypeOK, Mild
<1>5. \A t \in Token :
          /\ rows'[t].session \in 1..asked' \cup {NoSession}
          /\ rows'[t].state # "none" => rows'[t].session \in 1..asked'
  BY <1>2 DEF Basic, Mild
<1>6. \A b \in Browsers : cookie'[b] # NoToken => rows'[cookie'[b]].state # "none"
  BY DEF Basic, TypeOK, Mild
<1> QED
  BY <1>3, <1>4, <1>5, <1>6 DEF Basic

LEMMA PlacesKept ==
    ASSUME Basic, Places, NEW r \in Requests, NEW h \in Handler, req' = [req EXCEPT ![r] = h],
           Mild,
           Busy(h) => \/ h.browser = req[r].browser /\ h.session = req[r].session /\ Busy(req[r])
                      \/ h.session \notin 1..asked
                      \/ h.browser \in Browsers /\ cookie[h.browser] # NoToken
                            /\ h.session = SessionOf(h.browser),
           h.pc = "login" => h.session \notin 1..asked
    PROVE  Places'
<1>1. req'[r] = h /\ \A q \in Requests : q # r => req'[q] = req[q]
  BY DEF Basic, TypeOK
<1>2. \A b \in Browsers : cookie[b] # NoToken => SessionOf(b) \in 1..asked
  BY DEF Basic, TypeOK, SessionOf
<1>3. \A q \in Requests : Busy(req[q]) => req[q].session \in 1..asked
  BY DEF Basic, HandlerOK
<1>4. \A b \in Browsers : cookie'[b] # NoToken =>
          cookie[b] # NoToken /\ SessionOf(b)' = SessionOf(b)
  BY DEF SessionOf, Mild, Basic, TypeOK
<1>5. ASSUME NEW q \in Requests, NEW b \in Browsers, Busy(req'[q]), cookie[b] # NoToken,
             SessionOf(b) = req'[q].session
      PROVE  b = req'[q].browser
  BY <1>1, <1>2, <1>5 DEF Places
<1>6. ASSUME NEW q \in Requests, q # r, Busy(req[q]), Busy(h), req[q].session = h.session
      PROVE  req[q].browser = h.browser
  BY <1>3, <1>6 DEF Places
<1>7. ASSUME NEW q \in Requests, NEW p \in Requests, Busy(req'[q]), Busy(req'[p]),
             req'[q].session = req'[p].session
      PROVE  req'[q].browser = req'[p].browser
  BY <1>1, <1>6, <1>7 DEF Places
<1>8. ASSUME NEW q \in Requests, NEW p \in Requests, req'[q].pc = "login", req'[p].pc = "login",
             req'[q].session = req'[p].session
      PROVE  q = p
  BY <1>1, <1>3, <1>8 DEF Places, Busy
<1> QED
  BY <1>4, <1>5, <1>7, <1>8 DEF Places, Busy

-----------------------------------------------------------------------------
(* Requests arrive.                                                        *)

LEMMA LoginKeeps ==
    ASSUME IInv, NEW r \in Requests, NEW b \in Browsers, NEW u \in Users, NEW p \in Passwords,
           Login(r, b, u, p)
    PROVE  IInv'
<1>1. PICK n \in Sessions : n = asked + 1 /\ n \in 0..MaxRequests /\ n \notin 1..asked
                            /\ asked \in Nat /\ n \in 1..n
  BY SessionLemma DEF Login, Arrive, IInv, Basic, TypeOK
<1> DEFINE h == [Idle EXCEPT !.pc = "login", !.browser = b, !.user = u, !.session = n]
<1>2. h \in Handler /\ h.pc = "login" /\ h.browser = b /\ h.user = u /\ h.session = n
  BY IdleLemma DEF Idle, Handler
<1>3. /\ req[r].pc = "idle" /\ asked' = n /\ req' = [req EXCEPT ![r] = h]
      /\ UNCHANGED <<now, password, rows, cookie, bearer, loggedOut, mishaps>>
  BY <1>1 DEF Login, Arrive
<1> HIDE DEF h
<1>4. Mild /\ \A t \in Token : rows[t].session # n
  BY <1>1, <1>3, SessionLemma, Unwritten DEF IInv, Basic
<1>5. HandlerOK(h)'
  BY <1>1, <1>2, <1>3, <1>4 DEF HandlerOK, Busy, HasToken
<1>6. Basic'
  <2>1. /\ now' \in Seconds /\ password' \in [Users -> Passwords]
        /\ mishaps' \in [Sessions -> SUBSET Mishap] /\ asked <= asked'
        /\ asked' \in 0..MaxRequests /\ loggedOut' \subseteq 1..asked'
    BY <1>1, <1>3 DEF IInv, Basic, TypeOK
  <2> QED
    BY <1>2, <1>3, <1>4, <1>5, <2>1, BasicKept DEF IInv
<1>7. Places'
  BY <1>1, <1>2, <1>3, <1>4, PlacesKept DEF IInv
<1>8. ASSUME NEW s \in Sessions, s # n PROVE SessionOK(s)'
  BY <1>2, <1>3, <1>4, <1>8, QuietElsewhere
<1>9. SessionOK(n)'
  <2>1. LiveTokens(n)' = {}
    BY <1>3, <1>4 DEF LiveTokens
  <2>2. InFlight(n)' = {r}
    <3>1. \A q \in Requests : req[q].pc # "idle" => req[q].session # n
      BY <1>1, SessionLemma DEF IInv, Basic, TypeOK, HandlerOK, Handler, Busy
    <3> QED
      BY <1>2, <1>3, <3>1 DEF InFlight, IInv, Basic, TypeOK
  <2>3. req'[r] = h /\ n \notin loggedOut'
    BY <1>1, <1>3 DEF IInv, Basic, TypeOK
  <2>4. \A k \in Browsers : cookie'[k] # NoToken => SessionOf(k)' # n
    BY <1>3, <1>4 DEF SessionOf, IInv, Basic, TypeOK
  <2> QED
    BY <1>2, <2>1, <2>2, <2>3, <2>4 DEF SessionOK, Alone, Rotates, Ends, Follows
<1> QED
  BY <1>6, <1>7, <1>8, <1>9 DEF IInv

\* Refresh and Logout: the handler carries the cookie, the session's live token.
LEMMA PresentKeeps ==
    ASSUME IInv, NEW r \in Requests, NEW b \in Browsers,
           NEW pc \in {"refresh.revoke", "logout"}, Present(r, b, pc),
           pc = "refresh.revoke" => rows[cookie[b]].state = "live"
    PROVE  IInv'
<1>1. PICK t \in Token : t = cookie[b]
  BY DEF Present, IInv, Basic, TypeOK
<1>2. PICK s \in Sessions : s = rows[t].session /\ s \in 1..asked /\ rows[t].state # "none"
                            /\ s # NoSession
  BY <1>1, SessionLemma DEF Present, IInv, Basic, TypeOK
<1>3. PICK m \in SUBSET Mishap :
          /\ mishaps' = [mishaps EXCEPT ![s] = m] /\ mishaps[s] \subseteq m
          /\ m = mishaps[s] \/ "crossed" \in m
          /\ InFlight(s) # {} => "crossed" \in m
  <2>1. mishaps \in [Sessions -> SUBSET Mishap] /\ mishaps[s] \cup {"crossed"} \in SUBSET Mishap
    BY DEF IInv, Basic, TypeOK, Mishap
  <2>2. CASE InFlight(s) = {}
    <3>1. mishaps' = mishaps
      BY <1>1, <1>2, <2>2 DEF Present
    <3>2. mishaps = [mishaps EXCEPT ![s] = mishaps[s]]
      BY <2>1
    <3> QED
      BY <2>1, <2>2, <3>1, <3>2
  <2>3. CASE InFlight(s) # {}
    <3>1. mishaps' = [mishaps EXCEPT ![s] = mishaps[s] \cup {"crossed"}]
      BY <1>1, <1>2, <2>3 DEF Present, Mark
    <3> QED
      BY <2>1, <3>1
  <2> QED
    BY <2>2, <2>3
<1> DEFINE h == [Idle EXCEPT !.pc = pc, !.browser = b, !.user = t.user,
                             !.token = t, !.session = s]
<1>4. /\ h \in Handler /\ h.pc = pc /\ h.browser = b /\ h.user \in Users
      /\ h.token = t /\ h.session = s
  BY IdleLemma DEF Idle, Handler, Token
<1>5. /\ req[r].pc = "idle" /\ asked' = asked + 1 /\ asked < MaxRequests
      /\ req' = [req EXCEPT ![r] = h]
      /\ UNCHANGED <<now, password, rows, cookie, bearer, loggedOut>>
  BY <1>1, <1>2 DEF Present, Arrive
<1> HIDE DEF h
<1>0. Mild
  BY <1>5, Unwritten DEF IInv
<1>6. /\ asked' \in 0..MaxRequests /\ asked <= asked' /\ 1..asked \subseteq 1..asked'
  BY <1>5 DEF IInv, Basic, TypeOK
<1>7. HandlerOK(h)'
  BY <1>2, <1>4, <1>5, <1>6 DEF HandlerOK, Busy, HasToken
<1>8. Basic'
  <2>1. /\ now' \in Seconds /\ password' \in [Users -> Passwords]
        /\ mishaps' \in [Sessions -> SUBSET Mishap] /\ loggedOut' \subseteq 1..asked'
    BY <1>3, <1>5, <1>6 DEF IInv, Basic, TypeOK
  <2> QED
    BY <1>0, <1>4, <1>5, <1>6, <1>7, <2>1, BasicKept DEF IInv
<1>9. cookie[b] # NoToken /\ SessionOf(b) = s
  BY <1>1, <1>2, IdleLemma DEF SessionOf
<1>10. Places'
  BY <1>0, <1>4, <1>5, <1>9, PlacesKept DEF IInv
<1>11. ASSUME NEW k \in Sessions, k # s PROVE SessionOK(k)'
  <2>1. mishaps'[k] = mishaps[k]
    BY <1>3, <1>11 DEF IInv, Basic, TypeOK
  <2> QED
    BY <1>0, <1>4, <1>5, <1>11, <2>1, QuietElsewhere
<1>12. SessionOK(s)'
  <2>1. LiveTokens(s)' = LiveTokens(s)
    BY <1>5 DEF LiveTokens
  <2>2. req'[r] = h /\ \A q \in Requests : q # r => req'[q] = req[q]
    BY <1>5 DEF IInv, Basic, TypeOK
  <2>3. InFlight(s)' = InFlight(s) \cup {r}
    BY <1>4, <1>5, <2>2 DEF InFlight
  <2>4. r \notin InFlight(s)
    BY <1>5 DEF InFlight
  <2>5. mishaps'[s] = m
    BY <1>3 DEF IInv, Basic, TypeOK
  <2>6. \A k \in Browsers : SessionOf(k)' = SessionOf(k) /\ cookie'[k] = cookie[k]
    BY <1>5 DEF SessionOf
  <2>7. SessionOK(s)
    BY DEF IInv
  <2>8. "crossed" \notin m => InFlight(s) = {} /\ mishaps[s] = m
    BY <1>3
  <2>9. pc = "refresh.revoke" => t \in LiveTokens(s)
    BY <1>1, <1>2 DEF LiveTokens
  <2>10. Alone(s)' /\ Rotates(s)'
    BY <1>4, <2>1, <2>2, <2>3, <2>5, <2>7, <2>8, <2>9 DEF SessionOK, Alone, Rotates
  <2>11. Ends(s)'
    BY <1>1, <1>4, <1>5, <1>9, <2>1, <2>2, <2>3, <2>5, <2>6, <2>7, <2>8, <2>9
       DEF SessionOK, Ends, Smooth
  <2>12. Follows(s)'
    BY <1>3, <1>5, <2>2, <2>3, <2>4, <2>5, <2>6, <2>7 DEF SessionOK, Follows
  <2> QED
    BY <2>10, <2>11, <2>12 DEF SessionOK
<1> QED
  BY <1>8, <1>10, <1>11, <1>12 DEF IInv

LEMMA ArriveKeeps ==
    ASSUME IInv, NEW r \in Requests, NEW b \in Browsers,
           \/ \E u \in Users, p \in Passwords : Login(r, b, u, p)
           \/ Refresh(r, b) \/ Logout(r, b)
    PROVE  IInv'
<1>1. CASE Refresh(r, b)
  BY <1>1, PresentKeeps DEF Refresh, Usable
<1>2. CASE Logout(r, b)
  BY <1>2, PresentKeeps DEF Logout
<1> QED
  BY <1>1, <1>2, LoginKeeps

\* A request and a write that are about no session.
LEMMA PasswordKeeps ==
    ASSUME IInv, NEW r \in Requests,
           \/ \E b \in Browsers, p, q \in Passwords : ChangePassword(r, b, p, q)
           \/ PasswordWrite(r)
    PROVE  IInv'
<1>1. PICK h \in Handler : /\ req' = [req EXCEPT ![r] = h]
                           /\ h.pc \in {"idle", "password"} /\ h.session = NoSession
                           /\ h.pc = "password" => h.user \in Users
  <2>1. CASE PasswordWrite(r)
    BY <2>1, IdleLemma DEF PasswordWrite, End
  <2>2. ASSUME NEW b \in Browsers, NEW p \in Passwords, NEW q \in Passwords,
               ChangePassword(r, b, p, q)
        PROVE  \E n \in Handler : /\ req' = [req EXCEPT ![r] = n]
                                  /\ n.pc = "password" /\ n.session = NoSession
                                  /\ n.user \in Users
    <3> DEFINE h == [Idle EXCEPT !.pc = "password", !.browser = b,
                                 !.user = bearer[b].user, !.new = q]
    <3>1. bearer[b].user \in Users
      BY <2>2 DEF ChangePassword, Authenticated, IInv, Basic, TypeOK, Token
    <3>2. /\ h \in Handler /\ h.pc = "password" /\ h.session = NoSession
          /\ h.user = bearer[b].user
      BY <3>1, IdleLemma DEF Idle, Handler
    <3>3. req' = [req EXCEPT ![r] = h]
      BY <2>2 DEF ChangePassword, Arrive
    <3> QED
      BY <3>1, <3>2, <3>3
  <2> QED
    BY <2>1, <2>2
<1>2. req[r].pc \in {"idle", "password"} /\ req[r].session = NoSession
  BY DEF ChangePassword, Arrive, PasswordWrite, IInv, Basic, HandlerOK
<1>3. /\ UNCHANGED <<now, rows, cookie, bearer, mishaps, loggedOut>>
      /\ asked' \in 0..MaxRequests /\ asked <= asked' /\ password' \in [Users -> Passwords]
  <2>0. password \in [Users -> Passwords] /\ asked \in 0..MaxRequests
    BY DEF IInv, Basic, TypeOK
  <2>1. CASE PasswordWrite(r)
    <3>1. req[r].new \in Passwords
      BY DEF IInv, Basic, TypeOK, Handler
    <3>2. /\ password' = [password EXCEPT ![req[r].user] = req[r].new]
          /\ UNCHANGED <<now, rows, cookie, bearer, asked, mishaps, loggedOut>>
      BY <2>1 DEF PasswordWrite
    <3>3. password' \in [Users -> Passwords]
      BY <2>0, <3>1, <3>2
    <3>4. asked' \in 0..MaxRequests /\ asked <= asked'
      BY <2>0, <3>2
    <3> QED
      BY <3>2, <3>3, <3>4
  <2>2. ASSUME NEW b \in Browsers, NEW p \in Passwords, NEW q \in Passwords,
               ChangePassword(r, b, p, q)
        PROVE  /\ UNCHANGED <<now, password, rows, cookie, bearer, mishaps, loggedOut>>
               /\ asked' = asked + 1 /\ asked < MaxRequests
    BY <2>2 DEF ChangePassword, Arrive
  <2> QED
    BY <2>0, <2>1, <2>2
<1>4. Mild
  BY <1>3, Unwritten DEF IInv
<1>5. HandlerOK(h)'
  BY <1>1 DEF HandlerOK, Busy, HasToken
<1>6. Basic'
  <2>1. /\ now' \in Seconds /\ mishaps' \in [Sessions -> SUBSET Mishap]
        /\ loggedOut' \subseteq 1..asked'
    BY <1>3 DEF IInv, Basic, TypeOK
  <2> QED
    BY <1>1, <1>3, <1>4, <1>5, <2>1, BasicKept DEF IInv
<1>7. Places'
  BY <1>1, <1>4, PlacesKept DEF IInv, Busy
<1>8. ASSUME NEW s \in Sessions PROVE SessionOK(s)'
  BY <1>1, <1>2, <1>3, <1>4, SessionLemma, QuietElsewhere
<1> QED
  BY <1>6, <1>7, <1>8 DEF IInv

\* A handler ends having written nothing: stopped, or met by a token of its second.
LEMMA EndsEmpty ==
    ASSUME IInv, NEW r \in Requests, req' = [req EXCEPT ![r] = Idle],
           UNCHANGED <<now, password, rows, cookie, bearer, asked, loggedOut>>,
           NEW what \in Mishap,
           mishaps' = IF req[r].session = NoSession THEN mishaps ELSE Mark(req[r].session, what)
    PROVE  IInv'
<1>2. /\ mishaps' \in [Sessions -> SUBSET Mishap]
      /\ \A s \in Sessions : mishaps[s] \subseteq mishaps'[s]
      /\ \A s \in Sessions : s # req[r].session => mishaps'[s] = mishaps[s]
      /\ \A s \in Sessions : s = req[r].session => mishaps'[s] # {}
  <2>1. CASE req[r].session = NoSession
    BY <2>1, SessionLemma DEF IInv, Basic, TypeOK
  <2>2. CASE req[r].session # NoSession
    <3>1. PICK k \in Sessions : k = req[r].session
      BY <2>2 DEF IInv, Basic, TypeOK, Handler
    <3>2. mishaps' = [mishaps EXCEPT ![k] = mishaps[k] \cup {what}]
      BY <2>2, <3>1 DEF Mark
    <3>3. mishaps \in [Sessions -> SUBSET Mishap] /\ mishaps[k] \cup {what} \in SUBSET Mishap
      BY DEF IInv, Basic, TypeOK
    <3> QED
      BY <3>1, <3>2, <3>3
  <2> QED
    BY <2>1, <2>2
<1>3. Mild
  BY Unwritten DEF IInv
<1>4. HandlerOK(Idle)'
  BY IdleLemma DEF HandlerOK, Busy, HasToken
<1>5. Basic'
  <2>1. /\ now' \in Seconds /\ password' \in [Users -> Passwords] /\ asked' \in 0..MaxRequests
        /\ asked <= asked' /\ loggedOut' \subseteq 1..asked'
    BY DEF IInv, Basic, TypeOK
  <2> QED
    BY <1>2, <1>3, <1>4, <2>1, IdleLemma, BasicKept DEF IInv
<1>6. Places'
  BY <1>3, IdleLemma, PlacesKept DEF IInv
<1>7. ASSUME NEW s \in Sessions PROVE SessionOK(s)'
  <2>1. CASE s # req[r].session
    BY <1>2, <1>3, <2>1, IdleLemma, QuietElsewhere
  <2>2. CASE s = req[r].session
    <3>1. LiveTokens(s)' = LiveTokens(s)
      BY DEF LiveTokens
    <3>2. \A q \in InFlight(s)' : q \in InFlight(s) /\ req'[q] = req[q]
      BY IdleLemma DEF InFlight, IInv, Basic, TypeOK
    <3>3. Alone(s)' /\ Rotates(s)'
      BY <1>2, <3>1, <3>2 DEF IInv, SessionOK, Alone, Rotates
    <3>4. Ends(s)'
      BY <1>2, <3>1, <3>2 DEF IInv, SessionOK, Ends, Smooth, SessionOf
    <3>5. Follows(s)'
      BY <1>2, <2>2 DEF Follows
    <3> QED
      BY <3>3, <3>4, <3>5 DEF SessionOK
  <2> QED
    BY <2>1, <2>2
<1> QED
  BY <1>5, <1>6, <1>7 DEF IInv

LEMMA StopKeeps == ASSUME IInv, NEW r \in Requests, Stop(r) PROVE IInv'
BY EndsEmpty DEF Stop, End, Mishap

LEMMA TickKeeps ==
    ASSUME IInv, Tick \/ UNCHANGED vars
    PROVE  IInv'
<1>1. /\ UNCHANGED <<password, rows, cookie, bearer, req, asked, mishaps, loggedOut>>
      /\ now' \in Seconds
  BY DEF Tick, vars, IInv, Basic, TypeOK, Seconds
<1>2. Basic'
  BY <1>1 DEF IInv, Basic, TypeOK, HandlerOK, Busy, HasToken
<1>3. Places'
  BY <1>1 DEF IInv, Places, SessionOf, Busy
<1>4. ASSUME NEW s \in Sessions PROVE SessionOK(s)'
  <2>1. Untouched(s)
    BY <1>1 DEF Untouched, LiveTokens, InFlight, SessionOf
  <2> QED
    BY <2>1, UntouchedLemma DEF IInv
<1> QED
  BY <1>2, <1>3, <1>4 DEF IInv

-----------------------------------------------------------------------------
(* Tokens are revoked.                                                     *)

LEMMA RevokeLemma ==
    ASSUME IInv, NEW r \in Requests, req[r].pc \in {"refresh.revoke", "logout"},
           rows' = Revoked(req[r].token)
    PROVE  \E t \in Token, s \in Sessions :
              /\ t = req[r].token /\ s = req[r].session /\ s \in 1..asked /\ s # NoSession
              /\ req[r].browser \in Browsers /\ req[r].user \in Users
              /\ rows[t].session = s /\ rows[t].state # "none"
              /\ rows' \in [Token -> Row] /\ rows'[t].session = s /\ rows'[t].state = "revoked"
              /\ \A o \in Token : o # t => rows'[o] = rows[o]
              /\ LiveTokens(s)' = LiveTokens(s) \ {t}
<1>1. PICK t \in Token, s \in Sessions :
          /\ t = req[r].token /\ s = req[r].session /\ s \in 1..asked /\ s # NoSession
          /\ req[r].browser \in Browsers /\ req[r].user \in Users
          /\ rows[t].session = s /\ rows[t].state # "none"
  BY SessionLemma DEF IInv, Basic, TypeOK, HandlerOK, Busy, HasToken
<1>2. rows' = [rows EXCEPT ![t].state = "revoked"]
  BY <1>1 DEF Revoked
<1>3. rows \in [Token -> Row]
  BY DEF IInv, Basic, TypeOK
<1>4. /\ rows' \in [Token -> Row] /\ rows'[t].session = s /\ rows'[t].state = "revoked"
      /\ \A o \in Token : o # t => rows'[o] = rows[o]
  BY <1>1, <1>2, <1>3 DEF Row
<1>5. LiveTokens(s)' = LiveTokens(s) \ {t}
  BY <1>4 DEF LiveTokens
<1> QED
  BY <1>1, <1>4, <1>5

LEMMA RefreshRevokeKeeps == ASSUME IInv, NEW r \in Requests, RefreshRevoke(r) PROVE IInv'
<1>1. PICK t \in Token, s \in Sessions :
          /\ t = req[r].token /\ s = req[r].session /\ s \in 1..asked /\ s # NoSession
          /\ req[r].browser \in Browsers /\ req[r].user \in Users
          /\ rows[t].session = s /\ rows[t].state # "none"
          /\ rows' \in [Token -> Row] /\ rows'[t].session = s /\ rows'[t].state = "revoked"
          /\ \A o \in Token : o # t => rows'[o] = rows[o]
          /\ LiveTokens(s)' = LiveTokens(s) \ {t}
  BY RevokeLemma DEF RefreshRevoke
<1>2. PICK h \in Handler :
          /\ req' = [req EXCEPT ![r] = h] /\ h.pc = "refresh.create"
          /\ h.browser = req[r].browser /\ h.user = req[r].user /\ h.token = t /\ h.session = s
  <2>1. req[r] \in Handler /\ req' = [req EXCEPT ![r] = [req[r] EXCEPT !.pc = "refresh.create"]]
    BY DEF RefreshRevoke, IInv, Basic, TypeOK
  <2>2. [req[r] EXCEPT !.pc = "refresh.create"] \in Handler
    BY <2>1 DEF Handler
  <2> QED
    BY <1>1, <2>1, <2>2 DEF Handler
<1>3. /\ req[r].pc = "refresh.revoke"
      /\ UNCHANGED <<now, password, cookie, bearer, asked, mishaps, loggedOut>>
  BY DEF RefreshRevoke
<1>4. Mild
  BY <1>1, <1>3 DEF Mild, IInv, Basic, TypeOK
<1>5. HandlerOK(h)'
  BY <1>1, <1>2, <1>3 DEF HandlerOK, Busy, HasToken
<1>6. Basic'
  <2>1. /\ now' \in Seconds /\ password' \in [Users -> Passwords] /\ asked' \in 0..MaxRequests
        /\ asked <= asked' /\ mishaps' \in [Sessions -> SUBSET Mishap]
        /\ loggedOut' \subseteq 1..asked'
    BY <1>3 DEF IInv, Basic, TypeOK
  <2> QED
    BY <1>2, <1>4, <1>5, <2>1, BasicKept DEF IInv
<1>7. Places'
  BY <1>1, <1>2, <1>3, <1>4, PlacesKept DEF IInv, Busy
<1>8. ASSUME NEW k \in Sessions, k # s PROVE SessionOK(k)'
  BY <1>1, <1>2, <1>3, <1>4, <1>8, QuietElsewhere
<1>9. SessionOK(s)'
  <2>1. req'[r] = h /\ \A q \in Requests : q # r => req'[q] = req[q]
    BY <1>2 DEF IInv, Basic, TypeOK
  <2>2. InFlight(s)' = InFlight(s) /\ r \in InFlight(s)
    BY <1>1, <1>2, <1>3, <2>1 DEF InFlight
  <2>3. SessionOK(s)
    BY DEF IInv
  <2>4. Alone(s)'
    BY <1>3, <2>2, <2>3 DEF SessionOK, Alone
  <2>5. "crossed" \notin mishaps[s] => LiveTokens(s)' = {} /\ InFlight(s)' = {r}
    BY <1>1, <1>3, <2>2, <2>3 DEF SessionOK, Alone, Rotates
  <2>6. Rotates(s)'
    BY <1>3, <2>5 DEF Rotates
  <2>7. Ends(s)'
    BY <1>2, <1>3, <2>1, <2>2, <2>3, <2>5 DEF SessionOK, Ends, Smooth
  <2>8. Follows(s)'
    BY <1>2, <2>1, <2>2 DEF Follows
  <2> QED
    BY <2>4, <2>6, <2>7, <2>8 DEF SessionOK
<1> QED
  BY <1>6, <1>7, <1>8, <1>9 DEF IInv

LEMMA LogoutRevokeKeeps == ASSUME IInv, NEW r \in Requests, LogoutRevoke(r) PROVE IInv'
<1>1. PICK t \in Token, s \in Sessions :
          /\ t = req[r].token /\ s = req[r].session /\ s \in 1..asked /\ s # NoSession
          /\ req[r].browser \in Browsers /\ req[r].user \in Users
          /\ rows[t].session = s /\ rows[t].state # "none"
          /\ rows' \in [Token -> Row] /\ rows'[t].session = s /\ rows'[t].state = "revoked"
          /\ \A o \in Token : o # t => rows'[o] = rows[o]
          /\ LiveTokens(s)' = LiveTokens(s) \ {t}
  BY RevokeLemma DEF LogoutRevoke
<1>2. /\ req[r].pc = "logout" /\ req' = [req EXCEPT ![r] = Idle]
      /\ loggedOut' = loggedOut \cup {s}
      /\ UNCHANGED <<now, password, bearer, asked, mishaps>>
  BY <1>1 DEF LogoutRevoke, End
<1>3. /\ cookie' \in [Browsers -> Token \cup {NoToken}]
      /\ \A b \in Browsers : cookie'[b] \in {cookie[b], NoToken}
  BY <1>1 DEF LogoutRevoke, IInv, Basic, TypeOK
<1>4. Mild
  BY <1>1, <1>2, <1>3 DEF Mild
<1>5. HandlerOK(Idle)'
  BY IdleLemma DEF HandlerOK, Busy, HasToken
<1>6. Basic'
  <2>1. /\ now' \in Seconds /\ password' \in [Users -> Passwords] /\ asked' \in 0..MaxRequests
        /\ asked <= asked' /\ mishaps' \in [Sessions -> SUBSET Mishap]
    BY <1>2 DEF IInv, Basic, TypeOK
  <2>2. loggedOut' \subseteq 1..asked'
    BY <1>1, <1>2 DEF IInv, Basic
  <2> QED
    BY <1>2, <1>4, <1>5, <2>1, <2>2, IdleLemma, BasicKept DEF IInv
<1>7. Places'
  BY <1>2, <1>4, IdleLemma, PlacesKept DEF IInv
<1>8. ASSUME NEW k \in Sessions, k # s PROVE SessionOK(k)'
  BY <1>1, <1>2, <1>4, <1>8, IdleLemma, QuietElsewhere
<1>9. SessionOK(s)'
  <2>1. \A q \in InFlight(s)' : q \in InFlight(s) /\ q # r /\ req'[q] = req[q]
    BY <1>2, IdleLemma DEF InFlight, IInv, Basic, TypeOK
  <2>2. r \in InFlight(s)
    BY <1>1, <1>2 DEF InFlight
  <2>3. SessionOK(s)
    BY DEF IInv
  <2>4. "crossed" \notin mishaps[s] => InFlight(s)' = {}
    BY <2>1, <2>2, <2>3 DEF SessionOK, Alone
  <2>5. Alone(s)'
    BY <1>2, <2>4 DEF Alone
  <2>6. Rotates(s)'
    BY <1>1, <1>2, <2>3, <2>4 DEF SessionOK, Rotates
  <2>7. Smooth(s) => LiveTokens(s)' = {} /\ InFlight(s)' = {}
    BY <1>1, <1>2, <2>2, <2>3, <2>4 DEF SessionOK, Ends, Smooth
  <2>8. Ends(s)'
    BY <1>2, <2>7 DEF Ends, Smooth
  <2>9. Follows(s)'
    BY <1>2 DEF Follows
  <2> QED
    BY <2>5, <2>6, <2>8, <2>9 DEF SessionOK
<1> QED
  BY <1>6, <1>7, <1>8, <1>9 DEF IInv

-----------------------------------------------------------------------------
(* A token is issued.                                                      *)

LEMMA IssueKeeps ==
    ASSUME IInv, NEW r \in Requests, req[r].pc \in {"login", "refresh.create"},
           NEW t \in Token, NEW s \in Sessions, s = req[r].session, Free(t),
           rows' = [rows EXCEPT ![t] = [state |-> "live", session |-> s]],
           Answer(req[r].browser, t, s), End(r), UNCHANGED <<now, password, asked, loggedOut>>
    PROVE  IInv'
<1>1. PICK B \in Browsers : B = req[r].browser /\ s \in 1..asked
  BY DEF IInv, Basic, HandlerOK, Busy
<1>2. /\ rows \in [Token -> Row] /\ cookie \in [Browsers -> Token \cup {NoToken}]
      /\ bearer \in [Browsers -> Token \cup {NoToken}] /\ req \in [Requests -> Handler]
      /\ mishaps \in [Sessions -> SUBSET Mishap]
  BY DEF IInv, Basic, TypeOK
<1>3. /\ rows' \in [Token -> Row] /\ rows'[t].state = "live" /\ rows'[t].session = s
      /\ \A o \in Token : o # t => rows'[o] = rows[o]
      /\ rows[t].state = "none" /\ t # NoToken
  BY <1>2, IdleLemma DEF Row, Free
<1>4. /\ req' \in [Requests -> Handler] /\ req'[r] = Idle
      /\ \A q \in Requests : q # r => req'[q] = req[q]
  BY <1>2, IdleLemma DEF End
<1>5. \/ cookie' = [cookie EXCEPT ![B] = t] /\ bearer' = [bearer EXCEPT ![B] = t] /\ mishaps' = mishaps
      \/ /\ mishaps' = [mishaps EXCEPT ![s] = @ \cup {"cut"}]
         /\ UNCHANGED <<cookie, bearer>>
  BY <1>1 DEF Answer, Mark
<1>6. /\ cookie' \in [Browsers -> Token \cup {NoToken}]
      /\ bearer' \in [Browsers -> Token \cup {NoToken}]
      /\ mishaps' \in [Sessions -> SUBSET Mishap]
  BY <1>2, <1>5 DEF Mishap
<1>7. /\ \A b \in Browsers : b # B => cookie'[b] = cookie[b]
      /\ \A k \in Sessions : k # s => mishaps'[k] = mishaps[k]
      /\ \A k \in Sessions : mishaps[k] \subseteq mishaps'[k]
      /\ cookie'[B] \in {cookie[B], t}
      /\ "cut" \notin mishaps'[s] => cookie'[B] = t /\ mishaps' = mishaps
  BY <1>2, <1>5
<1> HIDE DEF Free
<1>8. ASSUME NEW b \in Browsers, cookie[b] # NoToken
      PROVE  cookie[b] \in Token /\ cookie[b] # t /\ rows'[cookie[b]] = rows[cookie[b]]
  BY <1>2, <1>3, <1>8 DEF IInv, Basic
<1>9. ASSUME NEW b \in Browsers, cookie'[b] # NoToken
      PROVE  \/ cookie'[b] = t /\ b = B /\ SessionOf(b)' = s
             \/ cookie'[b] = cookie[b] /\ SessionOf(b)' = SessionOf(b)
  BY <1>3, <1>7, <1>8, <1>9 DEF SessionOf
<1>10. ASSUME NEW q \in Requests, Busy(req'[q])
       PROVE  q # r /\ req'[q] = req[q] /\ Busy(req[q])
  BY <1>4, <1>10, IdleLemma
<1>11. ASSUME NEW q \in Requests PROVE HandlerOK(req[q])'
  <2>1. CASE q = r
    BY <1>4, <2>1, IdleLemma DEF HandlerOK, Busy, HasToken
  <2>2. CASE q # r
    <3>1. PICK n \in Handler : n = req[q] /\ n = req'[q] /\ HandlerOK(n)
      BY <1>2, <1>4, <2>2 DEF IInv, Basic
    <3>2. HasToken(n) => n.token # t
      BY <1>3, <3>1 DEF HandlerOK
    <3>3. n.pc = "login" => n.session # s
      <4>1. CASE req[r].pc = "login"
        BY <2>2, <3>1, <4>1 DEF IInv, Places
      <4>2. CASE req[r].pc = "refresh.create"
        BY <3>1, <4>2 DEF IInv, Basic, HandlerOK, HasToken
      <4> QED
        BY <4>1, <4>2
    <3>4. HandlerOK(n)'
      BY <1>3, <3>1, <3>2, <3>3 DEF HandlerOK, Busy, HasToken
    <3> QED
      BY <3>1, <3>4 DEF HandlerOK, Busy, HasToken
  <2> QED
    BY <2>1, <2>2
<1>12. Basic'
  <2>1. TypeOK'
    BY <1>3, <1>4, <1>6 DEF IInv, Basic, TypeOK
  <2>2. \A o \in Token :
          /\ rows'[o].session \in 1..asked' \cup {NoSession}
          /\ rows'[o].state # "none" => rows'[o].session \in 1..asked'
    BY <1>1, <1>3 DEF IInv, Basic
  <2>3. \A b \in Browsers : cookie'[b] # NoToken => rows'[cookie'[b]].state # "none"
    BY <1>3, <1>8, <1>9 DEF IInv, Basic
  <2>4. loggedOut' \subseteq 1..asked'
    BY DEF IInv, Basic
  <2> QED
    BY <1>11, <2>1, <2>2, <2>3, <2>4 DEF Basic
<1>13. \A b \in Browsers : cookie'[b] # NoToken /\ SessionOf(b)' = s => b = B
  BY <1>1, <1>9 DEF IInv, Places, Busy
<1>14. Places'
  <2>1. ASSUME NEW b1 \in Browsers, NEW b2 \in Browsers, cookie'[b1] # NoToken,
               cookie'[b2] # NoToken, SessionOf(b1)' = SessionOf(b2)'
        PROVE  b1 = b2
    BY <1>9, <1>13, <2>1 DEF IInv, Places
  <2>2. ASSUME NEW q \in Requests, NEW b \in Browsers, Busy(req'[q]), cookie'[b] # NoToken,
               SessionOf(b)' = req'[q].session
        PROVE  b = req'[q].browser
    BY <1>1, <1>9, <1>10, <2>2 DEF IInv, Places, Busy
  <2>3. ASSUME NEW p \in Requests, NEW q \in Requests, Busy(req'[p]), Busy(req'[q]),
               req'[p].session = req'[q].session
        PROVE  req'[p].browser = req'[q].browser
    BY <1>10, <2>3 DEF IInv, Places
  <2>4. ASSUME NEW p \in Requests, NEW q \in Requests, req'[p].pc = "login", req'[q].pc = "login",
               req'[p].session = req'[q].session
        PROVE  p = q
    BY <1>10, <2>4 DEF IInv, Places, Busy
  <2> QED
    BY <2>1, <2>2, <2>3, <2>4 DEF Places, Busy
<1>15. ASSUME NEW k \in Sessions, k # s PROVE SessionOK(k)'
  <2>1. LiveTokens(k)' = LiveTokens(k)
    BY <1>3, <1>15 DEF LiveTokens
  <2>2. InFlight(k)' = InFlight(k) /\ \A q \in InFlight(k) : req'[q] = req[q]
    BY <1>2, <1>4, <1>15, IdleLemma DEF InFlight
  <2>3. \A b \in Browsers : cookie'[b] # NoToken /\ SessionOf(b)' = k =>
          cookie'[b] = cookie[b] /\ SessionOf(b) = k /\ rows'[cookie[b]].state = rows[cookie[b]].state
    BY <1>8, <1>9, <1>15
  <2>4. Untouched(k)
    BY <1>7, <1>15, <2>1, <2>2, <2>3 DEF Untouched
  <2> QED
    BY <2>4, UntouchedLemma DEF IInv
<1>16. SessionOK(s)'
  <2>1. SessionOK(s) /\ r \in InFlight(s)
    BY DEF IInv, InFlight
  <2>2. \A q \in InFlight(s)' : q \in InFlight(s) /\ q # r
    BY <1>4, IdleLemma DEF InFlight
  <2>3. LiveTokens(s)' = LiveTokens(s) \cup {t}
    BY <1>3 DEF LiveTokens
  <2>4. "crossed" \notin mishaps[s] => LiveTokens(s) = {}
    <3>1. CASE req[r].pc = "login"
      BY <3>1 DEF LiveTokens, IInv, Basic, HandlerOK
    <3>2. CASE req[r].pc = "refresh.create"
      BY <2>1, <3>2 DEF SessionOK, Rotates
    <3> QED
      BY <3>1, <3>2
  <2>5. "crossed" \notin mishaps'[s] => LiveTokens(s)' = {t} /\ InFlight(s)' = {}
    BY <1>7, <2>1, <2>2, <2>3, <2>4 DEF SessionOK, Alone
  <2>6. Alone(s)' /\ Rotates(s)'
    BY <2>5 DEF Alone, Rotates
  <2>7. Smooth(s)' => Smooth(s) /\ s \notin loggedOut'
    BY <1>7, <2>1 DEF SessionOK, Ends, Smooth
  <2>8. Ends(s)'
    BY <1>7, <1>13, <2>5, <2>7 DEF Ends, Smooth
  <2>9. Follows(s)'
    BY <1>3, <1>7, <1>13 DEF Follows
  <2> QED
    BY <2>6, <2>8, <2>9 DEF SessionOK
<1> QED
  BY <1>12, <1>14, <1>15, <1>16 DEF IInv

LEMMA CreateKeeps == ASSUME IInv, NEW r \in Requests, Create(r) PROVE IInv'
<1>1. PICK t \in Token, s \in Sessions :
          t = [user |-> req[r].user, at |-> now] /\ s = req[r].session /\ s # NoSession
  <2>1. req[r].user \in Users /\ req[r].session \in 1..asked /\ now \in Seconds
    BY DEF Create, IInv, Basic, TypeOK, HandlerOK, Busy
  <2>2. req[r].session \in Sessions /\ req[r].session # NoSession
    BY <2>1, SessionLemma DEF IInv, Basic, TypeOK
  <2>3. [user |-> req[r].user, at |-> now] \in Token
    BY <2>1 DEF Token
  <2> QED
    BY <2>2, <2>3
<1>2. CASE Free(t)
  BY <1>1, <1>2, IssueKeeps DEF Create, Insert
<1>3. CASE ~Free(t)
  BY <1>1, <1>3, EndsEmpty DEF Create, Insert, End, Mishap
<1> QED
  BY <1>2, <1>3

LEMMA NextKeeps == IInv /\ [Next]_vars => IInv'
<1> SUFFICES ASSUME IInv, [Next]_vars PROVE IInv'
  OBVIOUS
<1>1. CASE Tick \/ UNCHANGED vars
  BY <1>1, TickKeeps
<1>2. ASSUME NEW r \in Requests, NEW b \in Browsers,
             \/ \E u \in Users, p \in Passwords : Login(r, b, u, p)
             \/ Refresh(r, b) \/ Logout(r, b)
      PROVE  IInv'
  BY <1>2, ArriveKeeps
<1>3. ASSUME NEW r \in Requests,
             \/ \E b \in Browsers, p, q \in Passwords : ChangePassword(r, b, p, q)
             \/ Create(r) \/ RefreshRevoke(r) \/ LogoutRevoke(r) \/ PasswordWrite(r) \/ Stop(r)
      PROVE  IInv'
  BY <1>3, PasswordKeeps, CreateKeeps, RefreshRevokeKeeps, LogoutRevokeKeeps, StopKeeps
<1> QED
  BY <1>1, <1>2, <1>3 DEF Next

-----------------------------------------------------------------------------
(* The theorems.                                                           *)

\* The invariant is inductive: it holds of every reachable state, stops, lost
\* answers, crossed requests and tokens of one second included.
THEOREM Inductive == Spec => []IInv
<1>1. Init => IInv
  BY InitHolds
<1>2. IInv /\ [Next]_vars => IInv'
  BY NextKeeps
<1> QED
  BY <1>1, <1>2, PTL DEF Spec

\* The tables, the browsers and the handlers stay within their types.
THEOREM TypeCorrect == Spec => []TypeOK
<1>1. IInv => TypeOK
  BY DEF IInv, Basic
<1> QED
  BY <1>1, Inductive, PTL

\* Rotation (refresh-tokens.use-case: check, revoke, replace) leaves a session at
\* most one live refresh token, while no two of its requests crossed.
THEOREM Rotation == Spec => []OneLiveToken
<1>1. IInv => OneLiveToken
  BY DEF IInv, SessionOK, Rotates, OneLiveToken
<1> QED
  BY <1>1, Inductive, PTL

\* A completed logout leaves its session without a live refresh token, unless a
\* request crossed or an answer with a newer token was lost.
THEOREM LogoutEnds == Spec => []LogoutEndsSession
<1>1. IInv => LogoutEndsSession
  BY DEF IInv, Basic, TypeOK, SessionOK, Ends, Smooth, LogoutEndsSession
<1> QED
  BY <1>1, Inductive, PTL

\* The cookie of a browser is its session's live token whenever no handler of the
\* session is at work and nothing befell it: the rotation signs nobody out.
THEOREM CookieStays == Spec => []CookieIsLive
<1>1. ASSUME IInv, NEW b \in Browsers, cookie[b] # NoToken, mishaps[SessionOf(b)] = {},
             SessionOf(b) \notin loggedOut, InFlight(SessionOf(b)) = {}
      PROVE  rows[cookie[b]].state = "live"
  <2>1. SessionOf(b) \in Sessions
    BY <1>1, SessionLemma DEF SessionOf, IInv, Basic, TypeOK
  <2> QED
    BY <1>1, <2>1 DEF IInv, SessionOK, Follows
<1>2. IInv => CookieIsLive
  BY <1>1 DEF CookieIsLive, SessionOf
<1> QED
  BY <1>2, Inductive, PTL

\* No step makes a revoked token live again: the string of the second is inserted
\* only where no row has it (refresh-token.prisma: the token is unique).
THEOREM RevocationStays == Spec => RevokedStaysRevoked
<1>1. ASSUME IInv, [Next]_vars, NEW t \in Token, rows[t].state = "revoked"
      PROVE  rows'[t].state = "revoked"
  <2>1. rows \in [Token -> Row]
    BY <1>1 DEF IInv, Basic, TypeOK
  <2>2. CASE UNCHANGED rows
    BY <1>1, <2>2
  <2>3. ASSUME NEW r \in Requests, RefreshRevoke(r) \/ LogoutRevoke(r)
        PROVE  rows'[t].state = "revoked"
    BY <1>1, <2>1, <2>3 DEF RefreshRevoke, LogoutRevoke, Revoked, Row
  <2>4. ASSUME NEW r \in Requests, Create(r) PROVE rows'[t].state = "revoked"
    BY <1>1, <2>1, <2>4 DEF Create, Insert, Free
  <2> QED
    BY <1>1, <2>2, <2>3, <2>4
       DEF Next, vars, Tick, Login, Refresh, Logout, Present, ChangePassword, Arrive,
           PasswordWrite, Stop
<1>2. IInv /\ [Next]_vars =>
          [\A t \in Token : rows[t].state = "revoked" => rows'[t].state = "revoked"]_rows
  BY <1>1
<1> QED
  BY <1>2, Inductive, PTL DEF Spec, RevokedStaysRevoked

===============================================================================
