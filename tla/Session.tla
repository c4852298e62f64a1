-------------------------------- MODULE Session --------------------------------
(***************************************************************************)
(* The login session of one user in one browser: session_service and the    *)
(* auth endpoints on the server, apiClient (proactive refresh, 401          *)
(* interceptor), activity (idle timeout) and App (restore on load) in every *)
(* tab.  The tabs share the refresh cookie and the time of last activity.   *)
(*                                                                          *)
(* Time is explicit.  Requests are answered and due timers fire within one  *)
(* tick: between their steps other tabs act, time does not pass.  A page    *)
(* that is loaded again drops its requests.  The limits of the organisation *)
(* do not change during a behaviour; MFA is in the sign-in.                 *)
(***************************************************************************)
EXTENDS Integers

CONSTANTS
    Tabs,         \* browser tabs with the application
    Access,       \* ACCESS_TOKEN_EXPIRE_MINUTES, in ticks
    Lead,         \* how long before that a token is refreshed
    Idle,         \* idle timeout
    Max,          \* absolute lifetime
    Horizon,      \* bound: time
    MaxRevokes,   \* bound: password changes and sign-outs everywhere
    MaxFailures   \* bound: refresh requests without an answer

ASSUME ConstantsAssumption ==
    /\ {Horizon, MaxRevokes, MaxFailures} \subseteq Nat
    /\ {Access, Lead, Idle, Max} \subseteq Nat \ {0}
    /\ Lead < Access

VARIABLES
    now,
    version,     \* users.token_version
    cookie,      \* the refresh cookie of the browser
    tab,         \* the page in each tab
    calls,       \* POST /auth/refresh in flight
    activity,    \* getLastActivity: what the tabs take for the last activity
    failures,    \* failures so far
    lastUse,     \* history: when the user last did something that keeps a good cookie
    lastMove,    \* history: when the user last did anything
    lastSignIn,  \* history: when a password was last given
    revokedAt,   \* history: when the version last changed
    ended        \* history: the user has signed out, or never signed in

vars == <<now, version, cookie, tab, calls, activity, failures,
          lastUse, lastMove, lastSignIn, revokedAt, ended>>
-----------------------------------------------------------------------------
(* Values *)

Earlier(a, b) == IF a <= b THEN a ELSE b

NoCookie == [exp |-> 0, auth |-> 0, tv |-> 0]      \* exp = 0: none, or deleted
Cookie   == [exp : Nat, auth : Nat, tv : Nat]

\* exp: of the access token, 0: none; received: tokenReceivedAt; timer: when the
\* proactive refresh is due, 0: never; refreshing: isRefreshing; tv is history: the
\* token version of the cookie or sign-in the access token was given for.
Page == [state : {"out", "loading", "in"}, exp : Nat, received : Nat, timer : Nat,
         refreshing : BOOLEAN, tv : Nat]
SignedOut == [state |-> "out", exp |-> 0, received |-> 0, timer |-> 0,
              refreshing |-> FALSE, tv |-> 0]

\* Who sent the request: the proactive timer, the 401 interceptor, the page load.
Source == {"timer", "401", "load"}
Phase  == {"sent", "granted", "refused"}
\* sent: the cookie of the request; issued: the cookie of the answer.
Call == [tab : Tabs, from : Source, sent : Cookie, phase : Phase, issued : Cookie, access : Nat]
Refresh(t, from) ==
    [tab |-> t, from |-> from, sent |-> cookie, phase |-> "sent", issued |-> NoCookie, access |-> 0]

Signed(t) == tab[t].state = "in"
Valid(t) == Signed(t) /\ now < tab[t].exp          \* the access token is accepted

Init ==
    /\ now = 1
    /\ version = 0
    /\ cookie = NoCookie
    /\ tab = [t \in Tabs |-> SignedOut]
    /\ calls = {}
    /\ activity = 1
    /\ failures = 0
    /\ lastUse = 1 /\ lastMove = 1 /\ lastSignIn = 1 /\ revokedAt = 1
    /\ ended = TRUE
-----------------------------------------------------------------------------
(* start_session and what the page does with the access token                *)

IssuedCookie(auth) ==
    [exp |-> Earlier(now + Idle, auth + Max), auth |-> auth, tv |-> version']
AccessExpiry(auth) == Earlier(now + Access, auth + Max)

\* scheduleTokenRefresh: no timer when the token is too short for one.
Holding(access, tv) ==
    [state |-> "in", exp |-> access, received |-> now,
     timer |-> IF access > now + Lead THEN access - Lead ELSE 0,
     refreshing |-> FALSE, tv |-> tv]

\* markActivity
Mark == /\ lastUse' = (IF now < cookie.exp THEN now ELSE lastUse)
        /\ lastMove' = now
Act  == Mark /\ activity' = now

\* Slip kept for the checks: the timer of the old page stays.
ReloadKeepsTimer(t) ==
    /\ tab' = [tab EXCEPT ![t] = [SignedOut EXCEPT !.state = "loading", !.timer = tab[t].timer]]
    /\ calls' = {q \in calls : q.tab # t} \cup {Refresh(t, "load")}

\* window.location.href: the page starts again and asks for a session; what the
\* old page was waiting for is dropped.
Reload(t) ==
    /\ tab' = [tab EXCEPT ![t] = [SignedOut EXCEPT !.state = "loading"]]
    /\ calls' = {q \in calls : q.tab # t} \cup {Refresh(t, "load")}
-----------------------------------------------------------------------------
(* The user *)

\* POST /auth/login, answered with a cookie and an access token.  The login form
\* does not wait for the restore.
SignIn(t) ==
    /\ ~Signed(t)
    /\ UNCHANGED <<now, version, calls, failures, revokedAt>>
    /\ cookie' = IssuedCookie(now)
    /\ tab' = [tab EXCEPT ![t] = Holding(AccessExpiry(now), version)]
    /\ lastUse' = now /\ lastMove' = now /\ activity' = now
    /\ lastSignIn' = now
    /\ ended' = FALSE

\* The application is opened in a tab: restore on load.
Open(t) ==
    /\ tab[t].state = "out"
    /\ Reload(t)
    /\ Mark
    /\ UNCHANGED <<now, version, cookie, activity, failures, lastSignIn, revokedAt, ended>>

\* The interceptor after a 401: one refresh at a time, the others queue up.
Intercept(t) ==
    IF tab[t].refreshing
    THEN UNCHANGED <<tab, calls>>
    ELSE /\ tab' = [tab EXCEPT ![t].refreshing = TRUE]
         /\ calls' = calls \cup {Refresh(t, "401")}

\* The user does something that makes a request.
Use(t) ==
    /\ Signed(t)
    /\ Act
    /\ IF Valid(t) THEN UNCHANGED <<tab, calls>> ELSE Intercept(t)
    /\ UNCHANGED <<now, version, cookie, failures, lastSignIn, revokedAt, ended>>

\* onActivity: the pointer, the wheel or a key, and no request.  It counts for the
\* timers; with a token that has expired nothing asks for the next one.
Touch(t) ==
    /\ Signed(t)
    /\ IF Valid(t) THEN Act ELSE activity' = now /\ lastMove' = now /\ UNCHANGED lastUse
    /\ UNCHANGED <<now, version, cookie, tab, calls, failures, lastSignIn, revokedAt, ended>>

\* A poll or refetch: refreshed only for a user who was active since the token.
Background(t) ==
    /\ Signed(t) /\ ~Valid(t)
    /\ activity >= tab[t].received
    /\ Intercept(t)
    /\ UNCHANGED <<now, version, cookie, activity, failures, lastUse, lastMove, lastSignIn, revokedAt, ended>>

\* POST /auth/logout
Logout(t) ==
    /\ Valid(t)
    /\ cookie' = NoCookie
    /\ tab' = [tab EXCEPT ![t] = SignedOut]
    /\ Act
    /\ ended' = TRUE
    /\ UNCHANGED <<now, version, calls, failures, lastSignIn, revokedAt>>

\* POST /auth/logout-all: revoke_all_sessions
LogoutAll(t) ==
    /\ Valid(t)
    /\ version < MaxRevokes /\ version' = version + 1
    /\ revokedAt' = now
    /\ cookie' = NoCookie
    /\ tab' = [tab EXCEPT ![t] = SignedOut]
    /\ Act
    /\ ended' = TRUE
    /\ UNCHANGED <<now, calls, failures, lastSignIn>>

\* POST /auth/change-password: the other sessions are revoked, this one gets a
\* new cookie; its page keeps the access token it has.
ChangePassword(t) ==
    /\ Valid(t)
    /\ version < MaxRevokes /\ version' = version + 1
    /\ revokedAt' = now
    /\ cookie' = IssuedCookie(now)
    /\ Act
    /\ lastSignIn' = now
    /\ ended' = FALSE
    /\ UNCHANGED <<now, tab, calls, failures>>

\* One of these with an access token that has expired: a 401 of an /auth/ path
\* is not refreshed, the page goes to /login.
AuthCallTooLate(t) ==
    /\ Signed(t) /\ ~Valid(t)
    /\ Reload(t)
    /\ Act
    /\ UNCHANGED <<now, version, cookie, failures, lastSignIn, revokedAt, ended>>
-----------------------------------------------------------------------------
(* Timers *)

TimerDue(t) == tab[t].timer # 0 /\ tab[t].timer <= now
IdleDue(t)  == Signed(t) /\ now - activity >= Idle

\* The proactive refresh, for a user who was active since the token was received.
TimerFires(t) ==
    /\ TimerDue(t)
    /\ tab' = [tab EXCEPT ![t].timer = 0]
    /\ calls' = IF activity >= tab[t].received THEN calls \cup {Refresh(t, "timer")} ELSE calls
    /\ UNCHANGED <<now, version, cookie, activity, failures, lastUse, lastMove, lastSignIn, revokedAt, ended>>

\* The idle timeout: sign this tab out, leave the cookie alone.
IdleOut(t) ==
    /\ IdleDue(t)
    /\ Reload(t)
    /\ UNCHANGED <<now, version, cookie, activity, failures, lastUse, lastMove, lastSignIn, revokedAt, ended>>
-----------------------------------------------------------------------------
(* POST /auth/refresh *)

\* Slip kept for the checks: the token version is not compared.
MayContinueRevoked(c) == now < c.exp /\ now < c.auth + Max

\* continue_session: the cookie has not expired, is not revoked, and the session
\* has not reached its absolute end.
MayContinue(c) == now < c.exp /\ c.tv = version /\ now < c.auth + Max

Refused(q) == [q EXCEPT !.phase = "refused"]

\* Slips kept for the checks: the refresh starts the lifetime anew; it issues a
\* cookie that ends when the old one would have.
GrantedAnew(q) ==
    [q EXCEPT !.phase = "granted", !.issued = IssuedCookie(now), !.access = AccessExpiry(now)]
GrantedSameEnd(q) ==
    [q EXCEPT !.phase = "granted", !.issued = q.sent, !.access = AccessExpiry(q.sent.auth)]

Granted(q) ==
    [q EXCEPT !.phase = "granted",
              !.issued = IssuedCookie(q.sent.auth),
              !.access = AccessExpiry(q.sent.auth)]

Serve(q) ==
    /\ q.phase = "sent"
    /\ UNCHANGED <<now, version, cookie, tab, activity, failures,
                   lastUse, lastMove, lastSignIn, revokedAt, ended>>
    /\ calls' = (calls \ {q}) \cup {IF MayContinue(q.sent) THEN Granted(q) ELSE Refused(q)}

\* refreshSession: the browser stores the cookie, the page the access token.  Only
\* the page load takes the user from the answer: a page that was signed out
\* meanwhile stays so, with a token.  To start watching for idleness is activity.
ReceiveGranted(q) ==
    /\ q.phase = "granted"
    /\ cookie' = q.issued
    /\ calls' = calls \ {q}
    /\ tab' = [tab EXCEPT ![q.tab] =
                  [Holding(q.access, q.sent.tv) EXCEPT
                      !.state = IF q.from = "load" THEN "in" ELSE tab[q.tab].state]]
    /\ activity' = IF q.from = "load" THEN now ELSE activity
    /\ UNCHANGED <<now, version, failures, lastUse, lastMove, lastSignIn, revokedAt, ended>>

\* The interceptor loads the page again, a page that was loading shows the login
\* form, the timer ignores it.
NotRefreshed(q) ==
    IF q.from = "401" THEN Reload(q.tab)
    ELSE /\ calls' = calls \ {q}
         /\ tab' = IF tab[q.tab].state = "loading" THEN [tab EXCEPT ![q.tab] = SignedOut] ELSE tab

ReceiveRefused(q) ==
    /\ q.phase = "refused"
    /\ NotRefreshed(q)
    /\ UNCHANGED <<now, version, cookie, activity, failures, lastUse, lastMove, lastSignIn, revokedAt, ended>>

\* The request or its answer is lost, its cookie with it.
Lose(q) ==
    /\ failures < MaxFailures /\ failures' = failures + 1
    /\ NotRefreshed(q)
    /\ UNCHANGED <<now, version, cookie, activity, lastUse, lastMove, lastSignIn, revokedAt, ended>>
-----------------------------------------------------------------------------
Tick ==
    /\ now < Horizon
    /\ calls = {}
    /\ \A t \in Tabs : ~TimerDue(t) /\ ~IdleDue(t)
    /\ now' = now + 1
    /\ UNCHANGED <<version, cookie, tab, calls, activity, failures,
                   lastUse, lastMove, lastSignIn, revokedAt, ended>>

Next ==
    \/ \E t \in Tabs : \/ SignIn(t) \/ Open(t) \/ Use(t) \/ Touch(t) \/ Background(t)
                       \/ Logout(t) \/ LogoutAll(t) \/ ChangePassword(t) \/ AuthCallTooLate(t)
                       \/ TimerFires(t) \/ IdleOut(t)
    \/ \E q \in calls : Serve(q) \/ ReceiveGranted(q) \/ ReceiveRefused(q) \/ Lose(q)
    \/ Tick

Spec == Init /\ [][Next]_vars
-----------------------------------------------------------------------------
(* Properties *)

\* A page that is loading has no token and no timer; it waits for its own request
\* and no other.
LoadingAsks ==
    \A t \in Tabs : tab[t].state = "loading" =>
        /\ tab[t].timer = 0 /\ tab[t].exp = 0
        /\ \E q \in calls : q.tab = t
        /\ \A q \in calls : q.tab = t => q.from = "load"

\* Type correctness, and that a loading page is a fresh one that will be answered.
TypeOK ==
    /\ {now, version, activity, failures, lastUse, lastMove, lastSignIn, revokedAt} \subseteq Nat
    /\ cookie \in Cookie
    /\ tab \in [Tabs -> Page]
    /\ calls \subseteq Call
    /\ ended \in BOOLEAN
    /\ LoadingAsks

\* "After max_hours the user must sign in again, however active they were": no
\* cookie and no access token outlives the last password by more than that.
AbsoluteLifetime ==
    /\ cookie.exp <= lastSignIn + Max
    /\ \A t \in Tabs : tab[t].exp <= lastSignIn + Max

\* "Bumping it ends every other session at its next refresh": an access token
\* given for a session of before the last revocation ends within the lifetime it had
\* then, whatever refreshes were in flight.
RevocationTakesEffect ==
    \A t \in Tabs : Signed(t) /\ tab[t].tv < version => tab[t].exp <= revokedAt + Access

\* The cookie of a user who keeps using the application does not run out, when it is
\* longer than an access token: it lasts for the idle timeout, less the lifetime of an
\* access token, from the last use on.  To use it is to make a request, or to do
\* anything at all while the page's access token is good.
ActivityKeepsCookie ==
    calls = {} /\ ~ended /\ failures = 0 /\ cookie.tv = version /\ now < cookie.auth + Max
        /\ now - lastUse < Idle - Access
    => now < cookie.exp

\* "You are now signed out after 60 minutes without activity": a cookie that runs out
\* before the absolute end is that of a user who has done nothing at all for so long.
CookieEndsIdle ==
    [][now < cookie.exp /\ cookie.exp <= now' =>
          \/ ended \/ failures > 0 \/ cookie.tv # version \/ cookie.exp = cookie.auth + Max
          \/ now' - lastMove >= Idle - Access]_vars

\* "Sign this tab out after the session's idle timeout": nobody is signed in who
\* has done nothing for longer.
IdleIsSignedOut == \A t \in Tabs : Signed(t) => now - lastMove <= Idle

\* change_password: "this one carries on with a fresh cookie".
SessionCarriesOn == calls = {} /\ ~ended => cookie.tv = version

=============================================================================
