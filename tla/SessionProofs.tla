------------------------------ MODULE SessionProofs ------------------------------
(***************************************************************************)
(* Theorems of Session, for any number of tabs, failures and revocations    *)
(* and any limits: type correctness, the absolute lifetime of a session,    *)
(* and that a revocation takes effect whatever refreshes are in flight.     *)
(*                                                                          *)
(* Both are about what has been issued, and an answer in flight has been:   *)
(* the invariants bound the cookies and tokens of the answers as well.      *)
(***************************************************************************)
EXTENDS Session, TLAPS

\* Clock: the events recorded lie in the past.
Past == lastSignIn <= now /\ revokedAt <= now

\* A cookie is of the last sign-in or an earlier one, and ends with it.
Within(c) == c.auth <= lastSignIn /\ c.exp <= lastSignIn + Max

Lifetimes ==
    /\ Past
    /\ Within(cookie)
    /\ \A t \in Tabs : tab[t].exp <= lastSignIn + Max
    /\ \A q \in calls : Within(q.sent) /\ Within(q.issued) /\ q.access <= lastSignIn + Max

\* A token of version tv that ends at exp: if the version was revoked, it ends soon
\* after.
Ends(exp, tv) ==
    /\ tv <= version
    /\ exp <= now + Access
    /\ tv < version => exp <= revokedAt + Access

Revocations ==
    /\ Past
    /\ \A t \in Tabs : Ends(tab[t].exp, tab[t].tv)
    /\ cookie.tv <= version
    /\ \A q \in calls : q.issued.tv <= version /\ Ends(q.access, q.sent.tv)

-----------------------------------------------------------------------------
(* Types                                                                     *)

\* The part of TypeOK that pages and requests make together.
Pages == tab \in [Tabs -> Page] /\ calls \subseteq Call /\ LoadingAsks

LEMMA RefreshType ==
    ASSUME TypeOK, NEW t \in Tabs, NEW from \in Source
    PROVE  /\ Refresh(t, from) \in Call
           /\ Refresh(t, from).tab = t /\ Refresh(t, from).from = from
PROOF BY DEF Refresh, Call, TypeOK, Source, Phase, NoCookie, Cookie

LEMMA ReloadType == ASSUME TypeOK, NEW t \in Tabs, Reload(t) PROVE Pages'
PROOF
<1>1. PICK page : page = [SignedOut EXCEPT !.state = "loading"]
    OBVIOUS
<1>2. page \in Page /\ page.timer = 0 /\ page.exp = 0
    BY <1>1 DEF Page, SignedOut
<1>3. PICK q : q = Refresh(t, "load")
    OBVIOUS
<1>4. q \in Call /\ q.tab = t /\ q.from = "load"
    BY <1>3, RefreshType DEF Source
<1>5. tab' = [tab EXCEPT ![t] = page] /\ calls' = {p \in calls : p.tab # t} \cup {q}
    BY <1>1, <1>3 DEF Reload
<1>6. tab' \in [Tabs -> Page] /\ calls' \subseteq Call
    BY <1>2, <1>4, <1>5 DEF TypeOK
<1>7. LoadingAsks'
    BY <1>2, <1>4, <1>5 DEF TypeOK, LoadingAsks
<1> QED BY <1>6, <1>7 DEF Pages

LEMMA InterceptType == ASSUME TypeOK, NEW t \in Tabs, Signed(t), Intercept(t) PROVE Pages'
PROOF
<1>1. CASE UNCHANGED <<tab, calls>>
    BY <1>1 DEF Pages, TypeOK, LoadingAsks
<1>2. CASE /\ tab' = [tab EXCEPT ![t].refreshing = TRUE]
           /\ calls' = calls \cup {Refresh(t, "401")}
    <2>1. tab' \in [Tabs -> Page]
        BY <1>2 DEF TypeOK, Page
    <2>2. calls' \subseteq Call
        BY <1>2, RefreshType DEF TypeOK, Source
    <2>3. LoadingAsks'
        BY <1>2, RefreshType DEF TypeOK, LoadingAsks, Page, Signed, Source
    <2> QED BY <2>1, <2>2, <2>3 DEF Pages
<1> QED BY <1>1, <1>2 DEF Intercept

\* What start_session issues.
LEMMA IssuedType ==
    ASSUME TypeOK, version' \in Nat, NEW auth \in Nat
    PROVE  /\ IssuedCookie(auth) \in Cookie
           /\ AccessExpiry(auth) \in Nat
           /\ IssuedCookie(auth).auth = auth /\ IssuedCookie(auth).tv = version'
           /\ IssuedCookie(auth).exp <= auth + Max
           /\ AccessExpiry(auth) <= auth + Max /\ AccessExpiry(auth) <= now + Access
PROOF
<1>1. Idle \in Nat /\ Max \in Nat /\ Access \in Nat /\ now \in Nat
    BY ConstantsAssumption DEF TypeOK
<1> QED BY <1>1 DEF IssuedCookie, AccessExpiry, Earlier, Cookie

LEMMA HoldingType ==
    ASSUME TypeOK, NEW access \in Nat, NEW tv \in Nat
    PROVE  /\ Holding(access, tv) \in Page
           /\ Holding(access, tv).exp = access /\ Holding(access, tv).tv = tv
           /\ Holding(access, tv).state = "in"
PROOF
<1>1. Lead \in Nat /\ now \in Nat
    BY ConstantsAssumption DEF TypeOK
<1>2. PICK timer : timer = IF access > now + Lead THEN access - Lead ELSE 0
    OBVIOUS
<1>3. timer \in Nat
    BY <1>1, <1>2
<1> QED BY <1>1, <1>2, <1>3 DEF Holding, Page

LEMMA NotRefreshedType ==
    ASSUME TypeOK, NEW q \in calls, NotRefreshed(q) PROVE Pages'
PROOF
<1>1. q \in Call /\ q.tab \in Tabs
    BY DEF TypeOK, Call
<1>2. CASE q.from = "401"
    BY <1>1, <1>2, ReloadType DEF NotRefreshed
<1>3. CASE q.from # "401"
    <2>1. tab' = tab \/ tab' = [tab EXCEPT ![q.tab] = SignedOut]
        BY <1>3 DEF NotRefreshed
    <2>2. calls' = calls \ {q} /\ (tab[q.tab].state = "loading" => tab' = [tab EXCEPT ![q.tab] = SignedOut])
        BY <1>3 DEF NotRefreshed
    <2>3. SignedOut \in Page /\ SignedOut.state = "out"
        BY DEF SignedOut, Page
    <2>4. tab' \in [Tabs -> Page] /\ calls' \subseteq Call
        BY <2>1, <2>2, <2>3 DEF TypeOK
    <2>5. LoadingAsks'
        BY <1>1, <2>1, <2>2, <2>3 DEF TypeOK, LoadingAsks
    <2> QED BY <2>4, <2>5 DEF Pages
<1> QED BY <1>2, <1>3

LEMMA InitTypeOK == Init => TypeOK
PROOF BY DEF Init, TypeOK, LoadingAsks, Page, SignedOut, Cookie, NoCookie

\* No step of the user, a timer, the server or the clock leaves the types.
LEMMA StepTypeOK == TypeOK /\ [Next]_vars => TypeOK'
PROOF
<1> SUFFICES ASSUME TypeOK, [Next]_vars PROVE TypeOK'
    OBVIOUS
<1>0. TypeOK' <=> /\ {now, version, activity, failures, lastUse, lastMove, lastSignIn, revokedAt}' \subseteq Nat
                  /\ cookie' \in Cookie /\ ended' \in BOOLEAN /\ Pages'
    BY DEF TypeOK, Pages
<1>1. ASSUME NEW t \in Tabs, SignIn(t) PROVE TypeOK'
    <2>1. now \in Nat /\ version' = version /\ version \in Nat
        BY <1>1 DEF SignIn, TypeOK
    <2>2. IssuedCookie(now) \in Cookie /\ AccessExpiry(now) \in Nat
        BY <2>1, IssuedType
    <2>3. PICK page \in Page : page = Holding(AccessExpiry(now), version) /\ page.state = "in"
        BY <2>1, <2>2, HoldingType
    <2>4. Pages'
        BY <1>1, <2>3 DEF SignIn, TypeOK, Pages, LoadingAsks
    <2> QED BY <1>0, <1>1, <2>2, <2>4 DEF SignIn, TypeOK
<1>2. ASSUME NEW t \in Tabs, Open(t) PROVE TypeOK'
    BY <1>0, <1>2, ReloadType DEF Open, Mark, TypeOK
<1>3. ASSUME NEW t \in Tabs, Use(t) PROVE TypeOK'
    <2>1. Pages'
        BY <1>3, InterceptType DEF Use, TypeOK, Pages, LoadingAsks
    <2> QED BY <1>0, <1>3, <2>1 DEF Use, Act, Mark, TypeOK
<1>4. ASSUME NEW t \in Tabs, Background(t) PROVE TypeOK'
    BY <1>0, <1>4, InterceptType DEF Background, TypeOK
<1>5. ASSUME NEW t \in Tabs, Logout(t) \/ LogoutAll(t) PROVE TypeOK'
    <2>1. SignedOut \in Page /\ SignedOut.state = "out" /\ NoCookie \in Cookie
        BY DEF SignedOut, Page, NoCookie, Cookie
    <2>2. tab' = [tab EXCEPT ![t] = SignedOut] /\ calls' = calls /\ cookie' = NoCookie
        BY <1>5 DEF Logout, LogoutAll
    <2>3. Pages'
        BY <2>1, <2>2 DEF TypeOK, Pages, LoadingAsks
    <2>4. {now, version, activity, failures, lastUse, lastMove, lastSignIn, revokedAt}' \subseteq Nat
        <3>1. CASE Logout(t)
            BY <3>1 DEF Logout, Act, Mark, TypeOK
        <3>2. CASE LogoutAll(t)
            BY <3>2 DEF LogoutAll, Act, Mark, TypeOK
        <3> QED BY <1>5, <3>1, <3>2
    <2>5. ended' \in BOOLEAN
        BY <1>5 DEF Logout, LogoutAll
    <2> QED BY <1>0, <2>1, <2>2, <2>3, <2>4, <2>5
<1>6. ASSUME NEW t \in Tabs, ChangePassword(t) PROVE TypeOK'
    <2>1. now \in Nat /\ version' \in Nat
        BY <1>6 DEF ChangePassword, TypeOK
    <2>2. IssuedCookie(now) \in Cookie
        BY <2>1, IssuedType
    <2>3. Pages'
        BY <1>6 DEF ChangePassword, TypeOK, Pages, LoadingAsks
    <2> QED BY <1>0, <1>6, <2>1, <2>2, <2>3 DEF ChangePassword, Act, Mark, TypeOK
<1>7. ASSUME NEW t \in Tabs, AuthCallTooLate(t) PROVE TypeOK'
    BY <1>0, <1>7, ReloadType DEF AuthCallTooLate, Act, Mark, TypeOK
<1>8. ASSUME NEW t \in Tabs, TimerFires(t) PROVE TypeOK'
    <2>1. calls' \subseteq Call /\ calls \subseteq calls'
        BY <1>8, RefreshType DEF TimerFires, TypeOK, Source
    <2>2. tab' = [tab EXCEPT ![t].timer = 0]
        BY <1>8 DEF TimerFires
    <2>3. tab' \in [Tabs -> Page]
        BY <2>2 DEF TypeOK, Page
    <2>4. tab[t].state # "loading"
        BY <1>8 DEF TimerFires, TimerDue, TypeOK, LoadingAsks
    <2>5. \A u \in Tabs : tab'[u].state = "loading" => u # t /\ tab'[u] = tab[u]
        BY <2>2, <2>4 DEF TypeOK, Page
    <2>6. \A q \in calls' : q \in calls \/ q.tab = t
        BY <1>8, RefreshType DEF TimerFires, Source
    <2>7. LoadingAsks'
        BY <2>1, <2>5, <2>6 DEF TypeOK, LoadingAsks
    <2> QED BY <1>0, <1>8, <2>1, <2>3, <2>7 DEF TimerFires, TypeOK, Pages
<1>9. ASSUME NEW t \in Tabs, IdleOut(t) PROVE TypeOK'
    BY <1>0, <1>9, ReloadType DEF IdleOut, TypeOK
<1>10. ASSUME NEW q \in calls, Serve(q) PROVE TypeOK'
    <2>1. q \in Call /\ q.sent.auth \in Nat /\ version' \in Nat
        BY <1>10 DEF Serve, TypeOK, Call, Cookie
    <2>2. PICK c \in Cookie, access \in Nat : c = IssuedCookie(q.sent.auth) /\ access = AccessExpiry(q.sent.auth)
        BY <2>1, IssuedType
    <2>3. PICK p : p = IF MayContinue(q.sent) THEN Granted(q) ELSE Refused(q)
        OBVIOUS
    <2>4. p \in Call /\ p.tab = q.tab /\ p.from = q.from
        BY <2>1, <2>2, <2>3 DEF Granted, Refused, Call, Phase
    <2>5. calls' = (calls \ {q}) \cup {p} /\ tab' = tab
        BY <1>10, <2>3 DEF Serve
    <2>6. Pages'
        BY <2>4, <2>5 DEF TypeOK, Pages, LoadingAsks
    <2> QED BY <1>0, <1>10, <2>6 DEF Serve, TypeOK
<1>11. ASSUME NEW q \in calls, ReceiveGranted(q) PROVE TypeOK'
    <2>1. q \in Call /\ q.tab \in Tabs /\ q.access \in Nat /\ q.issued \in Cookie /\ q.sent.tv \in Nat
        BY DEF TypeOK, Call, Cookie
    <2>2. PICK held \in Page : held = Holding(q.access, q.sent.tv)
        BY <2>1, HoldingType
    <2>3. PICK page : page = [held EXCEPT !.state = IF q.from = "load" THEN "in" ELSE tab[q.tab].state]
        OBVIOUS
    <2>4. page \in Page /\ (q.from = "load" => page.state = "in") /\ (q.from # "load" => page.state = tab[q.tab].state)
        BY <2>1, <2>3 DEF TypeOK, Page
    <2>5. tab' = [tab EXCEPT ![q.tab] = page] /\ calls' = calls \ {q}
        BY <1>11, <2>2, <2>3 DEF ReceiveGranted
    <2>6. Pages'
        BY <2>1, <2>4, <2>5 DEF TypeOK, Pages, LoadingAsks
    <2> QED BY <1>0, <1>11, <2>1, <2>6 DEF ReceiveGranted, TypeOK
<1>12. ASSUME NEW q \in calls, ReceiveRefused(q) PROVE TypeOK'
    BY <1>0, <1>12, NotRefreshedType DEF ReceiveRefused, TypeOK
<1>13. ASSUME NEW q \in calls, Lose(q) PROVE TypeOK'
    BY <1>0, <1>13, NotRefreshedType DEF Lose, TypeOK
<1>14. CASE Tick
    BY <1>0, <1>14 DEF Tick, TypeOK, Pages, LoadingAsks
<1>15. CASE UNCHANGED vars
    BY <1>0, <1>15 DEF vars, TypeOK, Pages, LoadingAsks
<1>16. ASSUME NEW t \in Tabs, Touch(t) PROVE TypeOK'
    <2>1. Pages'
        BY <1>16 DEF Touch, Pages, TypeOK, LoadingAsks
    <2> QED BY <1>0, <1>16, <2>1 DEF Touch, Act, Mark, TypeOK
<1> QED
    BY <1>1, <1>2, <1>3, <1>4, <1>5, <1>6, <1>7, <1>8, <1>9, <1>10, <1>11, <1>12, <1>13,
       <1>14, <1>15, <1>16 DEF Next

\* Type correctness, and that a page that is loading is a fresh one with a request.
THEOREM TypeCorrect == Spec => []TypeOK
PROOF
<1>1. Init => TypeOK
    BY InitTypeOK
<1>2. TypeOK /\ [Next]_vars => TypeOK'
    BY StepTypeOK
<1> QED BY <1>1, <1>2, PTL DEF Spec

-----------------------------------------------------------------------------
(* Lifetimes and revocations                                                 *)

\* A request that was just sent.
Asks(q) == q.sent = cookie /\ q.issued = NoCookie /\ q.access = 0

\* No page and no request gets anything new.
Keeps ==
    /\ \A t \in Tabs : \/ tab'[t].exp = tab[t].exp /\ tab'[t].tv = tab[t].tv
                       \/ tab'[t].exp = 0 /\ tab'[t].tv = 0
    /\ \A q \in calls' : q \in calls \/ Asks(q)

\* A step that issues nothing; it may delete the cookie or revoke.
Quiet ==
    /\ Keeps
    /\ cookie' \in {cookie, NoCookie}
    /\ lastSignIn' = lastSignIn /\ now <= now'
    /\ \/ UNCHANGED <<version, revokedAt>>
       \/ version' = version + 1 /\ revokedAt' = now /\ now' = now

LEMMA RefreshAsks == \A t \in Tabs, from \in Source : Asks(Refresh(t, from))
PROOF BY DEF Asks, Refresh

LEMMA ReloadKeeps == ASSUME TypeOK, NEW t \in Tabs, Reload(t) PROVE Keeps
PROOF
<1>1. PICK page : page = [SignedOut EXCEPT !.state = "loading"]
    OBVIOUS
<1>2. page.exp = 0 /\ page.tv = 0
    BY <1>1 DEF SignedOut
<1>3. tab' = [tab EXCEPT ![t] = page]
    BY <1>1 DEF Reload
<1>4. \A q \in calls' : q \in calls \/ Asks(q)
    BY RefreshAsks DEF Reload, Source
<1> QED BY <1>2, <1>3, <1>4 DEF Keeps, TypeOK

LEMMA InterceptKeeps == ASSUME TypeOK, NEW t \in Tabs, Intercept(t) PROVE Keeps
PROOF
<1>1. \A q \in calls' : q \in calls \/ Asks(q)
    BY RefreshAsks DEF Intercept, Source
<1>2. \A u \in Tabs : tab'[u].exp = tab[u].exp /\ tab'[u].tv = tab[u].tv
    BY DEF Intercept, TypeOK, Page
<1> QED BY <1>1, <1>2 DEF Keeps

LEMMA NotRefreshedKeeps == ASSUME TypeOK, NEW q \in calls, NotRefreshed(q) PROVE Keeps
PROOF
<1>1. q.tab \in Tabs
    BY DEF TypeOK, Call
<1>2. CASE q.from = "401"
    BY <1>1, <1>2, ReloadKeeps DEF NotRefreshed
<1>3. CASE q.from # "401"
    <2>1. calls' = calls \ {q} /\ (tab' = tab \/ tab' = [tab EXCEPT ![q.tab] = SignedOut])
        BY <1>3 DEF NotRefreshed
    <2>2. SignedOut.exp = 0 /\ SignedOut.tv = 0
        BY DEF SignedOut
    <2> QED BY <1>1, <2>1, <2>2 DEF Keeps, TypeOK
<1> QED BY <1>2, <1>3

\* Only four kinds of step issue, or hand on, a cookie or a token.
LEMMA MostStepsAreQuiet ==
    ASSUME TypeOK, [Next]_vars
    PROVE  \/ Quiet
           \/ \E t \in Tabs : SignIn(t) \/ ChangePassword(t)
           \/ \E q \in calls : Serve(q) \/ ReceiveGranted(q)
PROOF
<1> DEFINE Frame == now' = now /\ UNCHANGED <<cookie, lastSignIn, version, revokedAt>>
<1>0. Keeps /\ Frame => Quiet
    BY DEF Quiet, TypeOK
<1>1. ASSUME NEW t \in Tabs, Open(t) PROVE Quiet
    BY <1>0, <1>1, ReloadKeeps DEF Open
<1>2. ASSUME NEW t \in Tabs, Use(t) PROVE Quiet
    <2>1. Keeps
        BY <1>2, InterceptKeeps DEF Use, Keeps
    <2> QED BY <1>0, <1>2, <2>1 DEF Use
<1>3. ASSUME NEW t \in Tabs, Background(t) PROVE Quiet
    BY <1>0, <1>3, InterceptKeeps DEF Background
<1>4. ASSUME NEW t \in Tabs, Logout(t) \/ LogoutAll(t) PROVE Quiet
    <2>1. tab' = [tab EXCEPT ![t] = SignedOut] /\ calls' = calls
        BY <1>4 DEF Logout, LogoutAll
    <2>2. SignedOut.exp = 0 /\ SignedOut.tv = 0
        BY DEF SignedOut
    <2>3. Keeps
        BY <2>1, <2>2 DEF Keeps, TypeOK
    <2>4. cookie' = NoCookie /\ lastSignIn' = lastSignIn /\ now' = now
        BY <1>4 DEF Logout, LogoutAll
    <2>5. UNCHANGED <<version, revokedAt>> \/ (version' = version + 1 /\ revokedAt' = now)
        BY <1>4 DEF Logout, LogoutAll
    <2>6. now <= now
        BY DEF TypeOK
    <2> QED BY <2>3, <2>4, <2>5, <2>6 DEF Quiet
<1>5. ASSUME NEW t \in Tabs, AuthCallTooLate(t) PROVE Quiet
    BY <1>0, <1>5, ReloadKeeps DEF AuthCallTooLate
<1>6. ASSUME NEW t \in Tabs, TimerFires(t) PROVE Quiet
    <2>1. \A u \in Tabs : tab'[u].exp = tab[u].exp /\ tab'[u].tv = tab[u].tv
        BY <1>6 DEF TimerFires, TypeOK, Page
    <2>2. \A q \in calls' : q \in calls \/ Asks(q)
        BY <1>6, RefreshAsks DEF TimerFires, Source
    <2> QED BY <1>0, <1>6, <2>1, <2>2 DEF TimerFires, Keeps
<1>7. ASSUME NEW t \in Tabs, IdleOut(t) PROVE Quiet
    BY <1>0, <1>7, ReloadKeeps DEF IdleOut
<1>8. ASSUME NEW q \in calls, ReceiveRefused(q) PROVE Quiet
    BY <1>0, <1>8, NotRefreshedKeeps DEF ReceiveRefused
<1>9. ASSUME NEW q \in calls, Lose(q) PROVE Quiet
    BY <1>0, <1>9, NotRefreshedKeeps DEF Lose
<1>10. CASE Tick
    BY <1>10 DEF Tick, Quiet, Keeps, TypeOK
<1>11. CASE UNCHANGED vars
    BY <1>11 DEF vars, Quiet, Keeps, TypeOK
<1>12. ASSUME NEW t \in Tabs, Touch(t) PROVE Quiet
    <2>1. Keeps
        BY <1>12 DEF Touch, Keeps
    <2> QED BY <1>0, <1>12, <2>1 DEF Touch
<1> QED
    BY <1>1, <1>2, <1>3, <1>4, <1>5, <1>6, <1>7, <1>8, <1>9, <1>10, <1>11, <1>12 DEF Next

\* What a granted request will hand to the browser.
LEMMA GrantIssues ==
    ASSUME TypeOK, NEW q \in calls, Serve(q)
    PROVE  \E p \in Call :
             /\ calls' = (calls \ {q}) \cup {p}
             /\ p.sent = q.sent
             /\ \/ p.issued = q.issued /\ p.access = q.access
                \/ /\ q.sent.tv = version
                   /\ p.issued.auth = q.sent.auth /\ p.issued.tv = version
                   /\ p.issued.exp <= q.sent.auth + Max
                   /\ p.access <= q.sent.auth + Max /\ p.access <= now + Access
PROOF
<1>1. q \in Call /\ q.sent.auth \in Nat /\ version' \in Nat /\ version' = version
    BY DEF Serve, TypeOK, Call, Cookie
<1>2. PICK c \in Cookie, access \in Nat :
          /\ c = IssuedCookie(q.sent.auth) /\ access = AccessExpiry(q.sent.auth)
          /\ c.auth = q.sent.auth /\ c.tv = version /\ c.exp <= q.sent.auth + Max
          /\ access <= q.sent.auth + Max /\ access <= now + Access
    BY <1>1, IssuedType
<1>3. PICK p : p = IF MayContinue(q.sent) THEN Granted(q) ELSE Refused(q)
    OBVIOUS
<1>4. calls' = (calls \ {q}) \cup {p}
    BY <1>3 DEF Serve
<1>5. CASE MayContinue(q.sent)
    <2>1. /\ p \in Call /\ p.sent = q.sent /\ p.issued = c /\ p.access = access
        BY <1>1, <1>2, <1>3, <1>5 DEF Granted, Call, Phase
    <2>2. q.sent.tv = version
        BY <1>5 DEF MayContinue
    <2> QED BY <1>2, <1>4, <2>1, <2>2
<1>6. CASE ~MayContinue(q.sent)
    <2>1. /\ p \in Call /\ p.sent = q.sent /\ p.issued = q.issued /\ p.access = q.access
        BY <1>1, <1>3, <1>6 DEF Refused, Call, Phase
    <2> QED BY <1>4, <2>1
<1> QED BY <1>5, <1>6

\* What a page holds once it has the answer.
LEMMA AnswerHeld ==
    ASSUME TypeOK, NEW q \in calls, ReceiveGranted(q)
    PROVE  /\ \A t \in Tabs : \/ tab'[t].exp = tab[t].exp /\ tab'[t].tv = tab[t].tv
                              \/ tab'[t].exp = q.access /\ tab'[t].tv = q.sent.tv
           /\ calls' \subseteq calls /\ cookie' = q.issued
PROOF
<1>1. q.tab \in Tabs /\ q.access \in Nat /\ q.sent.tv \in Nat
    BY DEF TypeOK, Call, Cookie
<1>2. PICK held \in Page : /\ held = Holding(q.access, q.sent.tv)
                           /\ held.exp = q.access /\ held.tv = q.sent.tv
    BY <1>1, HoldingType
<1>3. PICK state : state = IF q.from = "load" THEN "in" ELSE tab[q.tab].state
    OBVIOUS
<1>4. tab' = [tab EXCEPT ![q.tab] = [held EXCEPT !.state = state]]
    BY <1>2, <1>3 DEF ReceiveGranted
<1>5. PICK page : page = [held EXCEPT !.state = state]
    OBVIOUS
<1>6. page.exp = q.access /\ page.tv = q.sent.tv
    BY <1>2, <1>5 DEF Page
<1> QED BY <1>1, <1>4, <1>5, <1>6 DEF TypeOK, ReceiveGranted

LEMMA InitLifetimes == Init => Lifetimes
PROOF BY ConstantsAssumption DEF Init, Lifetimes, Past, Within, NoCookie, SignedOut

LEMMA StepLifetimes == TypeOK /\ Lifetimes /\ [Next]_vars => Lifetimes'
PROOF
<1> SUFFICES ASSUME TypeOK, Lifetimes, [Next]_vars PROVE Lifetimes'
    OBVIOUS
<1> USE DEF Past, Within
<1>0. /\ Max \in Nat /\ now \in Nat /\ lastSignIn \in Nat /\ revokedAt \in Nat /\ version \in Nat
      /\ cookie \in Cookie /\ cookie.auth \in Nat /\ cookie.exp \in Nat
      /\ \A t \in Tabs : tab[t].exp \in Nat
      /\ \A q \in calls : /\ q.sent.auth \in Nat /\ q.issued.auth \in Nat
                        /\ q.sent.exp \in Nat /\ q.issued.exp \in Nat /\ q.access \in Nat
    BY ConstantsAssumption DEF TypeOK, Cookie, Page, Call
<1>1. CASE Quiet
    <2>1. NoCookie.exp = 0 /\ NoCookie.auth = 0 /\ {now', lastSignIn', revokedAt'} \subseteq Nat
        BY StepTypeOK DEF NoCookie, TypeOK
    <2>2. Past' /\ Within(cookie)'
        BY <1>0, <1>1, <2>1 DEF Lifetimes, Quiet
    <2>3. \A t \in Tabs : tab'[t].exp <= lastSignIn' + Max
        BY <1>0, <1>1 DEF Lifetimes, Quiet, Keeps
    <2>4. \A q \in calls' : Within(q.sent)' /\ Within(q.issued)' /\ q.access <= lastSignIn' + Max
        BY <1>0, <1>1, <2>1 DEF Lifetimes, Quiet, Keeps, Asks
    <2> QED BY <2>2, <2>3, <2>4 DEF Lifetimes
<1>2. ASSUME NEW t \in Tabs, SignIn(t) PROVE Lifetimes'
    <2>1. version' \in Nat /\ version' = version /\ lastSignIn' = now /\ calls' = calls
        BY <1>0, <1>2 DEF SignIn
    <2>2. /\ cookie'.auth = now /\ cookie'.exp <= now + Max
          /\ AccessExpiry(now) \in Nat /\ AccessExpiry(now) <= now + Max
        BY <1>0, <1>2, <2>1, IssuedType DEF SignIn
    <2>3. PICK page \in Page : page = Holding(AccessExpiry(now), version) /\ page.exp <= now + Max
        BY <1>0, <2>2, HoldingType
    <2>4. tab' = [tab EXCEPT ![t] = page] /\ now' = now /\ revokedAt' = revokedAt
        BY <1>2, <2>3 DEF SignIn
    <2>5. \A u \in Tabs : tab'[u].exp <= lastSignIn' + Max
        BY <1>0, <2>1, <2>3, <2>4 DEF Lifetimes, TypeOK
    <2> QED BY <1>0, <2>1, <2>2, <2>4, <2>5 DEF Lifetimes
<1>3. ASSUME NEW t \in Tabs, ChangePassword(t) PROVE Lifetimes'
    <2>1. /\ version' \in Nat /\ lastSignIn' = now /\ calls' = calls /\ tab' = tab /\ now' = now
          /\ revokedAt' = now
        BY <1>0, <1>3 DEF ChangePassword
    <2>2. cookie'.auth = now /\ cookie'.exp <= now + Max
        BY <1>0, <1>3, <2>1, IssuedType DEF ChangePassword
    <2> QED BY <1>0, <2>1, <2>2 DEF Lifetimes
<1>4. ASSUME NEW q \in calls, Serve(q) PROVE Lifetimes'
    <2>1. PICK p \in Call :
             /\ calls' = (calls \ {q}) \cup {p}
             /\ p.sent = q.sent
             /\ \/ p.issued = q.issued /\ p.access = q.access
                \/ /\ p.issued.auth = q.sent.auth /\ p.issued.exp <= q.sent.auth + Max
                   /\ p.access <= q.sent.auth + Max
        BY <1>4, GrantIssues
    <2>2. p.issued.exp \in Nat /\ p.access \in Nat
        BY DEF Call, Cookie
    <2>3. Within(p.sent) /\ Within(p.issued) /\ p.access <= lastSignIn + Max
        BY <1>0, <2>1, <2>2 DEF Lifetimes
    <2>4. UNCHANGED <<now, lastSignIn, revokedAt, cookie, tab>>
        BY <1>4 DEF Serve
    <2> QED BY <2>1, <2>3, <2>4 DEF Lifetimes
<1>5. ASSUME NEW q \in calls, ReceiveGranted(q) PROVE Lifetimes'
    <2>1. UNCHANGED <<now, lastSignIn, revokedAt>>
        BY <1>5 DEF ReceiveGranted
    <2> QED BY <1>0, <1>5, <2>1, AnswerHeld DEF Lifetimes
<1> QED BY <1>1, <1>2, <1>3, <1>4, <1>5, MostStepsAreQuiet

\* However often a session is refreshed, its cookie and its access tokens end with
\* the absolute lifetime of the last sign-in.
THEOREM LifetimeIsAbsolute == Spec => []AbsoluteLifetime
PROOF
<1>1. Init => TypeOK /\ Lifetimes
    BY InitTypeOK, InitLifetimes
<1>2. TypeOK /\ Lifetimes /\ [Next]_vars => (TypeOK /\ Lifetimes)'
    BY StepTypeOK, StepLifetimes
<1>3. Lifetimes => AbsoluteLifetime
    BY DEF Lifetimes, Within, AbsoluteLifetime
<1> QED BY <1>1, <1>2, <1>3, PTL DEF Spec

LEMMA InitRevocations == Init => Revocations
PROOF BY ConstantsAssumption DEF Init, Revocations, Past, Ends, SignedOut, NoCookie

LEMMA StepRevocations == TypeOK /\ Revocations /\ [Next]_vars => Revocations'
PROOF
<1> SUFFICES ASSUME TypeOK, Revocations, [Next]_vars PROVE Revocations'
    OBVIOUS
<1> USE DEF Past, Ends
<1>0. /\ Access \in Nat /\ now \in Nat /\ lastSignIn \in Nat /\ revokedAt \in Nat /\ version \in Nat
      /\ \A t \in Tabs : tab[t].exp \in Nat /\ tab[t].tv \in Nat
      /\ cookie.tv \in Nat
      /\ \A q \in calls : q.sent.tv \in Nat /\ q.issued.tv \in Nat /\ q.access \in Nat
    BY ConstantsAssumption DEF TypeOK, Cookie, Page, Call
<1>1. CASE Quiet
    <2>1. NoCookie.tv = 0 /\ {now', version', lastSignIn', revokedAt'} \subseteq Nat
        BY StepTypeOK DEF NoCookie, TypeOK
    <2>2. Past'
        BY <1>0, <1>1, <2>1 DEF Revocations, Quiet
    <2>3. \A exp, tv \in Nat : Ends(exp, tv) => Ends(exp, tv)'
        <3>1. CASE UNCHANGED <<version, revokedAt>>
            BY <1>0, <1>1, <2>1, <3>1 DEF Quiet
        <3>2. CASE version' = version + 1 /\ revokedAt' = now /\ now' = now
            BY <1>0, <2>1, <3>2
        <3> QED BY <1>1, <3>1, <3>2 DEF Quiet
    <2>4. Ends(0, 0)'
        BY <1>0, <2>1
    <2>5. \A t \in Tabs : Ends(tab[t].exp, tab[t].tv)'
        BY <1>0, <1>1, <2>3, <2>4 DEF Revocations, Quiet, Keeps
    <2>6. version <= version' /\ cookie'.tv <= version'
        BY <1>0, <1>1, <2>1 DEF Revocations, Quiet
    <2>7. \A q \in calls' : q.issued.tv <= version'
        BY <1>0, <1>1, <2>1, <2>6 DEF Revocations, Quiet, Keeps, Asks
    <2>8. Ends(0, cookie.tv)'
        BY <1>0, <1>1, <2>1, <2>6 DEF Revocations, Quiet
    <2>9. \A q \in calls' : Ends(q.access, q.sent.tv)'
        BY <1>0, <1>1, <2>3, <2>8 DEF Revocations, Quiet, Keeps, Asks
    <2> QED BY <2>2, <2>5, <2>6, <2>7, <2>9 DEF Revocations
<1>2. ASSUME NEW t \in Tabs, SignIn(t) PROVE Revocations'
    <2>1. /\ version' \in Nat /\ version' = version /\ lastSignIn' = now /\ calls' = calls
          /\ now' = now /\ revokedAt' = revokedAt
        BY <1>0, <1>2 DEF SignIn
    <2>2. AccessExpiry(now) \in Nat /\ AccessExpiry(now) <= now + Access
        BY <1>0, <2>1, IssuedType
    <2>3. PICK page \in Page : /\ page = Holding(AccessExpiry(now), version)
                               /\ page.exp <= now + Access /\ page.tv = version
        BY <1>0, <2>2, HoldingType
    <2>4. tab' = [tab EXCEPT ![t] = page]
        BY <1>2, <2>3 DEF SignIn
    <2>5. \A u \in Tabs : Ends(tab[u].exp, tab[u].tv)'
        BY <1>0, <2>1, <2>3, <2>4 DEF Revocations, TypeOK
    <2>6. cookie'.tv = version'
        BY <1>0, <1>2, <2>1, IssuedType DEF SignIn
    <2> QED BY <1>0, <2>1, <2>5, <2>6 DEF Revocations
<1>3. ASSUME NEW t \in Tabs, ChangePassword(t) PROVE Revocations'
    <2>1. /\ version' = version + 1 /\ lastSignIn' = now /\ calls' = calls /\ tab' = tab
          /\ now' = now /\ revokedAt' = now
        BY <1>3 DEF ChangePassword
    <2>2. cookie'.tv = version'
        BY <1>0, <1>3, <2>1, IssuedType DEF ChangePassword
    <2> QED BY <1>0, <2>1, <2>2 DEF Revocations
<1>4. ASSUME NEW q \in calls, Serve(q) PROVE Revocations'
    <2>1. PICK p \in Call :
             /\ calls' = (calls \ {q}) \cup {p}
             /\ p.sent = q.sent
             /\ \/ p.issued = q.issued /\ p.access = q.access
                \/ /\ q.sent.tv = version /\ p.issued.tv = version
                   /\ p.access <= now + Access
        BY <1>4, GrantIssues
    <2>2. p.issued.tv <= version /\ Ends(p.access, p.sent.tv)
        BY <1>0, <2>1 DEF Revocations
    <2>3. UNCHANGED <<now, version, lastSignIn, revokedAt, tab, cookie>>
        BY <1>4 DEF Serve
    <2> QED BY <2>1, <2>2, <2>3 DEF Revocations
<1>5. ASSUME NEW q \in calls, ReceiveGranted(q) PROVE Revocations'
    <2>1. UNCHANGED <<now, version, lastSignIn, revokedAt>>
        BY <1>5 DEF ReceiveGranted
    <2> QED BY <1>0, <1>5, <2>1, AnswerHeld DEF Revocations
<1> QED BY <1>1, <1>2, <1>3, <1>4, <1>5, MostStepsAreQuiet

\* A refresh in flight when the sessions are revoked gains its page at most the
\* lifetime of one access token.
THEOREM RevocationIsFinal == Spec => []RevocationTakesEffect
PROOF
<1>1. Init => TypeOK /\ Revocations
    BY InitTypeOK, InitRevocations
<1>2. TypeOK /\ Revocations /\ [Next]_vars => (TypeOK /\ Revocations)'
    BY StepTypeOK, StepRevocations
<1>3. Revocations => RevocationTakesEffect
    BY DEF Revocations, Ends, RevocationTakesEffect
<1> QED BY <1>1, <1>2, <1>3, PTL DEF Spec

-----------------------------------------------------------------------------
(* Use keeps the cookie                                                      *)

\* The cookie lasts for the idle timeout from m on, or as long as it may.
Lasts(c, m) == c.exp >= c.auth + Max \/ c.exp >= m + Idle

\* The request will bring a fresh cookie, unless it is lost.
Renews(q) == q.sent = cookie /\ now < cookie.exp /\ q.phase \in {"sent", "granted"}

\* An access token ends soon after it was received; a page that waits for a refresh
\* has one in flight.
Tokens ==
    \A t \in Tabs :
        /\ tab[t].received <= now /\ tab[t].exp <= tab[t].received + Access
        /\ tab[t].refreshing => \E q \in calls : q.tab = t /\ q.from = "401"

\* Requests are answered within the tick: what is granted is fresh, what is refused
\* still deserves it, and a cookie that is not the one sent is newer.
Answers ==
    \A q \in calls :
        /\ q.phase = "granted" => Lasts(q.issued, now)
        /\ q.phase = "refused" => ~MayContinue(q.sent)
        /\ ended \/ q.sent = cookie \/ Lasts(cookie, now)

\* No token in the browser is younger than the cookie, and the cookie is as young as
\* the last use demands, or is being renewed.
Renewable == failures = 0 /\ cookie.tv = version /\ now < cookie.auth + Max
Kept ==
    /\ lastUse <= now
    /\ ~ended => \A t \in Tabs : tab[t].exp = 0 \/ Lasts(cookie, tab[t].received)
    /\ ~ended /\ Renewable => Lasts(cookie, lastUse - Access) \/ \E q \in calls : Renews(q)

Usage == Tokens /\ Answers /\ Kept

LEMMA Numbers ==
    ASSUME TypeOK
    PROVE  /\ {Access, Lead, Idle, Max, now, version, lastUse, failures} \subseteq Nat
           /\ cookie.exp \in Nat /\ cookie.auth \in Nat /\ cookie.tv \in Nat
           /\ \A t \in Tabs : /\ tab[t].exp \in Nat /\ tab[t].received \in Nat
                              /\ tab[t].refreshing \in BOOLEAN
           /\ \A q \in calls : /\ q.tab \in Tabs /\ q.access \in Nat
                               /\ q.sent.tv \in Nat /\ q.sent.exp \in Nat /\ q.sent.auth \in Nat
                               /\ q.issued.exp \in Nat /\ q.issued.auth \in Nat
PROOF BY ConstantsAssumption DEF TypeOK, Cookie, Page, Call

\* Requests that a step leaves, or sends.
Sent(q) == q.sent = cookie /\ q.phase = "sent"
Continue ==
    /\ UNCHANGED <<now, version, cookie, ended>>
    /\ lastUse' = lastUse \/ (lastUse' = now /\ now < cookie.exp)
    /\ \A t \in Tabs : \/ tab'[t].exp = tab[t].exp /\ tab'[t].received = tab[t].received
                       \/ tab'[t].exp = 0 /\ tab'[t].received = 0
    /\ \A t \in Tabs : tab'[t].refreshing => \E q \in calls' : q.tab = t /\ q.from = "401"
    /\ \A q \in calls' : q \in calls \/ Sent(q)

\* Such a step keeps the cookie alive if it keeps, or begins, its renewal.
Renewing ==
    ~ended /\ Renewable => 
        /\ (\E q \in calls : Renews(q)) => \E q \in calls' : Renews(q)
        /\ lastUse' = lastUse \/ Lasts(cookie, now - Access) \/ \E q \in calls' : Renews(q)

LEMMA ContinueKeeps ==
    ASSUME TypeOK, TypeOK', Usage, Continue, failures' = 0 => failures = 0 /\ Renewing
    PROVE  Usage'
PROOF
<1>0. /\ {Access, Idle, Max, now, version, lastUse, failures} \subseteq Nat
      /\ cookie.exp \in Nat /\ cookie.auth \in Nat
      /\ \A t \in Tabs : tab[t].exp \in Nat /\ tab[t].received \in Nat
    BY Numbers
<1>1. Tokens'
    BY <1>0 DEF Usage, Tokens, Continue
<1>2. Answers'
    <2>1. ASSUME NEW q \in calls' PROVE /\ q.phase = "granted" => Lasts(q.issued, now)'
                                        /\ q.phase = "refused" => ~MayContinue(q.sent)'
                                        /\ (ended \/ q.sent = cookie \/ Lasts(cookie, now))'
        <3>1. CASE q \in calls
            BY <3>1 DEF Usage, Answers, Continue, Lasts, MayContinue
        <3>2. CASE Sent(q)
            BY <3>2 DEF Sent, Continue
        <3> QED BY <2>1, <3>1, <3>2 DEF Continue
    <2> QED BY <2>1 DEF Answers
<1>3. lastUse' <= now'
    BY <1>0 DEF Usage, Kept, Continue
<1>4. ~ended' => \A t \in Tabs : tab'[t].exp = 0 \/ Lasts(cookie, tab[t].received)'
    <2> SUFFICES ASSUME ~ended', NEW t \in Tabs
                 PROVE  tab'[t].exp = 0 \/ Lasts(cookie, tab[t].received)'
        OBVIOUS
    <2>1. tab[t].exp = 0 \/ Lasts(cookie, tab[t].received)
        BY DEF Usage, Kept, Continue
    <2> QED BY <2>1 DEF Continue, Lasts
<1>5. (~ended /\ Renewable)' => Lasts(cookie, lastUse - Access)' \/ \E q \in calls' : Renews(q)'
    <2> SUFFICES ASSUME ~ended', Renewable'
                 PROVE  Lasts(cookie, lastUse - Access)' \/ \E q \in calls' : Renews(q)'
        OBVIOUS
    <2>1. ~ended /\ Renewable /\ Renewing
        BY DEF Renewable, Continue
    <2>2. Lasts(cookie, lastUse - Access) \/ \E q \in calls : Renews(q)
        BY <2>1 DEF Usage, Kept
    <2>3. \A q : Renews(q)' <=> Renews(q)
        BY DEF Renews, Continue
    <2>4. \/ \E q \in calls' : Renews(q)
          \/ lastUse' = lastUse /\ Lasts(cookie, lastUse - Access)
          \/ lastUse' = now /\ Lasts(cookie, now - Access)
        BY <2>1, <2>2 DEF Renewing, Continue
    <2>5. cookie' = cookie
        BY DEF Continue
    <2> QED BY <2>3, <2>4, <2>5 DEF Lasts
<1> QED BY <1>1, <1>2, <1>3, <1>4, <1>5 DEF Usage, Kept

\* A page that loads again drops the requests of the old one and asks anew.
LEMMA ReloadContinues ==
    ASSUME TypeOK, Usage, NEW t \in Tabs, Reload(t), UNCHANGED <<now, version, cookie, ended>>,
           lastUse' = lastUse \/ (lastUse' = now /\ now < cookie.exp)
    PROVE  Continue /\ Renewing
PROOF
<1>1. PICK page : page = [SignedOut EXCEPT !.state = "loading"]
    OBVIOUS
<1>2. page.exp = 0 /\ page.received = 0 /\ page.refreshing = FALSE
    BY <1>1 DEF SignedOut
<1>s. Sent(Refresh(t, "load"))
    BY DEF Refresh, Sent
<1>3. PICK p : p = Refresh(t, "load") /\ Sent(p)
    BY <1>s
<1>4. tab' = [tab EXCEPT ![t] = page] /\ calls' = {q \in calls : q.tab # t} \cup {p}
    BY <1>1, <1>3 DEF Reload
<1>5. \A u \in Tabs : tab'[u] = IF u = t THEN page ELSE tab[u]
    BY <1>4 DEF TypeOK
<1>6. ASSUME NEW u \in Tabs, tab'[u].refreshing PROVE \E q \in calls' : q.tab = u /\ q.from = "401"
    <2>1. u # t /\ tab[u].refreshing
        BY <1>2, <1>5, <1>6
    <2> QED BY <1>4, <2>1 DEF Usage, Tokens
<1>7. Continue
    BY <1>2, <1>3, <1>4, <1>5, <1>6 DEF Continue
<1>8. now < cookie.exp => Renews(p)
    BY <1>3 DEF Renews, Sent
<1>9. \A q : Renews(q) => now < cookie.exp
    BY DEF Renews
<1>10. Renewing
    BY <1>4, <1>8, <1>9 DEF Renewing
<1> QED BY <1>7, <1>10

\* What is refused is not to be renewed any more.
LEMMA RefusedDoNotRenew ==
    ASSUME TypeOK, Usage, Renewable, NEW q \in calls, q.phase = "refused" PROVE ~Renews(q)
PROOF BY DEF Renewable, Usage, Answers, Renews, MayContinue

LEMMA NotRefreshedContinues ==
    ASSUME TypeOK, Usage, NEW q \in calls, NotRefreshed(q),
           UNCHANGED <<now, version, cookie, ended, lastUse>>
    PROVE  Continue /\ (q.phase = "refused" => Renewing)
PROOF
<1>0. q.tab \in Tabs
    BY Numbers
<1>1. CASE q.from = "401"
    BY <1>0, <1>1, ReloadContinues DEF NotRefreshed
<1>2. CASE q.from # "401"
    <2>1. calls' = calls \ {q} /\ (tab' = tab \/ tab' = [tab EXCEPT ![q.tab] = SignedOut])
        BY <1>2 DEF NotRefreshed
    <2>2. SignedOut.exp = 0 /\ SignedOut.received = 0 /\ SignedOut.refreshing = FALSE
        BY DEF SignedOut
    <2>3. \A u \in Tabs : tab'[u] = tab[u] \/ tab'[u] = SignedOut
        BY <2>1 DEF TypeOK
    <2>4. ASSUME NEW u \in Tabs, tab'[u].refreshing PROVE \E p \in calls' : p.tab = u /\ p.from = "401"
        <3>1. tab[u].refreshing
            BY <2>2, <2>3, <2>4
        <3> QED BY <1>2, <2>1, <3>1 DEF Usage, Tokens
    <2>5. Continue
        BY <2>1, <2>2, <2>3, <2>4 DEF Continue
    <2>6. q.phase = "refused" => Renewing
        BY <2>1, RefusedDoNotRenew DEF Renewing
    <2> QED BY <2>5, <2>6
<1> QED BY <1>1, <1>2

\* After a 401 the page refreshes, or waits for the refresh it has sent.  If that one
\* was refused although the cookie is good, the cookie is newer.
LEMMA InterceptContinues ==
    ASSUME TypeOK, Usage, NEW t \in Tabs, Intercept(t), UNCHANGED <<now, version, cookie, ended>>,
           lastUse' = lastUse \/ (lastUse' = now /\ now < cookie.exp)
    PROVE  Continue /\ Renewing
PROOF
<1>1. CASE tab[t].refreshing
    <2>1. tab' = tab /\ calls' = calls
        BY <1>1 DEF Intercept
    <2>2. Continue
        BY <2>1 DEF Continue, Usage, Tokens
    <2>3. PICK q \in calls : q.tab = t /\ q.from = "401"
        BY <1>1 DEF Usage, Tokens
    <2>4. q.phase \in {"sent", "granted", "refused"}
        BY DEF TypeOK, Call, Phase
    <2>5. ASSUME ~ended, Renewable, now < cookie.exp
          PROVE  Lasts(cookie, now - Access) \/ \E p \in calls' : Renews(p)
        <3>1. CASE q.sent = cookie
            <4>1. q.phase # "refused"
                BY <2>5, <3>1 DEF Usage, Answers, MayContinue, Renewable
            <4>2. Renews(q)
                BY <2>4, <2>5, <3>1, <4>1 DEF Renews
            <4> QED BY <2>1, <4>2
        <3>2. CASE q.sent # cookie
            BY <2>5, <3>2, Numbers DEF Usage, Answers, Lasts
        <3> QED BY <3>1, <3>2
    <2>6. Renewing
        BY <2>1, <2>5 DEF Renewing
    <2> QED BY <2>2, <2>6
<1>2. CASE ~tab[t].refreshing
    <2>s. LET p == Refresh(t, "401") IN Sent(p) /\ p.tab = t /\ p.from = "401"
        BY DEF Refresh, Sent
    <2>1. PICK p : p = Refresh(t, "401") /\ Sent(p) /\ p.tab = t /\ p.from = "401"
        BY <2>s
    <2>2. tab' = [tab EXCEPT ![t].refreshing = TRUE] /\ calls' = calls \cup {p}
        BY <1>2, <2>1 DEF Intercept
    <2>3. \A u \in Tabs : /\ tab'[u].exp = tab[u].exp /\ tab'[u].received = tab[u].received
                          /\ u # t => tab'[u] = tab[u]
        BY <2>2 DEF TypeOK, Page
    <2>4. \A u \in Tabs : tab'[u].refreshing => \E q \in calls' : q.tab = u /\ q.from = "401"
        BY <2>1, <2>2, <2>3 DEF Usage, Tokens
    <2>5. Continue
        BY <2>1, <2>2, <2>3, <2>4 DEF Continue
    <2>6. now < cookie.exp => Renews(p)
        BY <2>1 DEF Renews, Sent
    <2>7. Renewing
        BY <2>2, <2>6 DEF Renewing
    <2> QED BY <2>5, <2>7
<1> QED BY <1>1, <1>2

\* While an access token is good, the cookie that came with it lasts.
LEMMA GoodTokenContinues ==
    ASSUME TypeOK, Usage, NEW t \in Tabs, Valid(t),
           UNCHANGED <<now, version, cookie, tab, calls, ended>>,
           lastUse' = lastUse \/ (lastUse' = now /\ now < cookie.exp)
    PROVE  Continue /\ Renewing
PROOF
<1>0. Access \in Nat /\ now \in Nat /\ tab[t].exp \in Nat /\ tab[t].received \in Nat
    BY Numbers
<1>1. Continue
    BY DEF Continue, Usage, Tokens
<1>2. now < tab[t].exp /\ tab[t].exp <= tab[t].received + Access
    BY DEF Valid, Usage, Tokens
<1>3. tab[t].exp # 0 /\ now - Access <= tab[t].received
    BY <1>0, <1>2
<1>4. ~ended => Lasts(cookie, tab[t].received)
    BY <1>3 DEF Usage, Kept
<1>5. ~ended => Lasts(cookie, now - Access)
    BY <1>0, <1>3, <1>4, Numbers DEF Lasts
<1> QED BY <1>1, <1>5 DEF Renewing

LEMMA IssuedLasts ==
    ASSUME TypeOK, version' \in Nat, NEW auth \in Nat PROVE Lasts(IssuedCookie(auth), now)
PROOF
<1>1. Idle \in Nat /\ Max \in Nat /\ now \in Nat
    BY Numbers
<1>2. /\ IssuedCookie(auth).exp = (IF now + Idle <= auth + Max THEN now + Idle ELSE auth + Max)
      /\ IssuedCookie(auth).auth = auth
    BY DEF IssuedCookie, Earlier
<1> QED BY <1>1, <1>2 DEF Lasts

\* A revocation does not bring back what was refused.
LEMMA RefusedStays ==
    ASSUME TypeOK, Usage, Revocations, now' = now, version' \in {version, version + 1},
           NEW q \in calls, q.phase = "refused"
    PROVE  ~MayContinue(q.sent)'
PROOF
<1>1. q.sent.tv <= version /\ q.sent.tv \in Nat /\ version \in Nat
    BY Numbers DEF Revocations, Ends
<1>2. ~MayContinue(q.sent)
    BY DEF Usage, Answers
<1> QED BY <1>1, <1>2 DEF MayContinue

\* A step that brings a fresh cookie, or ends the session, and answers nothing else.
LEMMA FreshKeeps ==
    ASSUME TypeOK, TypeOK', Usage, Revocations, Lasts(cookie, now)' \/ ended', Tokens',
           now' = now, lastUse' \in {lastUse, now}, version' \in {version, version + 1},
           calls' \subseteq calls
    PROVE  Usage'
PROOF
<1>0. {Access, Idle, Max, now, lastUse} \subseteq Nat /\ cookie'.exp \in Nat /\ cookie'.auth \in Nat
    BY Numbers DEF TypeOK, Cookie
<1>1. lastUse' <= now'
    BY <1>0 DEF Usage, Kept
<1>2. Answers'
    <2> SUFFICES ASSUME NEW q \in calls'
                 PROVE  /\ q.phase = "granted" => Lasts(q.issued, now)'
                        /\ q.phase = "refused" => ~MayContinue(q.sent)'
                        /\ (ended \/ Lasts(cookie, now))'
        BY DEF Answers
    <2>1. q.phase = "granted" => Lasts(q.issued, now)'
        BY DEF Usage, Answers, Lasts
    <2> QED BY <2>1, RefusedStays
<1>3. ~ended' => \A t \in Tabs : Lasts(cookie, tab[t].received)'
    <2> SUFFICES ASSUME ~ended', NEW t \in Tabs PROVE Lasts(cookie, tab[t].received)'
        OBVIOUS
    <2>1. tab'[t].received <= now' /\ tab'[t].received \in Nat
        BY DEF Tokens, TypeOK, Page
    <2> QED BY <1>0, <2>1 DEF Lasts
<1>4. ~ended' => Lasts(cookie, lastUse - Access)'
    BY <1>0, <1>1 DEF Lasts
<1> QED BY <1>1, <1>2, <1>3, <1>4 DEF Usage, Kept

LEMMA InitUsage == Init => Usage
PROOF BY ConstantsAssumption DEF Init, Usage, Tokens, Answers, Kept, SignedOut

LEMMA StepUsage == TypeOK /\ Revocations /\ Usage /\ [Next]_vars => Usage'
PROOF
<1> SUFFICES ASSUME TypeOK, Revocations, Usage, [Next]_vars PROVE Usage'
    OBVIOUS
<1>t. TypeOK'
    BY StepTypeOK
<1>0. /\ {Access, Idle, Max, now, version, lastUse, failures} \subseteq Nat
      /\ \A t \in Tabs : tab[t].exp \in Nat /\ tab[t].received \in Nat
    BY Numbers
<1>1. ASSUME NEW t \in Tabs, SignIn(t) PROVE Usage'
    <2>1. /\ now' = now /\ version' = version /\ calls' = calls /\ lastUse' = now
          /\ cookie' = IssuedCookie(now)
        BY <1>1 DEF SignIn
    <2>2. Lasts(cookie, now)'
        BY <1>0, <2>1, IssuedLasts DEF Lasts
    <2>3. AccessExpiry(now) \in Nat /\ AccessExpiry(now) <= now + Access
        BY <1>0, <2>1, IssuedType
    <2>h. /\ Holding(AccessExpiry(now), version).exp <= now + Access
          /\ Holding(AccessExpiry(now), version).received = now
          /\ Holding(AccessExpiry(now), version).refreshing = FALSE
        BY <2>3 DEF Holding
    <2>4. PICK page : /\ page = Holding(AccessExpiry(now), version)
                      /\ page.exp <= now + Access /\ page.received = now /\ page.refreshing = FALSE
        BY <2>h
    <2>5. tab' = [tab EXCEPT ![t] = page]
        BY <1>1, <2>4 DEF SignIn
    <2>6. Tokens'
        BY <1>0, <2>1, <2>4, <2>5 DEF Usage, Tokens, TypeOK
    <2> QED BY <1>t, <2>1, <2>2, <2>6, FreshKeeps
<1>2. ASSUME NEW t \in Tabs, Open(t) PROVE Usage'
    <2>1. Continue /\ Renewing /\ failures' = failures
        BY <1>2, ReloadContinues DEF Open, Mark
    <2> QED BY <1>t, <2>1, ContinueKeeps
<1>3. ASSUME NEW t \in Tabs, Use(t) PROVE Usage'
    <2>1. UNCHANGED <<now, version, cookie, ended, failures>>
        BY <1>3 DEF Use
    <2>2. lastUse' = lastUse \/ (lastUse' = now /\ now < cookie.exp)
        BY <1>3 DEF Use, Act, Mark
    <2>3. CASE Valid(t)
        <3>1. tab' = tab /\ calls' = calls
            BY <1>3, <2>3 DEF Use
        <3>2. Continue /\ Renewing
            BY <2>1, <2>2, <2>3, <3>1, GoodTokenContinues
        <3> QED BY <1>t, <2>1, <3>2, ContinueKeeps
    <2>4. CASE ~Valid(t)
        <3>1. Intercept(t)
            BY <1>3, <2>4 DEF Use
        <3>2. Continue /\ Renewing
            BY <2>1, <2>2, <3>1, InterceptContinues
        <3> QED BY <1>t, <2>1, <3>2, ContinueKeeps
    <2> QED BY <2>3, <2>4
<1>4. ASSUME NEW t \in Tabs, Background(t) PROVE Usage'
    <2>1. Continue /\ Renewing /\ failures' = failures
        BY <1>4, InterceptContinues DEF Background
    <2> QED BY <1>t, <2>1, ContinueKeeps
<1>5. ASSUME NEW t \in Tabs, Logout(t) \/ LogoutAll(t) PROVE Usage'
    <2>1. /\ tab' = [tab EXCEPT ![t] = SignedOut] /\ calls' = calls /\ ended' = TRUE /\ now' = now
          /\ version' \in {version, version + 1}
        BY <1>5 DEF Logout, LogoutAll
    <2>2. lastUse' \in {lastUse, now}
        BY <1>5 DEF Logout, LogoutAll, Act, Mark
    <2>3. SignedOut.exp = 0 /\ SignedOut.received = 0 /\ SignedOut.refreshing = FALSE
        BY DEF SignedOut
    <2>4. Tokens'
        BY <1>0, <2>1, <2>3 DEF Usage, Tokens, TypeOK
    <2> QED BY <1>t, <2>1, <2>2, <2>4, FreshKeeps
<1>6. ASSUME NEW t \in Tabs, ChangePassword(t) PROVE Usage'
    <2>1. /\ now' = now /\ version' = version + 1 /\ calls' = calls /\ tab' = tab
          /\ cookie' = IssuedCookie(now)
        BY <1>6 DEF ChangePassword
    <2>2. lastUse' \in {lastUse, now}
        BY <1>6 DEF ChangePassword, Act, Mark
    <2>3. Lasts(cookie, now)'
        BY <1>0, <2>1, IssuedLasts DEF Lasts
    <2>4. Tokens'
        BY <2>1 DEF Usage, Tokens
    <2> QED BY <1>t, <2>1, <2>2, <2>3, <2>4, FreshKeeps
<1>7. ASSUME NEW t \in Tabs, AuthCallTooLate(t) PROVE Usage'
    <2>1. Continue /\ Renewing /\ failures' = failures
        BY <1>7, ReloadContinues DEF AuthCallTooLate, Act, Mark
    <2> QED BY <1>t, <2>1, ContinueKeeps
<1>8. ASSUME NEW t \in Tabs, TimerFires(t) PROVE Usage'
    <2>1. UNCHANGED <<now, version, cookie, ended, failures, lastUse>>
        BY <1>8 DEF TimerFires
    <2>2. tab' = [tab EXCEPT ![t].timer = 0] /\ calls \subseteq calls'
        BY <1>8 DEF TimerFires
    <2>3. \A q \in calls' : q \in calls \/ Sent(q)
        BY <1>8 DEF TimerFires, Sent, Refresh
    <2>4. \A u \in Tabs : /\ tab'[u].exp = tab[u].exp /\ tab'[u].received = tab[u].received
                          /\ tab'[u].refreshing = tab[u].refreshing
        BY <2>2 DEF TypeOK, Page
    <2>5. Continue
        BY <2>1, <2>2, <2>3, <2>4 DEF Continue, Usage, Tokens
    <2>6. Renewing
        BY <2>1, <2>2 DEF Renewing
    <2> QED BY <1>t, <2>1, <2>5, <2>6, ContinueKeeps
<1>9. ASSUME NEW t \in Tabs, IdleOut(t) PROVE Usage'
    <2>1. Continue /\ Renewing /\ failures' = failures
        BY <1>9, ReloadContinues DEF IdleOut
    <2> QED BY <1>t, <2>1, ContinueKeeps
<1>10. ASSUME NEW q \in calls, Serve(q) PROVE Usage'
    <2>1. UNCHANGED <<now, version, cookie, tab, failures, lastUse, ended>> /\ q.phase = "sent"
        BY <1>10 DEF Serve
    <2>2. q \in Call /\ q.sent.auth \in Nat /\ version' \in Nat
        BY <1>0, <2>1, Numbers DEF TypeOK
    <2>3. PICK p : p = IF MayContinue(q.sent) THEN Granted(q) ELSE Refused(q)
        OBVIOUS
    <2>4. calls' = (calls \ {q}) \cup {p}
        BY <1>10, <2>3 DEF Serve
    <2>5. /\ p.tab = q.tab /\ p.from = q.from /\ p.sent = q.sent
          /\ MayContinue(q.sent) => p.phase = "granted" /\ p.issued = IssuedCookie(q.sent.auth)
          /\ ~MayContinue(q.sent) => p.phase = "refused"
        BY <2>2, <2>3 DEF Granted, Refused, Call
    <2>6. p.phase = "granted" => Lasts(p.issued, now)
        BY <2>2, <2>5, IssuedLasts
    <2>7. Tokens'
        BY <2>1, <2>4, <2>5 DEF Usage, Tokens
    <2>8. Answers'
        BY <2>1, <2>4, <2>5, <2>6 DEF Usage, Answers, Lasts, MayContinue
    <2>9. Renewable /\ Renews(q) => Renews(p)
        BY <2>5 DEF Renews, Renewable, MayContinue
    <2>10. Kept'
        <3>1. lastUse' <= now' /\ (~ended' => \A t \in Tabs : tab'[t].exp = 0 \/ Lasts(cookie, tab[t].received)')
            BY <2>1 DEF Usage, Kept, Lasts
        <3>2. ASSUME ~ended', Renewable'
              PROVE  Lasts(cookie, lastUse - Access)' \/ \E r \in calls' : Renews(r)'
            <4>1. ~ended /\ Renewable
                BY <2>1, <3>2 DEF Renewable
            <4>2. Lasts(cookie, lastUse - Access) \/ \E r \in calls : Renews(r)
                BY <4>1 DEF Usage, Kept
            <4>3. Lasts(cookie, lastUse - Access) \/ \E r \in calls' : Renews(r)
                BY <2>4, <2>9, <4>1, <4>2
            <4> QED BY <2>1, <4>3 DEF Lasts, Renews
        <3> QED BY <3>1, <3>2 DEF Kept
    <2> QED BY <2>7, <2>8, <2>10 DEF Usage
<1>11. ASSUME NEW q \in calls, ReceiveGranted(q) PROVE Usage'
    <2>1. /\ UNCHANGED <<now, version, lastUse>> /\ q.phase = "granted"
          /\ cookie' = q.issued /\ calls' = calls \ {q}
        BY <1>11 DEF ReceiveGranted
    <2>2. Lasts(cookie, now)'
        BY <2>1 DEF Usage, Answers, Lasts
    <2>3. q.tab \in Tabs /\ q.access <= now + Access
        BY Numbers DEF Revocations, Ends
    <2>4. PICK state : state = IF q.from = "load" THEN "in" ELSE tab[q.tab].state
        OBVIOUS
    <2>h. LET page == [Holding(q.access, q.sent.tv) EXCEPT !.state = state]
          IN  page.exp = q.access /\ page.received = now /\ page.refreshing = FALSE
        BY DEF Holding
    <2>5. PICK page : /\ page = [Holding(q.access, q.sent.tv) EXCEPT !.state = state]
                      /\ page.exp = q.access /\ page.received = now /\ page.refreshing = FALSE
        BY <2>h
    <2>6. tab' = [tab EXCEPT ![q.tab] = page]
        BY <1>11, <2>4, <2>5 DEF ReceiveGranted
    <2>7. \A u \in Tabs : tab'[u] = IF u = q.tab THEN page ELSE tab[u]
        BY <2>6 DEF TypeOK
    <2>8. Tokens'
        <3> SUFFICES ASSUME NEW u \in Tabs
                     PROVE  /\ tab'[u].received <= now' /\ tab'[u].exp <= tab'[u].received + Access
                            /\ tab'[u].refreshing => \E p \in calls' : p.tab = u /\ p.from = "401"
            BY DEF Tokens
        <3>1. CASE u = q.tab
            <4>1. tab'[u].exp = q.access /\ tab'[u].received = now /\ tab'[u].refreshing = FALSE
                BY <2>5, <2>7, <3>1
            <4>2. now \in Nat /\ now' = now /\ q.access <= now + Access
                BY <1>0, <2>1, <2>3
            <4> QED BY <4>1, <4>2
        <3>2. CASE u # q.tab
            <4>1. tab'[u] = tab[u]
                BY <2>7, <3>2
            <4>2. /\ tab[u].received <= now /\ tab[u].exp <= tab[u].received + Access
                  /\ tab[u].refreshing => \E p \in calls : p.tab = u /\ p.from = "401"
                BY DEF Usage, Tokens
            <4> QED BY <2>1, <3>2, <4>1, <4>2
        <3> QED BY <3>1, <3>2
    <2> QED BY <1>t, <2>1, <2>2, <2>8, FreshKeeps
<1>12. ASSUME NEW q \in calls, ReceiveRefused(q) PROVE Usage'
    <2>1. Continue /\ Renewing /\ failures' = failures
        BY <1>12, NotRefreshedContinues DEF ReceiveRefused
    <2> QED BY <1>t, <2>1, ContinueKeeps
<1>13. ASSUME NEW q \in calls, Lose(q) PROVE Usage'
    <2>1. Continue
        BY <1>13, NotRefreshedContinues DEF Lose
    <2>2. failures' # 0
        BY <1>0, <1>13 DEF Lose
    <2> QED BY <1>t, <2>1, <2>2, ContinueKeeps
<1>14. CASE Tick
    <2>1. /\ UNCHANGED <<version, cookie, tab, calls, failures, lastUse, ended>>
          /\ now' = now + 1 /\ calls = {}
        BY <1>14 DEF Tick
    <2>2. Tokens' /\ Answers'
        BY <1>0, <2>1 DEF Usage, Tokens, Answers
    <2>3. lastUse' <= now' /\ (~ended' => \A t \in Tabs : tab'[t].exp = 0 \/ Lasts(cookie, tab[t].received)')
        BY <1>0, <2>1 DEF Usage, Kept, Lasts
    <2>4. (~ended /\ Renewable)' => ~ended /\ Renewable
        BY <1>0, <2>1, Numbers DEF Renewable
    <2>5. ~ended /\ Renewable => Lasts(cookie, lastUse - Access)
        BY <2>1 DEF Usage, Kept
    <2> QED BY <2>1, <2>2, <2>3, <2>4, <2>5 DEF Usage, Kept, Lasts
<1>15. CASE UNCHANGED vars
    <2>1. Continue /\ Renewing /\ failures' = failures
        BY <1>15 DEF vars, Continue, Renewing, Usage, Tokens
    <2> QED BY <1>t, <2>1, ContinueKeeps
<1>16. ASSUME NEW t \in Tabs, Touch(t) PROVE Usage'
    <2>1. UNCHANGED <<now, version, cookie, tab, calls, ended, failures>>
        BY <1>16 DEF Touch
    <2>2. CASE Valid(t)
        <3>1. lastUse' = lastUse \/ (lastUse' = now /\ now < cookie.exp)
            BY <1>16, <2>2 DEF Touch, Act, Mark
        <3>2. Continue /\ Renewing
            BY <2>1, <2>2, <3>1, GoodTokenContinues
        <3> QED BY <1>t, <2>1, <3>2, ContinueKeeps
    <2>3. CASE ~Valid(t)
        <3>1. lastUse' = lastUse
            BY <1>16, <2>3 DEF Touch
        <3>2. Continue /\ Renewing
            BY <2>1, <3>1 DEF Continue, Renewing, Usage, Tokens
        <3> QED BY <1>t, <2>1, <3>2, ContinueKeeps
    <2> QED BY <2>2, <2>3
<1> QED
    BY <1>1, <1>2, <1>3, <1>4, <1>5, <1>6, <1>7, <1>8, <1>9, <1>10, <1>11, <1>12, <1>13,
       <1>14, <1>15, <1>16 DEF Next

\* A user who keeps using the application keeps the session: whatever the tabs do,
\* and however their refreshes race, the cookie lasts for the idle timeout from the
\* last use on, less the lifetime of an access token, until the absolute end.  A use
\* is a request, or any activity while the access token of the page is good.
THEOREM ActivityKeepsSession == Spec => []ActivityKeepsCookie
PROOF
<1>1. Init => TypeOK /\ Revocations /\ Usage
    BY InitTypeOK, InitRevocations, InitUsage
<1>2. TypeOK /\ Revocations /\ Usage /\ [Next]_vars => (TypeOK /\ Revocations /\ Usage)'
    BY StepTypeOK, StepRevocations, StepUsage
<1>3. TypeOK /\ Usage => ActivityKeepsCookie
    <2> SUFFICES ASSUME TypeOK, Usage, calls = {}, ~ended, Renewable, now - lastUse < Idle - Access
                 PROVE  now < cookie.exp
        BY DEF ActivityKeepsCookie, Renewable
    <2>1. Lasts(cookie, lastUse - Access)
        BY DEF Usage, Kept
    <2> QED BY <2>1, Numbers DEF Lasts, Renewable
<1> QED BY <1>1, <1>2, <1>3, PTL DEF Spec

=============================================================================
