----------------------------- MODULE WebSession -----------------------------
(***************************************************************************)
(* The session of one browser: the cookies that its tabs share             *)
(* (authCookies.js), and in each tab the user it shows (AuthContext) and   *)
(* the bearer token of its last login (tokenStore).  The middleware and    *)
(* getSession look at the cookies; the API at the bearer token first; a    *)
(* server action only at the cookies.                                      *)
(*                                                                         *)
(* Time is in seconds and jumps to the next instant at which something     *)
(* expires.  Answers of logins and logouts may be lost.                    *)
(***************************************************************************)
EXTENDS Naturals, FiniteSets

CONSTANTS
    People, Nobody,    \* who can sign in
    Tabs,
    AccessLife,        \* JWT_EXPIRES_IN and JWT_REFRESH_EXPIRES_IN, in seconds
    RefreshLife,
    Instants           \* the instants at which the clock can stand

ASSUME WebSessionAssumption ==
    /\ Nobody \notin People
    /\ AccessLife \in Nat \ {0} /\ RefreshLife \in Nat /\ Instants \subseteq Nat

VARIABLES
    sec,
    accessCookie, refreshCookie,    \* a token, or NoToken
    hashes,       \* people with a refresh_token_hash
    tab,          \* each tab: [shows, bearer, at]
    crossed       \* history: tabs behind which another tab changed the cookies, or the
                  \* middleware renewed them while the tab shows nobody, since they were
                  \* loaded or signed in, and tabs whose sign-out did not get its answer

webVars == <<sec, accessCookie, refreshCookie, hashes, tab, crossed>>

Token(u) == [of |-> u, issued |-> sec]
NoToken == [of |-> Nobody, issued |-> 0]

WebInit ==
    /\ sec = 0 /\ accessCookie = NoToken /\ refreshCookie = NoToken
    /\ hashes = {} /\ crossed = {}
    /\ tab = [t \in Tabs |-> [shows |-> Nobody, bearer |-> NoToken, at |-> "public"]]

-----------------------------------------------------------------------------
\* getUserFromAccessToken
UserOf(token) == IF sec < token.issued + AccessLife THEN token.of ELSE Nobody

\* The lifetime of a token in milliseconds.
durationToMs(life) == 1000 * life

\* The browser drops a cookie maxAge seconds after it was set (external): setAuthCookies
\* passes the milliseconds.
Kept(cookie, maxAge) == cookie # NoToken /\ sec < cookie.issued + maxAge
AccessKept == Kept(accessCookie, durationToMs(AccessLife))

\* refreshTokens: any refresh token of the user matches the stored hash (Accounts).
RefreshUser ==
    IF Kept(refreshCookie, 7 * 24 * 60 * 60 * 1000) /\ sec < refreshCookie.issued + RefreshLife
       /\ refreshCookie.of \in hashes
    THEN refreshCookie.of ELSE Nobody

setAuthCookies(u) == accessCookie' = Token(u) /\ refreshCookie' = Token(u)
clearAuthCookies == accessCookie' = NoToken /\ refreshCookie' = NoToken

secondsPass ==
    /\ \E later \in Instants : later > sec /\ sec' = later
    /\ UNCHANGED <<accessCookie, refreshCookie, hashes, tab, crossed>>

\* middleware.js: a protected page is served when there is an access cookie, whatever
\* it holds, or when the refresh cookie gets a new one; getSession then reads it.
\* Otherwise, and when the call to refresh fails, loginRedirect.
Renewals == {RefreshUser, Nobody}

Served(protected, renewed) ==
    IF ~protected \/ AccessKept
    THEN <<TRUE, IF AccessKept THEN UserOf(accessCookie) ELSE Nobody>>
    ELSE <<renewed # Nobody, renewed>>

middleware(protected, renewed, loaded) ==
    IF protected /\ ~AccessKept /\ renewed # Nobody
    THEN /\ setAuthCookies(renewed)
         /\ crossed' = (crossed \cup {x \in Tabs : tab[x].shows = Nobody}) \ loaded
    ELSE /\ UNCHANGED <<accessCookie, refreshCookie>>
         /\ crossed' = crossed \ loaded

\* A page is loaded: SessionProvider starts with getSession's user, tokenStore is empty.
\* AuthGate sends who is signed out to the login page.
loadPage(t, protected, renewed) ==
    LET u == Served(protected, renewed)[2] IN
    /\ middleware(protected, renewed, {t})
    /\ tab' = [tab EXCEPT ![t] = [shows |-> u, bearer |-> NoToken,
                   at |-> IF ~protected THEN "public" ELSE IF u = Nobody THEN "login" ELSE "protected"]]
    /\ UNCHANGED <<sec, hashes>>

\* A link: the middleware runs again, and the tab goes on showing its user.
follow(t, renewed) ==
    /\ middleware(TRUE, renewed, {})
    /\ tab' = [tab EXCEPT ![t].at =
                   IF Served(TRUE, renewed)[1] /\ tab[t].shows # Nobody THEN "protected" ELSE "login"]
    /\ UNCHANGED <<sec, hashes>>

-----------------------------------------------------------------------------
\* AuthContext

Crosses(t) == crossed' = (crossed \cup (Tabs \ {t})) \ {t}

\* loginAction, and what the tab makes of its answer; an answer that is lost
\* leaves the browser as it was.
signIn(t, u) ==
    /\ tab[t].at = "login" \/ tab[t].shows = Nobody
    /\ hashes' = hashes \cup {u}
    /\ \/ /\ setAuthCookies(u)
          /\ tab' = [tab EXCEPT ![t] = [shows |-> u, bearer |-> Token(u), at |-> "protected"]]
          /\ Crosses(t)
       \/ UNCHANGED <<accessCookie, refreshCookie, tab, crossed>>
    /\ UNCHANGED sec

\* (mutant: the tab keeps its token)
signedOutOnly(t) == [tab EXCEPT ![t].shows = Nobody, ![t].at = "login"]

\* finally: clearAccessToken, setUser(null), router.replace.
signedOut(t) == [tab EXCEPT ![t] = [shows |-> Nobody, bearer |-> NoToken, at |-> "login"]]

\* logoutAction ends the session of the cookies' user, when their token is still
\* valid, and clears them; the tab is signed out whether or not that succeeds.
signOut(t) ==
    /\ tab[t].shows # Nobody
    /\ \/ /\ hashes' = hashes \ {IF AccessKept THEN UserOf(accessCookie) ELSE Nobody}
          /\ \/ clearAuthCookies /\ Crosses(t)
             \/ UNCHANGED <<accessCookie, refreshCookie>> /\ crossed' = crossed \cup {t}
       \/ UNCHANGED <<hashes, accessCookie, refreshCookie>> /\ crossed' = crossed \cup {t}
    /\ tab' = signedOut(t)
    /\ UNCHANGED sec

-----------------------------------------------------------------------------
\* withAuth: the bearer token that ApiClient sends, or else the cookie.
extractToken(t) ==
    IF tab[t].bearer # NoToken THEN tab[t].bearer
    ELSE IF AccessKept THEN accessCookie ELSE NoToken

\* A server action looks at the cookie.
requireActionUser == IF AccessKept THEN UserOf(accessCookie) ELSE Nobody

\* ApiClient: a 401 makes the tab forget its bearer token.
onUnauthorized(t) ==
    /\ UserOf(extractToken(t)) = Nobody /\ tab[t].bearer # NoToken
    /\ tab' = [tab EXCEPT ![t].bearer = NoToken]
    /\ UNCHANGED <<sec, accessCookie, refreshCookie, hashes, crossed>>

WebNext ==
    \/ secondsPass
    \/ \E t \in Tabs :
         \/ \E renewed \in Renewals :
               (\E protected \in BOOLEAN : loadPage(t, protected, renewed)) \/ follow(t, renewed)
         \/ signOut(t) \/ onUnauthorized(t)
         \/ \E u \in People : signIn(t, u)

WebSpec == WebInit /\ [][WebNext]_webVars

-----------------------------------------------------------------------------
\* Properties

\* A call of a tab acts as the user that the tab shows, or is refused: through
\* reloads, expiry and sign-outs of the tab.  Only when another tab has signed in or
\* out since, a sign-out's answer was lost, or the middleware renewed a session that
\* the tab does not show, can it be another user, and not even then while the tab has
\* a bearer token of its own.
CallsAsShown ==
    \A t \in Tabs :
        /\ UserOf(extractToken(t)) \in {Nobody, tab[t].shows} \/ (t \in crossed /\ tab[t].bearer = NoToken)
        /\ requireActionUser \in {Nobody, tab[t].shows} \/ t \in crossed

\* "Without that, a page reload 15 minutes after signing in would log the user out"
\* (middleware.js:14-15): a protected page is served signed in while the session can
\* be refreshed and the call to refresh answers.
ReloadKeepsSession == RefreshUser # Nobody => Served(TRUE, RefreshUser)[2] # Nobody
=============================================================================
