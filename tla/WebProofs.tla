------------------------------ MODULE WebProofs ------------------------------
(***************************************************************************)
(* Proofs about the browser's side of the system.                          *)
(*                                                                         *)
(* WebSession: a tab acts as the user it shows, for any people, tabs and   *)
(* lifetimes.  The two cookies are set and cleared together.  They are of  *)
(* the user that a tab shows, or of nobody, unless the tab was crossed, or *)
(* shows nobody and the access token has expired: time does not go back.   *)
(* A bearer token is always of the user that its tab shows.                *)
(*                                                                         *)
(* EditForms: what a form holds of a field that was not touched is what it *)
(* loaded.  Checkout: a selection that is under way is the page's, and of  *)
(* a booking one charge is under way.  Pages: the newest fetch is of what  *)
(* is wanted, and reads what the page was told.                            *)
(***************************************************************************)
EXTENDS WebSession, EditForms, Checkout, Pages, FiniteSetTheorems, TLAPS

Tokens == [of : People \cup {Nobody}, issued : Nat]

WebTypeOK ==
    /\ sec \in Nat
    /\ accessCookie \in Tokens /\ refreshCookie \in Tokens
    /\ hashes \subseteq People
    /\ tab \in [Tabs -> [shows : People \cup {Nobody}, bearer : Tokens, at : {"public", "login", "protected"}]]
    /\ crossed \subseteq Tabs

BearersOwn == \A t \in Tabs : tab[t].bearer # NoToken => tab[t].bearer.of = tab[t].shows

CookiesTogether == accessCookie = refreshCookie

CookiesOwn ==
    \A t \in Tabs \ crossed :
        \/ tab[t].shows = Nobody /\ requireActionUser = Nobody
        \/ accessCookie.of \in {Nobody, tab[t].shows}

WebInv == WebTypeOK /\ BearersOwn /\ CookiesTogether /\ CookiesOwn

-----------------------------------------------------------------------------

\* Cookies are tokens or none.
LEMMA TokenType ==
  /\ NoToken \in Tokens
  /\ sec \in Nat => \A u \in People \cup {Nobody} : Token(u) \in Tokens /\ Token(u).of = u /\ Token(u).issued = sec
  BY DEF Tokens, NoToken, Token

\* Lifetimes are natural numbers.
LEMMA LifeType == durationToMs(AccessLife) \in Nat
  BY WebSessionAssumption DEF durationToMs

\* Who a cookie is of.
LEMMA UserType ==
  ASSUME NEW token \in Tokens
  PROVE  UserOf(token) \in {Nobody, token.of} /\ UserOf(token) \in People \cup {Nobody}
  BY DEF UserOf, Tokens

\* Whom a refresh finds.
LEMMA RefreshType == hashes \subseteq People => RefreshUser \in {Nobody, refreshCookie.of} /\ RefreshUser \in People \cup {Nobody}
  BY DEF RefreshUser

\* At the start nobody is signed in.
LEMMA WebInitInv == WebInit => WebInv
  BY TokenType DEF WebInit, WebInv, WebTypeOK, BearersOwn, CookiesTogether, CookiesOwn, NoToken, requireActionUser, UserOf, Tokens

-----------------------------------------------------------------------------

\* Time passes.
LEMMA SecondsStep == WebInv /\ secondsPass => WebInv'
  <1> SUFFICES ASSUME WebInv, secondsPass PROVE WebInv'
    OBVIOUS
  <1>1. /\ sec' \in Nat /\ sec' >= sec /\ sec \in Nat
        /\ UNCHANGED <<accessCookie, refreshCookie, hashes, tab, crossed>>
    BY WebSessionAssumption DEF secondsPass, WebInv, WebTypeOK
  <1>2. WebTypeOK' /\ BearersOwn'
    BY <1>1 DEF WebInv, WebTypeOK, BearersOwn
  <1>3. requireActionUser = Nobody => requireActionUser' = Nobody
    <2>1. accessCookie \in Tokens /\ accessCookie' = accessCookie
      BY <1>1 DEF WebInv, WebTypeOK
    <2>2. UserOf(accessCookie)' \in {Nobody, UserOf(accessCookie)}
      <3>1. accessCookie.issued \in Nat /\ AccessLife \in Nat
        BY <2>1, WebSessionAssumption DEF Tokens
      <3> QED
        BY <1>1, <2>1, <3>1 DEF UserOf
    <2>3. AccessKept' => AccessKept
      <3>1. accessCookie.issued \in Nat
        BY <2>1 DEF Tokens
      <3> QED
        BY <1>1, <2>1, <3>1, LifeType DEF AccessKept, Kept
    <2> QED
      BY <2>2, <2>3 DEF requireActionUser
  <1>4. CookiesOwn'
    BY <1>1, <1>3 DEF WebInv, CookiesOwn
  <1> QED
    BY <1>1, <1>2, <1>4 DEF WebInv, CookiesTogether

\* With the clock and the access cookie, what an action acts as stays.
LEMMA SameUser == UNCHANGED <<sec, accessCookie>> => requireActionUser' = requireActionUser
  BY DEF requireActionUser, AccessKept, Kept, UserOf

Renews(protected, renewed) == protected /\ ~AccessKept /\ renewed # Nobody

\* The middleware changes the cookies only to renew them for the user of the
\* refresh cookie, and crosses the tabs that show nobody.
LEMMA MiddlewareStep ==
  ASSUME WebInv, NEW protected \in BOOLEAN, NEW renewed \in Renewals, NEW loaded \in SUBSET Tabs,
         middleware(protected, renewed, loaded),
         UNCHANGED <<sec, hashes>>
  PROVE  /\ accessCookie' \in Tokens /\ refreshCookie' = accessCookie' /\ crossed' \subseteq Tabs
         /\ \A t \in Tabs \ (crossed' \cup loaded) :
               \/ tab[t].shows = Nobody /\ requireActionUser' = Nobody
               \/ accessCookie'.of \in {Nobody, tab[t].shows}
         /\ Renews(protected, renewed) => accessCookie'.of = renewed
         /\ ~Renews(protected, renewed) => UNCHANGED accessCookie
  <1>0. WebTypeOK /\ CookiesTogether /\ CookiesOwn
    BY DEF WebInv
  <1>1. CASE Renews(protected, renewed)
    <2>1. /\ accessCookie' = Token(renewed) /\ refreshCookie' = Token(renewed)
          /\ crossed' = (crossed \cup {x \in Tabs : tab[x].shows = Nobody}) \ loaded
      BY <1>1 DEF middleware, Renews, setAuthCookies
    <2>2. renewed \in People \cup {Nobody} /\ renewed = RefreshUser /\ renewed = accessCookie.of
      BY <1>0, <1>1, RefreshType DEF WebTypeOK, CookiesTogether, Renews, Renewals
    <2>3. Token(renewed) \in Tokens /\ Token(renewed).of = renewed
      BY <1>0, <2>2, TokenType DEF WebTypeOK
    <2>4. ASSUME NEW t \in Tabs \ (crossed' \cup loaded)
          PROVE  renewed \in {Nobody, tab[t].shows}
      <3>1. t \in Tabs \ crossed /\ tab[t].shows # Nobody
        BY <2>1
      <3> QED
        BY <1>0, <3>1, <2>2 DEF CookiesOwn
    <2>5. crossed' \subseteq Tabs
      BY <1>0, <2>1 DEF WebTypeOK
    <2> QED
      BY <1>1, <2>1, <2>3, <2>4, <2>5
  <1>2. CASE ~Renews(protected, renewed)
    <2>1. UNCHANGED <<accessCookie, refreshCookie>> /\ crossed' = crossed \ loaded
      BY <1>2 DEF middleware, Renews
    <2>2. requireActionUser' = requireActionUser
      BY <2>1, SameUser
    <2> QED
      BY <1>0, <1>2, <2>1, <2>2 DEF WebTypeOK, CookiesTogether, CookiesOwn
  <1> QED
    BY <1>1, <1>2

\* A page loads.
LEMMA LoadStep ==
  ASSUME WebInv, NEW t \in Tabs, NEW protected \in BOOLEAN, NEW renewed \in Renewals, loadPage(t, protected, renewed)
  PROVE  WebInv'
  <1> DEFINE u == Served(protected, renewed)[2]
             at == IF ~protected THEN "public" ELSE IF u = Nobody THEN "login" ELSE "protected"
  <1>0. WebTypeOK
    BY DEF WebInv
  <1>1. /\ middleware(protected, renewed, {t}) /\ UNCHANGED <<sec, hashes>>
        /\ tab' = [tab EXCEPT ![t] = [shows |-> u, bearer |-> NoToken, at |-> at]]
    BY DEF loadPage
  <1>2. /\ AccessKept => u = UserOf(accessCookie)
        /\ ~AccessKept => u = IF protected THEN renewed ELSE Nobody
    BY DEF Served
  <1>3. u \in People \cup {Nobody}
    BY <1>0, <1>2, UserType, RefreshType DEF WebTypeOK, Renewals
  <1>4. at \in {"public", "login", "protected"}
    OBVIOUS
  <1> HIDE DEF u, at
  <1>5. (u = Nobody /\ requireActionUser' = Nobody) \/ accessCookie'.of \in {Nobody, u}
    <2>1. CASE Renews(protected, renewed)
      BY <1>1, <1>2, <2>1, MiddlewareStep DEF Renews
    <2>2. CASE ~Renews(protected, renewed)
      <3>1. UNCHANGED accessCookie /\ requireActionUser' = requireActionUser
        BY <1>1, <2>2, MiddlewareStep, SameUser
      <3>2. CASE AccessKept
        BY <1>0, <1>2, <3>1, <3>2, UserType DEF requireActionUser, WebTypeOK
      <3>3. CASE ~AccessKept
        BY <1>2, <2>2, <3>1, <3>3 DEF requireActionUser, Renews
      <3> QED
        BY <3>2, <3>3
    <2> QED
      BY <2>1, <2>2
  <1>6. WebTypeOK' /\ CookiesTogether'
    BY <1>0, <1>1, <1>3, <1>4, MiddlewareStep, TokenType DEF WebTypeOK, CookiesTogether
  <1>7. BearersOwn'
    BY <1>0, <1>1 DEF WebInv, WebTypeOK, BearersOwn
  <1>8. CookiesOwn'
    BY <1>0, <1>1, <1>5, MiddlewareStep DEF WebTypeOK, CookiesOwn
  <1> QED
    BY <1>6, <1>7, <1>8 DEF WebInv

\* A link within the page is followed.
LEMMA FollowStep ==
  ASSUME WebInv, NEW t \in Tabs, NEW renewed \in Renewals, follow(t, renewed)
  PROVE  WebInv'
  <1> DEFINE at == IF Served(TRUE, renewed)[1] /\ tab[t].shows # Nobody THEN "protected" ELSE "login"
  <1>0. WebTypeOK
    BY DEF WebInv
  <1>1. middleware(TRUE, renewed, {}) /\ UNCHANGED <<sec, hashes>> /\ tab' = [tab EXCEPT ![t].at = at]
    BY DEF follow
  <1>2. at \in {"public", "login", "protected"}
    OBVIOUS
  <1> HIDE DEF at
  <1>3. \A x \in Tabs : tab'[x].shows = tab[x].shows /\ tab'[x].bearer = tab[x].bearer
    BY <1>0, <1>1 DEF WebTypeOK
  <1>4. WebTypeOK' /\ CookiesTogether'
    BY <1>0, <1>1, <1>2, MiddlewareStep DEF WebTypeOK, CookiesTogether
  <1>5. BearersOwn'
    BY <1>3 DEF WebInv, BearersOwn
  <1>6. CookiesOwn'
    <2>1. \A x \in Tabs \ (crossed' \cup {}) :
             \/ tab[x].shows = Nobody /\ requireActionUser' = Nobody
             \/ accessCookie'.of \in {Nobody, tab[x].shows}
      BY <1>1, MiddlewareStep
    <2>2. \A x \in Tabs \ crossed' : x \in Tabs \ (crossed' \cup {})
      OBVIOUS
    <2> QED
      BY <1>3, <2>1, <2>2 DEF CookiesOwn
  <1> QED
    BY <1>4, <1>5, <1>6 DEF WebInv

\* A tab signs in.
LEMMA SignInStep ==
  ASSUME WebInv, NEW t \in Tabs, NEW u \in People, signIn(t, u)
  PROVE  WebInv'
  <1>0. WebTypeOK
    BY DEF WebInv
  <1>1. hashes' \subseteq People /\ UNCHANGED sec
    BY <1>0 DEF signIn, WebTypeOK
  <1>2. CASE UNCHANGED <<accessCookie, refreshCookie, tab, crossed>>
    <2>1. requireActionUser' = requireActionUser
      BY <1>1, <1>2, SameUser
    <2> QED
      BY <1>1, <1>2, <2>1 DEF WebInv, WebTypeOK, BearersOwn, CookiesTogether, CookiesOwn
  <1>3. ASSUME setAuthCookies(u), Crosses(t),
               tab' = [tab EXCEPT ![t] = [shows |-> u, bearer |-> Token(u), at |-> "protected"]]
        PROVE  WebInv'
    <2>1. Token(u) \in Tokens /\ Token(u).of = u
      BY <1>0, TokenType DEF WebTypeOK
    <2>2. accessCookie' = Token(u) /\ refreshCookie' = Token(u) /\ crossed' = (crossed \cup (Tabs \ {t})) \ {t}
      BY <1>3 DEF setAuthCookies, Crosses
    <2>3. WebTypeOK' /\ CookiesTogether'
      BY <1>0, <1>1, <1>3, <2>1, <2>2 DEF WebTypeOK, CookiesTogether
    <2>4. BearersOwn'
      BY <1>0, <1>3, <2>1 DEF WebInv, WebTypeOK, BearersOwn
    <2>5. CookiesOwn'
      BY <1>0, <1>3, <2>1, <2>2 DEF WebTypeOK, CookiesOwn
    <2> QED
      BY <2>3, <2>4, <2>5 DEF WebInv
  <1> QED
    BY <1>2, <1>3 DEF signIn

\* A tab signs out.
LEMMA SignOutStep ==
  ASSUME WebInv, NEW t \in Tabs, signOut(t)
  PROVE  WebInv'
  <1>0. WebTypeOK
    BY DEF WebInv
  <1>1. hashes' \subseteq People /\ UNCHANGED sec
    BY <1>0 DEF signOut, WebTypeOK
  <1>2. tab' = [tab EXCEPT ![t] = [shows |-> Nobody, bearer |-> NoToken, at |-> "login"]]
    BY DEF signOut, signedOut
  <1>3. BearersOwn'
    BY <1>0, <1>2 DEF WebInv, WebTypeOK, BearersOwn
  <1>4. CASE UNCHANGED <<accessCookie, refreshCookie>> /\ crossed' = crossed \cup {t}
    <2>1. WebTypeOK' /\ CookiesTogether'
      BY <1>0, <1>1, <1>2, <1>4, TokenType DEF WebInv, WebTypeOK, CookiesTogether
    <2>2. CookiesOwn'
      BY <1>0, <1>1, <1>2, <1>4, SameUser DEF WebInv, WebTypeOK, CookiesOwn
    <2> QED
      BY <1>3, <2>1, <2>2 DEF WebInv
  <1>5. CASE clearAuthCookies /\ Crosses(t)
    <2>1. /\ accessCookie' = NoToken /\ refreshCookie' = NoToken /\ crossed' = (crossed \cup (Tabs \ {t})) \ {t}
          /\ NoToken.of = Nobody
      BY <1>5 DEF clearAuthCookies, Crosses, NoToken
    <2>2. WebTypeOK' /\ CookiesTogether'
      BY <1>0, <1>1, <1>2, <2>1, TokenType DEF WebTypeOK, CookiesTogether
    <2>3. CookiesOwn'
      BY <2>1 DEF CookiesOwn
    <2> QED
      BY <1>3, <2>2, <2>3 DEF WebInv
  <1> QED
    BY <1>4, <1>5 DEF signOut

\* A call is refused.
LEMMA UnauthorizedStep ==
  ASSUME WebInv, NEW t \in Tabs, onUnauthorized(t)
  PROVE  WebInv'
  <1>1. /\ tab' = [tab EXCEPT ![t].bearer = NoToken]
        /\ UNCHANGED <<sec, accessCookie, refreshCookie, hashes, crossed>>
    BY DEF onUnauthorized
  <1>2. requireActionUser' = requireActionUser
    BY <1>1, SameUser
  <1> QED
    BY <1>1, <1>2, TokenType DEF WebInv, WebTypeOK, BearersOwn, CookiesTogether, CookiesOwn

\* Every step preserves the invariant.
LEMMA WebStep == WebInv /\ [WebNext]_webVars => WebInv'
  <1>1. WebInv /\ UNCHANGED webVars => WebInv'
    BY SameUser DEF webVars, WebInv, WebTypeOK, BearersOwn, CookiesTogether, CookiesOwn
  <1> QED
    BY <1>1, SecondsStep, LoadStep, FollowStep, SignInStep, SignOutStep, UnauthorizedStep, Zenon DEF WebNext

\* A call of a tab, by its bearer token or by the cookies, acts as the user that the
\* tab shows or is refused, until another tab, a lost sign-out or a renewal behind a
\* signed-out page crosses it (withAuth, requireActionUser, AuthContext).
THEOREM TabsActAsShown == WebSpec => []CallsAsShown
  <1>1. WebInv => CallsAsShown
    <2> SUFFICES ASSUME WebInv, NEW t \in Tabs
                 PROVE  /\ UserOf(extractToken(t)) \in {Nobody, tab[t].shows} \/ (t \in crossed /\ tab[t].bearer = NoToken)
                        /\ requireActionUser \in {Nobody, tab[t].shows} \/ t \in crossed
      BY DEF CallsAsShown
    <2>0. /\ tab[t].bearer \in Tokens /\ accessCookie \in Tokens /\ NoToken \in Tokens /\ NoToken.of = Nobody
          /\ tab[t].bearer # NoToken => tab[t].bearer.of = tab[t].shows
      BY TokenType DEF WebInv, WebTypeOK, BearersOwn, NoToken
    <2>1. requireActionUser \in {Nobody, tab[t].shows} \/ t \in crossed
      BY <2>0, UserType DEF WebInv, CookiesOwn, requireActionUser
    <2>2. CASE tab[t].bearer # NoToken
      BY <2>0, <2>1, <2>2, UserType DEF extractToken
    <2>3. CASE tab[t].bearer = NoToken
      BY <2>0, <2>1, <2>3, UserType DEF extractToken, requireActionUser
    <2> QED
      BY <2>2, <2>3
  <1> QED
    BY <1>1, WebInitInv, WebStep, PTL DEF WebSpec

-----------------------------------------------------------------------------
\* EditForms: fields that the user has not touched, and records made twice

\* What the open form holds: untouched fields are shown as loaded, or empty; the
\* profile after a save has the answer's NULLs.
HoldsLoaded ==
    /\ step = "loading" => fields = EMPTY_FORM /\ blind = {} /\ presses = 0
    /\ editing /\ step # "loading" =>
         \A f \in Fields \ touched :
            \/ f \in blind /\ fields[f] = Blank
            \/ f \notin blind /\ fields[f] = Shown(base[f])
            \/ f \notin blind /\ form = Profile /\ fields[f] = "null"

\* Such NULLs are refused.
NoNullsSent == form = Profile /\ step = "record" => \A f \in Fields : fields[f] # "null"

\* A permission editor that could not load has nothing to save.
EditorLoaded == form = PermissionEditor /\ blind # {} => step = "left" /\ presses = 0

\* A form that has made its record does not make another, unless it was misled.
MadeOnce ==
    \/ misled \/ created = 0
    \/ created = 1 /\ step \in {"children", "left"}

FormInv ==
    /\ form \in Forms /\ (editing \/ form.creates)
    /\ DOMAIN fields = Fields /\ DOMAIN dbRecord = Fields
    /\ step = "children" => form.children \in {"after", "checked"}
    /\ HoldsLoaded /\ NoNullsSent /\ EditorLoaded /\ MadeOnce

\* The forms that stay open create no records and have no rows saved after them.
LEMMA FormFacts ==
    /\ \A x \in Forms : x.children \in {"after", "checked"} \/ x.creates => x \notin {Profile, SettingsPage, PermissionEditor}
    /\ Profile # SettingsPage /\ Profile # PermissionEditor /\ SettingsPage # PermissionEditor
    /\ PermissionEditor.children = "within" /\ Profile.children = "none" /\ SettingsPage.children = "none"
<1>1. Profile.has = {"name", "text", "strict"} /\ SettingsPage.has = {"name", "text"} /\ PermissionEditor.children = "within"
  BY DEF FormKind, Profile, SettingsPage, PermissionEditor
<1>2. Profile.children = "none" /\ SettingsPage.children = "none"
  BY DEF FormKind, Profile, SettingsPage
<1>3. ~Profile.creates /\ ~SettingsPage.creates /\ ~PermissionEditor.creates
  BY DEF FormKind, Profile, SettingsPage, PermissionEditor
<1> QED BY <1>1, <1>2, <1>3

\* A form opens empty, or about to load.
LEMMA FormInit == EditFormsInit => FormInv
<1> SUFFICES ASSUME EditFormsInit PROVE FormInv
  OBVIOUS
<1>1. DOMAIN fields = Fields /\ DOMAIN dbRecord = Fields
  BY DEF EditFormsInit, EMPTY_FORM, OldRecord
<1>2. HoldsLoaded
  BY DEF EditFormsInit, HoldsLoaded, EMPTY_FORM
<1>3. EditorLoaded /\ MadeOnce /\ NoNullsSent /\ step # "children"
  BY DEF EditFormsInit, EditorLoaded, MadeOnce, NoNullsSent
<1> QED BY <1>1, <1>2, <1>3 DEF FormInv, EditFormsInit

\* What a save may write into a field that the user has not touched.
MayWrite(f) ==
    \/ f \notin blind /\ dbRecord'[f] = Shown(base[f])
    \/ f \in blind /\ dbRecord'[f] = Blank /\ form \notin {Profile, SettingsPage, PermissionEditor}
    \/ f = "currency" /\ dbRecord'[f] = "default"

\* A call of the form writes no more.
LEMMA SavesTouched ==
    ASSUME FormInv, editing, saveRecord \/ saveChildren,
           NEW f \in Fields, dbRecord'[f] # dbRecord[f], f \notin touched
    PROVE  MayWrite(f)
<1>1. /\ step \in {"record", "children"}
      /\ \/ f \in blind /\ fields[f] = Blank
         \/ f \notin blind /\ fields[f] = Shown(base[f])
         \/ f \notin blind /\ form = Profile /\ fields[f] = "null"
  BY DEF saveRecord, saveChildren, FormInv, HoldsLoaded
<1>2. CASE saveRecord /\ f # "currency"
  <2>1. taken(f) /\ dbRecord'[f] = fields[f] /\ step = "record"
    BY <1>2 DEF saveRecord, submitted
  <2>2. ~(form = Profile /\ fields[f] = "null")
    BY <2>1 DEF FormInv, NoNullsSent
  <2>3. f \in blind => form \notin {Profile, SettingsPage, PermissionEditor}
    BY <1>1, <2>1 DEF taken, FormInv, EditorLoaded
  <2> QED BY <1>1, <2>1, <2>2, <2>3 DEF MayWrite
<1>3. CASE saveRecord /\ f = "currency"
  BY <1>3 DEF saveRecord, submitted, MayWrite
<1>4. CASE saveChildren
  <2>1. step = "children" /\ form \notin {Profile, SettingsPage, PermissionEditor}
    BY <1>4, FormFacts DEF saveChildren, FormInv
  <2>2. dbRecord'[f] = fields[f]
    BY <1>4 DEF saveChildren, FormInv
  <2> QED BY <1>1, <2>1, <2>2 DEF MayWrite
<1> QED BY <1>2, <1>3, <1>4

\* Loading fills the form with what is stored, as far as it can.
LEMMA LoadingFills ==
    ASSUME FormInv, loadForm \/ loadWithoutDays
    PROVE  FormInv'
<1>1. /\ step = "loading" /\ fields = EMPTY_FORM /\ blind = {} /\ presses = 0
      /\ UNCHANGED <<form, created, editing, dbRecord, touched, presses, misled>>
      /\ step' \in {"open", "left"}
  BY DEF loadForm, loadWithoutDays, FormInv, HoldsLoaded
<1>2. MadeOnce' /\ NoNullsSent'
  BY <1>1 DEF FormInv, MadeOnce, NoNullsSent
<1>3. \A f \in Fields : filled(dbRecord)[f] = Shown(dbRecord[f]) /\ Shown(dbRecord[f])' = Shown(dbRecord[f])
  BY <1>1 DEF filled, Shown
<1>4. CASE loadForm
  <2>1. \/ fields' = filled(dbRecord) /\ base' = dbRecord /\ blind' = blind
        \/ /\ fields' = fields /\ blind' = Fields
           /\ form = PermissionEditor => step' = "left"
    BY <1>4 DEF loadForm
  <2>2. DOMAIN fields' = Fields
    BY <2>1 DEF FormInv, filled
  <2>3. HoldsLoaded'
    <3>1. ASSUME fields' = filled(dbRecord), base' = dbRecord, blind' = blind, NEW f \in Fields
          PROVE  f \notin blind' /\ fields'[f] = Shown(base[f])'
      BY <1>1, <1>3, <3>1 DEF Shown
    <3>2. ASSUME fields' = fields, blind' = Fields, NEW f \in Fields
          PROVE  f \in blind' /\ fields'[f] = Blank
      BY <1>1, <3>2 DEF EMPTY_FORM
    <3> QED BY <1>1, <2>1, <3>1, <3>2 DEF HoldsLoaded
  <2>4. EditorLoaded'
    BY <1>1, <2>1 DEF EditorLoaded
  <2> QED BY <1>1, <1>2, <2>2, <2>3, <2>4 DEF FormInv
<1>5. CASE loadWithoutDays
  <2>1. /\ fields' = [filled(dbRecord) EXCEPT !["children"] = Blank] /\ base' = dbRecord
        /\ blind' = {"children"} /\ form.children = "checked"
    BY <1>5 DEF loadWithoutDays
  <2>2. DOMAIN fields' = Fields /\ fields'["children"] = Blank
        /\ \A f \in Fields \ {"children"} : fields'[f] = filled(dbRecord)[f]
    BY <2>1 DEF filled, Fields
  <2>3. HoldsLoaded'
    <3>1. ASSUME NEW f \in Fields \ {"children"} PROVE f \notin blind' /\ fields'[f] = Shown(base[f])'
      BY <1>1, <1>3, <2>1, <2>2 DEF Shown
    <3> QED BY <1>1, <2>1, <2>2, <3>1 DEF HoldsLoaded
  <2>4. EditorLoaded'
    BY <1>1, <2>1, FormFacts DEF EditorLoaded, FormInv
  <2> QED BY <1>1, <1>2, <2>2, <2>3, <2>4 DEF FormInv
<1> QED BY <1>4, <1>5

\* What the user types into a field makes it touched.
LEMMA TypingTouches ==
    ASSUME FormInv, NEW f \in Fields, setField(f)
    PROVE  FormInv'
<1>1. /\ step = "open" /\ touched' = touched \cup {f}
      /\ UNCHANGED <<form, created, editing, step, dbRecord, base, blind, presses, misled>>
      /\ \E value : fields' = [fields EXCEPT ![f] = value]
  BY DEF setField
<1>2. DOMAIN fields' = Fields /\ \A g \in Fields \ {f} : fields'[g] = fields[g]
  BY <1>1 DEF FormInv
<1>3. HoldsLoaded'
  BY <1>1, <1>2 DEF FormInv, HoldsLoaded, Shown
<1> QED BY <1>1, <1>2, <1>3 DEF FormInv, EditorLoaded, MadeOnce, NoNullsSent

\* The steps that leave what the form holds.
LEMMA HeldFields ==
    ASSUME FormInv, UNCHANGED <<form, editing, fields, base, touched, blind>>,
           DOMAIN dbRecord' = Fields,
           step # "loading", step' # "loading",
           step' = "record" => Valid,
           form = PermissionEditor /\ blind # {} => step' = "left" /\ presses' = 0,
           step' = "children" => form.children \in {"after", "checked"},
           MadeOnce'
    PROVE  FormInv'
<1>1. HoldsLoaded'
  BY DEF FormInv, HoldsLoaded, Shown
<1>2. NoNullsSent'
  BY DEF NoNullsSent, Valid
<1> QED BY <1>1, <1>2 DEF FormInv, EditorLoaded

\* The answer of a save is shown as it is, or as a load would be.
LEMMA AnswerShown ==
    ASSUME FormInv, showAnswer, UNCHANGED <<form, editing>>, DOMAIN dbRecord' = Fields,
           step' # "loading"
    PROVE  /\ DOMAIN fields' = Fields /\ HoldsLoaded' /\ blind' = {}
<1>1. /\ form \in {Profile, SettingsPage} /\ base' = dbRecord' /\ touched' = {} /\ blind' = {}
      /\ fields' = IF form = Profile THEN dbRecord' ELSE filled(dbRecord')
  BY DEF showAnswer
<1>2. ASSUME NEW f \in Fields
      PROVE  fields'[f] = Shown(base[f])' \/ (form' = Profile /\ fields'[f] = "null")
  <2>1. Shown(base[f])' = Shown(dbRecord'[f])
    BY <1>1 DEF Shown
  <2>2. form = Profile /\ fields'[f] # "null" => Shown(dbRecord'[f]) = fields'[f]
    BY <1>1 DEF Shown
  <2>3. form = SettingsPage => fields'[f] = Shown(dbRecord'[f])
    BY <1>1, FormFacts DEF filled
  <2> QED BY <1>1, <2>1, <2>2, <2>3
<1>3. DOMAIN fields' = Fields
  BY <1>1 DEF filled
<1> QED BY <1>1, <1>2, <1>3 DEF HoldsLoaded

\* Saving the record keeps the invariant, with its answer or without.
LEMMA RecordKeeps == ASSUME FormInv, saveRecord PROVE FormInv'
<1>1. /\ step = "record" /\ step' \in {"children", "open", "left"}
      /\ step' = "children" => form.children \in {"after", "checked"}
      /\ step' = "open" => StaysOpen
      /\ DOMAIN dbRecord' = Fields
      /\ created' = IF editing THEN created ELSE created + 1
      /\ UNCHANGED <<form, editing, presses>>
  BY DEF saveRecord
<1>5. \/ showAnswer
      \/ misled' = (misled \/ form \in {Profile, SettingsPage}) /\ UNCHANGED <<fields, base, touched, blind>>
  BY Zenon DEF saveRecord
<1>6. misled => misled'
  BY <1>5, Zenon DEF showAnswer
<1>2. MadeOnce'
  <2>1. CASE editing
    BY <1>1, <1>6, <2>1 DEF FormInv, MadeOnce
  <2>2. CASE ~editing
    <3>1. step' # "open"
      BY <1>1, <2>2, FormFacts DEF FormInv, StaysOpen
    <3> QED BY <1>1, <1>6, <2>2, <3>1 DEF FormInv, MadeOnce
  <2> QED BY <2>1, <2>2
<1>3. CASE UNCHANGED <<fields, base, touched, blind>>
  BY <1>1, <1>2, <1>3, HeldFields DEF FormInv, EditorLoaded
<1>4. CASE showAnswer
  <2>1. DOMAIN fields' = Fields /\ HoldsLoaded' /\ blind' = {}
    BY <1>1, <1>4, AnswerShown
  <2>2. NoNullsSent' /\ EditorLoaded'
    BY <1>1, <2>1 DEF NoNullsSent, EditorLoaded
  <2> QED BY <1>1, <1>2, <2>1, <2>2 DEF FormInv
<1> QED BY <1>3, <1>4, <1>5

\* A call of the form keeps the invariant, whatever it does.
LEMMA CallsKeep ==
    ASSUME FormInv, submitForm \/ formFails \/ saveChildren
    PROVE  FormInv'
<1>1. CASE submitForm
  <2>1. /\ step = "open" /\ step' = "record" /\ dbRecord' = dbRecord /\ Valid
        /\ UNCHANGED <<form, created, editing, fields, base, touched, blind, misled>>
    BY <1>1 DEF submitForm
  <2>2. MadeOnce'
    BY <2>1 DEF FormInv, MadeOnce
  <2> QED BY <2>1, <2>2, HeldFields DEF FormInv, EditorLoaded
<1>2. CASE formFails
  <2>1. /\ step # "loading" /\ step' = "open" /\ dbRecord' = dbRecord
        /\ misled' = (misled \/ step # "record")
        /\ step = "left" => presses > 0
        /\ UNCHANGED <<form, created, editing, fields, base, touched, blind, presses>>
    BY <1>2 DEF formFails
  <2>2. MadeOnce'
    BY <2>1, Zenon DEF FormInv, MadeOnce
  <2>3. ~(form = PermissionEditor /\ blind # {})
    BY <2>1 DEF FormInv, EditorLoaded
  <2> QED BY <2>1, <2>2, <2>3, HeldFields DEF FormInv
<1>3. CASE saveChildren
  <2>1. /\ step = "children" /\ step' \in {"left", "open"}
        /\ step' = "open" => misled'
        /\ step' = "left" => misled' = misled
        /\ DOMAIN dbRecord' = Fields
        /\ UNCHANGED <<form, created, editing, fields, base, touched, blind, presses>>
    BY <1>3 DEF saveChildren, FormInv
  <2>2. MadeOnce'
    <3>1. CASE step' = "open"
      BY <2>1, <3>1 DEF MadeOnce
    <3>2. CASE step' = "left"
      <4>1. misled \/ created = 0 \/ created = 1
        BY DEF FormInv, MadeOnce
      <4>2. misled' = misled /\ created' = created
        BY <2>1, <3>2
      <4> QED BY <3>2, <4>1, <4>2 DEF MadeOnce
    <3> QED BY <2>1, <3>1, <3>2
  <2>3. ~(form = PermissionEditor /\ blind # {})
    BY <2>1 DEF FormInv, EditorLoaded
  <2> QED BY <2>1, <2>2, <2>3, HeldFields DEF FormInv
<1> QED BY <1>1, <1>2, <1>3

\* The invariant holds step by step.
LEMMA FormStep == FormInv /\ [EditFormsNext]_formVars => FormInv'
<1> SUFFICES ASSUME FormInv, [EditFormsNext]_formVars PROVE FormInv'
  OBVIOUS
<1>1. ASSUME NEW f \in Fields, savedByOthers(f) PROVE FormInv'
  <2>1. DOMAIN dbRecord' = Fields
        /\ UNCHANGED <<form, created, editing, step, fields, base, touched, blind, presses, misled>>
    BY <1>1 DEF savedByOthers, FormInv
  <2> QED BY <2>1 DEF FormInv, HoldsLoaded, NoNullsSent, EditorLoaded, MadeOnce, Shown
<1>2. CASE UNCHANGED formVars
  BY <1>2 DEF formVars, FormInv, HoldsLoaded, NoNullsSent, EditorLoaded, MadeOnce, Shown
<1> QED BY <1>1, <1>2, LoadingFills, TypingTouches, RecordKeeps, CallsKeep DEF EditFormsNext

\* A save writes into a field that the user did not touch what the form shows of the
\* loaded value, '' where it could not be loaded, or the agency's currency; and one
\* form makes one record, unless it told of an error (views/admin/*/*Form.jsx: the
\* load effect, handleSubmit; the actions that save the record and its rows).
THEOREM FormsKeepUntouched == EditFormsSpec => UntouchedKept
<1> DEFINE Untouched == \A f \in Fields \ touched :
                            editing /\ step # step' /\ dbRecord'[f] # dbRecord[f] => MayWrite(f)
<1>1. FormInv /\ [EditFormsNext]_formVars => [Untouched]_formVars
  <2> SUFFICES ASSUME FormInv, EditFormsNext PROVE Untouched
    OBVIOUS
  <2>1. CASE saveRecord \/ saveChildren
    BY <2>1, SavesTouched
  <2>2. CASE dbRecord' = dbRecord \/ step' = step
    BY <2>2
  <2> QED BY <2>1, <2>2 DEF EditFormsNext, loadForm, loadWithoutDays, submitForm, formFails,
                            setField, savedByOthers
<1>2. FormInv => created <= 1 \/ misled
  BY DEF FormInv, MadeOnce
<1> QED BY <1>1, <1>2, FormInit, FormStep, PTL DEF EditFormsSpec, UntouchedKept, MayWrite

-----------------------------------------------------------------------------
\* The checkout page

Callers == {"page", "left", "nobody"}

CallType ==
    [kind : {"create"}, of : Selections, by : Callers]
        \cup [kind : {"charge"}, of : Orders, by : Callers]

OrderType == [is : {"none", "live", "gone"}, of : Selections \cup {NoSelection}, charges : Nat]

CheckoutTypeOK ==
    /\ sent \subseteq CallType
    /\ order \in [Orders -> OrderType]
    /\ stored \in Selections \cup {NoSelection} /\ shown \in Selections \cup {NoSelection}
    /\ failed \in Orders \cup {NoOrder} /\ pushed \in Orders \cup {NoOrder}
    /\ submitting \in BOOLEAN

\* Only the checkout page has a state, and its spinning button is its one call.
PageOfCalls ==
    /\ screen # "checkout" => shown = NoSelection /\ ~submitting /\ failed = NoOrder
    /\ \A x \in sent : x.by = "page" => submitting
    /\ \A x, y \in sent : x.by = "page" /\ y.by = "page" => x = y

ChargeUnderWay == \E x \in sent : x.kind = "charge" /\ x.by = "page"

\* A selection under way is the page's and is not booked; once it is booked, its
\* draft is gone, and its page charges it, has failed to, or is on its way.
SelectionOnce ==
    \A s \in Selections \ excused :
        /\ \A x \in sent : x.kind = "create" /\ x.of = s =>
               x.by = "page" /\ shown = s /\ \A o \in Orders : o \notin OrdersOf(s)
        /\ \A o \in OrdersOf(s) :
               /\ stored # s
               /\ shown = s => ChargeUnderWay \/ failed # NoOrder \/ pushed # NoOrder
        /\ \A o, p \in OrdersOf(s) : o = p

\* One charge of a booking is under way at a time, and of the one that has failed
\* only the page's.
ChargedSingly ==
    /\ \A x, y \in sent : x.kind = "charge" /\ y.kind = "charge" /\ x.of = y.of => x = y
    /\ \A x \in sent : x.kind = "charge" =>
           order[x.of].is # "none" /\ (failed = x.of => x.by = "page")
    /\ failed # NoOrder => order[failed].is # "none"

\* A booking that can still be charged by the page has not been.
NotYetCharged ==
    \A o \in Orders \ excused :
        /\ order[o].charges <= 1
        /\ failed = o \/ (\E x \in sent : x.kind = "charge" /\ x.of = o) => order[o].charges = 0

\* The confirmation page, and the way to it, are of a booking that is paid.
ConfirmsPaid ==
    /\ \A o \in Orders : order[o].is = "none" => order[o].charges = 0
    /\ pushed # NoOrder => order[pushed].charges > 0
    /\ screen = "confirmation" => confirmed \in Orders /\ order[confirmed].charges > 0

CheckoutInv ==
    CheckoutTypeOK /\ PageOfCalls /\ SelectionOnce /\ ChargedSingly /\ NotYetCharged /\ ConfirmsPaid

\* What a call under way is.
LEMMA CallFacts ==
    ASSUME CheckoutTypeOK, NEW x \in sent
    PROVE  /\ x \in CallType /\ x.by \in Callers
           /\ \/ x.kind = "create" /\ x.of \in Selections
              \/ x.kind = "charge" /\ x.of \in Orders
<1>1. x \in CallType
  BY DEF CheckoutTypeOK
<1>2. CASE x \in [kind : {"create"}, of : Selections, by : Callers]
  BY <1>1, <1>2
<1>3. CASE x \in [kind : {"charge"}, of : Orders, by : Callers]
  BY <1>1, <1>3
<1> QED BY <1>1, <1>2, <1>3 DEF CallType

\* Leaving the page: its calls lose it, and what it was creating is excused.
LEMMA UnmountKeeps ==
    ASSUME CheckoutInv, NEW by \in {"left", "nobody"}, Unmount(by), screen' # "checkout",
           pushed' \in {pushed, NoOrder},
           screen' = "confirmation" => pushed # NoOrder /\ confirmed' = pushed
    PROVE  CheckoutInv'
<1> USE CheckoutAssumption
<1> DEFINE Moved(x) == [x EXCEPT !.by = IF x.by = "page" \/ by = "nobody" THEN by ELSE x.by]
<1>1. /\ shown' = NoSelection /\ submitting' = FALSE /\ failed' = NoOrder
      /\ sent' = {Moved(x) : x \in sent}
      /\ excused \subseteq excused' /\ (Creating(shown) => shown \in excused')
      /\ UNCHANGED <<stored, order>>
  BY DEF Unmount
<1>2. \A x \in sent : /\ Moved(x) \in CallType /\ Moved(x).kind = x.kind /\ Moved(x).of = x.of
                      /\ Moved(x).by # "page"
  <2> SUFFICES ASSUME NEW x \in sent
               PROVE  /\ Moved(x) \in CallType /\ Moved(x).kind = x.kind /\ Moved(x).of = x.of
                      /\ Moved(x).by # "page"
    OBVIOUS
  <2> QED BY CallFacts DEF CheckoutInv, CallType, Callers
<1>3. \A y \in sent' : \E x \in sent : y = Moved(x)
  BY <1>1
<1> HIDE DEF Moved
<1>4. CheckoutTypeOK'
  <2>1. sent' \subseteq CallType
    BY <1>2, <1>3
  <2> QED BY <1>1, <2>1 DEF CheckoutInv, CheckoutTypeOK
<1>5. PageOfCalls'
  BY <1>1, <1>2, <1>3 DEF PageOfCalls
<1>6. SelectionOnce'
  <2> SUFFICES ASSUME NEW s \in Selections \ excused'
               PROVE  /\ \A y \in sent' : ~(y.kind = "create" /\ y.of = s)
                      /\ \A o \in OrdersOf(s)' : stored' # s /\ shown' # s
                      /\ \A o, p \in OrdersOf(s)' : o = p
    BY DEF SelectionOnce
  <2>1. s \in Selections \ excused /\ OrdersOf(s)' = OrdersOf(s)
    BY <1>1 DEF OrdersOf
  <2>2. ASSUME NEW y \in sent', y.kind = "create", y.of = s PROVE FALSE
    <3>1. PICK x \in sent : y = Moved(x)
      BY <1>3
    <3>2. x.kind = "create" /\ x.of = s
      BY <1>2, <2>2, <3>1
    <3>3. shown = s
      BY <2>1, <3>2 DEF CheckoutInv, SelectionOnce
    <3> QED BY <1>1, <3>2, <3>3 DEF Creating
  <2> QED BY <1>1, <2>1, <2>2 DEF CheckoutInv, SelectionOnce
<1>7. ChargedSingly'
  <2>1. ASSUME NEW y \in sent', NEW z \in sent', y.kind = "charge", z.kind = "charge", y.of = z.of
        PROVE  y = z
    <3>1. PICK x \in sent, w \in sent : y = Moved(x) /\ z = Moved(w)
      BY <1>3
    <3>2. x = w
      BY <1>2, <2>1, <3>1 DEF CheckoutInv, ChargedSingly
    <3> QED BY <3>1, <3>2
  <2>2. ASSUME NEW y \in sent', y.kind = "charge"
        PROVE  order'[y.of].is # "none" /\ failed' # y.of
    <3>1. PICK x \in sent : y = Moved(x)
      BY <1>3
    <3>2. x.kind = "charge" /\ x.of = y.of /\ x.of \in Orders
      BY <1>2, <2>2, <3>1, CallFacts DEF CheckoutInv
    <3> QED BY <1>1, <3>2 DEF CheckoutInv, ChargedSingly
  <2> QED BY <1>1, <2>1, <2>2 DEF ChargedSingly
<1>8. NotYetCharged'
  <2> SUFFICES ASSUME NEW o \in Orders \ excused'
               PROVE  /\ order'[o].charges <= 1
                      /\ (\E y \in sent' : y.kind = "charge" /\ y.of = o) => order'[o].charges = 0
    BY <1>1 DEF NotYetCharged
  <2>1. (\E y \in sent' : y.kind = "charge" /\ y.of = o) => \E x \in sent : x.kind = "charge" /\ x.of = o
    BY <1>2, <1>3
  <2> QED BY <1>1, <2>1 DEF CheckoutInv, NotYetCharged
<1>9. ConfirmsPaid'
  BY <1>1 DEF CheckoutInv, ConfirmsPaid, CheckoutTypeOK
<1> QED BY <1>4, <1>5, <1>6, <1>7, <1>8, <1>9 DEF CheckoutInv

\* Choosing a selection and opening the page.
LEMMA DraftKeeps ==
    ASSUME CheckoutInv, (\E s \in Selections : saveCheckoutDraft(s)) \/ mountCheckout
    PROVE  CheckoutInv'
<1> USE CheckoutAssumption
<1>1. /\ UNCHANGED <<confirmed, pushed, submitting, failed, sent, order, excused>>
      /\ screen = "hotel" /\ screen' \in {"hotel", "checkout"}
      /\ shown = NoSelection /\ ~submitting /\ failed = NoOrder
  BY DEF saveCheckoutDraft, mountCheckout, pageVars, CheckoutInv, PageOfCalls
<1>2. \A s : OrdersOf(s)' = OrdersOf(s)
  BY <1>1 DEF OrdersOf
<1>3. \A x \in sent : x.by # "page"
  BY <1>1 DEF CheckoutInv, PageOfCalls
<1>4. ASSUME NEW s \in Selections, saveCheckoutDraft(s) PROVE CheckoutInv'
  <2>1. stored' = s /\ shown' = shown /\ screen' = screen /\ OrdersOf(s) = {}
    BY <1>4 DEF saveCheckoutDraft, pageVars
  <2>2. SelectionOnce'
    BY <1>1, <1>2, <1>3, <2>1 DEF CheckoutInv, SelectionOnce, ChargeUnderWay
  <2> QED BY <1>1, <2>1, <2>2 DEF CheckoutInv, CheckoutTypeOK, PageOfCalls, ChargedSingly,
                                  NotYetCharged, ConfirmsPaid
<1>5. CASE mountCheckout
  <2>1. stored' = stored /\ shown' = stored /\ screen' = "checkout"
    BY <1>5 DEF mountCheckout
  <2>2. SelectionOnce'
    BY <1>1, <1>2, <1>3, <2>1 DEF CheckoutInv, SelectionOnce, ChargeUnderWay
  <2> QED BY <1>1, <2>1, <2>2 DEF CheckoutInv, CheckoutTypeOK, PageOfCalls, ChargedSingly,
                                  NotYetCharged, ConfirmsPaid
<1> QED BY <1>4, <1>5

\* A press of the button: the page has no other call.
LEMMA PressKeeps ==
    ASSUME CheckoutInv, handleSubmit \/ handleRetryPayment
    PROVE  CheckoutInv'
<1> USE CheckoutAssumption
<1> DEFINE of == IF failed = NoOrder THEN shown ELSE failed
           kind == IF failed = NoOrder THEN "create" ELSE "charge"
           new == [kind |-> kind, of |-> of, by |-> "page"]
<1>1. /\ UNCHANGED <<stored, screen, confirmed, pushed, shown, failed, order>>
      /\ screen = "checkout" /\ ~submitting /\ submitting' = TRUE
      /\ sent' = sent \cup {new} /\ excused \subseteq excused'
      /\ failed = NoOrder => shown \in Selections /\ (pushed # NoOrder => shown \in excused')
  BY DEF handleSubmit, handleRetryPayment, CheckoutInv, CheckoutTypeOK
<1>2. new.kind = kind /\ new.of = of /\ new.by = "page" /\ new \in CallType
  <2>1. CASE failed = NoOrder
    BY <1>1, <2>1 DEF CallType, Callers
  <2>2. CASE failed # NoOrder
    BY <2>2 DEF CallType, Callers, CheckoutInv, CheckoutTypeOK
  <2> QED BY <2>1, <2>2
<1>3. /\ failed = NoOrder => kind = "create" /\ of = shown
      /\ failed # NoOrder => kind = "charge" /\ of = failed /\ failed \in Orders
  BY DEF CheckoutInv, CheckoutTypeOK
<1> HIDE DEF new, kind, of
<1>4. \A x \in sent : x.by # "page"
  BY <1>1 DEF CheckoutInv, PageOfCalls
<1>5. \A x \in sent' : x \in sent \/ x = new
  BY <1>1
<1>6. CheckoutTypeOK'
  BY <1>1, <1>2 DEF CheckoutInv, CheckoutTypeOK
<1>7. PageOfCalls'
  BY <1>1, <1>4, <1>5 DEF PageOfCalls
<1>8. SelectionOnce'
  <2> SUFFICES ASSUME NEW s \in Selections \ excused'
               PROVE  /\ \A x \in sent' : x.kind = "create" /\ x.of = s =>
                             x.by = "page" /\ shown' = s /\ \A o \in Orders : o \notin OrdersOf(s)'
                      /\ \A o \in OrdersOf(s)' :
                             /\ stored' # s
                             /\ shown' = s => ChargeUnderWay' \/ failed' # NoOrder \/ pushed' # NoOrder
                      /\ \A o, p \in OrdersOf(s)' : o = p
    BY DEF SelectionOnce
  <2>1. s \in Selections \ excused /\ OrdersOf(s)' = OrdersOf(s)
    BY <1>1 DEF OrdersOf
  <2>2. \A x \in sent : ~(x.kind = "create" /\ x.of = s)
    BY <1>4, <2>1 DEF CheckoutInv, SelectionOnce
  <2>3. \A o \in OrdersOf(s) : /\ stored # s
                               /\ shown = s => failed # NoOrder \/ pushed # NoOrder
    BY <1>4, <2>1 DEF CheckoutInv, SelectionOnce, ChargeUnderWay
  <2>4. ASSUME new.kind = "create", new.of = s PROVE shown' = s /\ \A o \in Orders : o \notin OrdersOf(s)
    <3>1. failed = NoOrder /\ shown = s /\ pushed = NoOrder
      BY <1>1, <1>2, <1>3, <2>4
    <3> QED BY <1>1, <2>3, <3>1
  <2>5. \A o, p \in OrdersOf(s) : o = p
    BY <2>1 DEF CheckoutInv, SelectionOnce
  <2> QED BY <1>1, <1>2, <1>5, <2>1, <2>2, <2>3, <2>4, <2>5
<1>9. ASSUME NEW x \in sent, new.kind = "charge", x.kind = "charge" PROVE x.of # new.of
  BY <1>2, <1>3, <1>4, <1>9 DEF CheckoutInv, ChargedSingly
<1>10. ASSUME new.kind = "charge" PROVE new.of = failed /\ failed \in Orders /\ failed # NoOrder
  BY <1>2, <1>3, <1>10
<1>11. ChargedSingly'
  BY <1>1, <1>2, <1>5, <1>9, <1>10 DEF CheckoutInv, ChargedSingly
<1>12. NotYetCharged'
  BY <1>1, <1>5, <1>10 DEF CheckoutInv, NotYetCharged
<1>13. ConfirmsPaid'
  BY <1>1 DEF CheckoutInv, ConfirmsPaid
<1> QED BY <1>6, <1>7, <1>8, <1>11, <1>12, <1>13 DEF CheckoutInv

\* At the start nothing is booked.
LEMMA InitCheckout == CheckoutInit => CheckoutInv
<1> SUFFICES ASSUME CheckoutInit PROVE CheckoutInv
  OBVIOUS
<1> USE CheckoutAssumption
<1>1. \A o \in Orders : order[o].is = "none" /\ order[o].charges = 0
  BY DEF CheckoutInit
<1>2. order \in [Orders -> OrderType]
  BY DEF CheckoutInit, OrderType
<1>3. \A s : OrdersOf(s) = {}
  BY <1>1 DEF OrdersOf
<1>4. CheckoutTypeOK
  BY <1>2 DEF CheckoutInit, CheckoutTypeOK
<1>5. SelectionOnce
  BY <1>3 DEF CheckoutInit, SelectionOnce
<1>6. PageOfCalls /\ ChargedSingly
  BY DEF CheckoutInit, PageOfCalls, ChargedSingly
<1>7. NotYetCharged /\ ConfirmsPaid
  BY <1>1 DEF CheckoutInit, NotYetCharged, ConfirmsPaid
<1> QED BY <1>4, <1>5, <1>6, <1>7 DEF CheckoutInv

\* What a create call finds: the booking it makes has neither charge nor failure.
LEMMA CreateFacts ==
    ASSUME CheckoutInv, NEW x \in sent, NEW o \in Orders, x.kind = "create", order[o].is = "none"
    PROVE  /\ x.of \in Selections
           /\ \A y \in sent : y.kind = "charge" => y.of # o
           /\ failed # o /\ pushed # o /\ order[o].charges = 0
           /\ screen = "confirmation" => confirmed # o
           /\ \A s : o \notin OrdersOf(s)
  <1>1. x.of \in Selections
    BY CallFacts DEF CheckoutInv
  <1>2. failed # o /\ \A y \in sent : y.kind = "charge" => y.of # o
    BY CheckoutAssumption DEF CheckoutInv, ChargedSingly
  <1>3. order[o].charges = 0 /\ pushed # o /\ (screen = "confirmation" => confirmed # o)
    BY CheckoutAssumption DEF CheckoutInv, ConfirmsPaid
  <1> QED BY <1>1, <1>2, <1>3 DEF OrdersOf

\* The booking is made, and its answer starts the payment.
LEMMA AnsweredKeeps ==
    ASSUME CheckoutInv, NEW x \in sent, NEW o \in Orders, x.kind = "create", order[o].is = "none",
           order' = [order EXCEPT ![o] = [is |-> "live", of |-> x.of, charges |-> 0]],
           stored' = clearCheckoutDraft,
           sent' = (sent \ {x}) \cup {[kind |-> "charge", of |-> o, by |-> x.by]},
           UNCHANGED <<pageVars, excused>>
    PROVE  CheckoutInv'
<1> USE CheckoutAssumption
<1> DEFINE new == [kind |-> "charge", of |-> o, by |-> x.by]
<1>1. /\ UNCHANGED <<screen, confirmed, pushed, shown, submitting, failed, excused>>
      /\ stored' = NoSelection
      /\ \A y \in sent' : y = new \/ (y \in sent /\ y # x)
      /\ \A y \in sent : y # x => y \in sent'
      /\ new \in sent'
  BY DEF pageVars, clearCheckoutDraft
<1>2. /\ new.kind = "charge" /\ new.of = o /\ new.by = x.by /\ new \in CallType
  BY CallFacts DEF CheckoutInv, CallType
<1> HIDE DEF new
<1>3. /\ order[o] \in OrderType /\ order'[o] = [is |-> "live", of |-> x.of, charges |-> 0]
      /\ \A p \in Orders : p # o => order'[p] = order[p]
  BY DEF CheckoutInv, CheckoutTypeOK
<1>4. /\ x.of \in Selections
      /\ \A y \in sent : y.kind = "charge" => y.of # o
      /\ failed # o /\ pushed # o
      /\ screen = "confirmation" => confirmed # o
      /\ \A s : o \notin OrdersOf(s)
  BY CreateFacts
<1>5. CheckoutTypeOK'
  <2>1. order' \in [Orders -> OrderType]
    <3>1. [is |-> "live", of |-> x.of, charges |-> 0] \in OrderType
      BY <1>4 DEF OrderType
    <3> QED BY <3>1 DEF CheckoutInv, CheckoutTypeOK
  <2>2. sent' \subseteq CallType
    BY <1>1, <1>2 DEF CheckoutInv, CheckoutTypeOK
  <2> QED BY <1>1, <2>1, <2>2 DEF CheckoutInv, CheckoutTypeOK
<1>6. PageOfCalls'
  BY <1>1, <1>2 DEF CheckoutInv, PageOfCalls
<1>7. ChargeUnderWay => ChargeUnderWay'
  BY <1>1 DEF ChargeUnderWay
<1>8. SelectionOnce'
  <2> SUFFICES ASSUME NEW s \in Selections \ excused'
               PROVE  /\ \A y \in sent' : y.kind = "create" /\ y.of = s =>
                             y.by = "page" /\ shown' = s /\ \A p \in Orders : p \notin OrdersOf(s)'
                      /\ \A p \in OrdersOf(s)' :
                             /\ stored' # s
                             /\ shown' = s => ChargeUnderWay' \/ failed' # NoOrder \/ pushed' # NoOrder
                      /\ \A p, q \in OrdersOf(s)' : p = q
    BY DEF SelectionOnce
  <2>1. s \in Selections \ excused /\ stored' # s
    BY <1>1
  <2>2. CASE s = x.of
    <3>1. x.by = "page" /\ shown = s /\ \A p \in Orders : p \notin OrdersOf(s)
      BY <2>1, <2>2 DEF CheckoutInv, SelectionOnce
    <3>2. \A p \in OrdersOf(s)' : p = o
      BY <1>3, <3>1 DEF OrdersOf
    <3>3. ASSUME NEW y \in sent', y.kind = "create", y.of = s PROVE FALSE
      <4>1. y \in sent /\ y # x /\ y.by = "page"
        BY <1>1, <1>2, <2>1, <3>3 DEF CheckoutInv, SelectionOnce
      <4> QED BY <3>1, <4>1 DEF CheckoutInv, PageOfCalls
    <3>4. ChargeUnderWay'
      BY <1>1, <1>2, <3>1 DEF ChargeUnderWay
    <3> QED BY <2>1, <3>2, <3>3, <3>4
  <2>3. CASE s # x.of
    <3>1. OrdersOf(s)' = OrdersOf(s)
      BY <1>3, <1>4, <2>3 DEF OrdersOf
    <3>2. \A y \in sent' : y.kind = "create" => y \in sent
      BY <1>1, <1>2
    <3> QED BY <1>1, <1>7, <2>1, <3>1, <3>2 DEF CheckoutInv, SelectionOnce
  <2> QED BY <2>2, <2>3
<1>9. ChargedSingly'
  BY <1>1, <1>2, <1>3, <1>4 DEF CheckoutInv, ChargedSingly
<1>10. NotYetCharged'
  BY <1>1, <1>2, <1>3, <1>4 DEF CheckoutInv, NotYetCharged
<1>11. ConfirmsPaid'
  BY <1>1, <1>3, <1>4 DEF CheckoutInv, ConfirmsPaid, CheckoutTypeOK
<1> QED BY <1>5, <1>6, <1>8, <1>9, <1>10, <1>11 DEF CheckoutInv

\* A create call without an answer: lost, when the booking is made all the same,
\* or refused.
LEMMA UnansweredKeeps ==
    ASSUME CheckoutInv, NEW x \in sent, x.kind = "create", sent' = sent \ {x}, createFailed(x),
           \/ order' = order /\ excused' = excused
           \/ \E o \in Orders : /\ order[o].is = "none"
                                /\ order' = [order EXCEPT ![o] = [is |-> "live", of |-> x.of, charges |-> 0]]
                                /\ excused' = excused \cup {x.of}
    PROVE  CheckoutInv'
<1> USE CheckoutAssumption
<1>1. /\ UNCHANGED <<stored, screen, confirmed, pushed, shown, failed>>
      /\ submitting' = (submitting /\ x.by # "page") /\ excused \subseteq excused'
  BY DEF createFailed
<1>2. \A y : y \in sent' <=> y \in sent /\ y # x
  OBVIOUS
<1>3. /\ order' \in [Orders -> OrderType]
      /\ \A p \in Orders : order[p].is # "none" => order'[p] = order[p]
      /\ \A p \in Orders : order'[p].charges = order[p].charges
      /\ \A s : s \notin excused' => OrdersOf(s)' = OrdersOf(s)
  <2>1. CASE order' = order
    BY <2>1 DEF CheckoutInv, CheckoutTypeOK, OrdersOf
  <2>2. ASSUME NEW o \in Orders, order[o].is = "none", excused' = excused \cup {x.of},
               order' = [order EXCEPT ![o] = [is |-> "live", of |-> x.of, charges |-> 0]]
        PROVE  <1>3!:
    <3>1. x.of \in Selections /\ order[o].charges = 0 /\ \A s : o \notin OrdersOf(s)
      BY <2>2, CreateFacts
    <3>2. [is |-> "live", of |-> x.of, charges |-> 0] \in OrderType
      BY <3>1 DEF OrderType
    <3>3. /\ order'[o] = [is |-> "live", of |-> x.of, charges |-> 0]
          /\ \A p \in Orders : p # o => order'[p] = order[p]
      BY <2>2 DEF CheckoutInv, CheckoutTypeOK
    <3>4. order' \in [Orders -> OrderType]
      BY <2>2, <3>2 DEF CheckoutInv, CheckoutTypeOK
    <3>5. \A s : s \notin excused' => OrdersOf(s)' = OrdersOf(s)
      BY <2>2, <3>1, <3>3 DEF OrdersOf
    <3> QED BY <2>2, <3>1, <3>3, <3>4, <3>5
  <2> QED BY <2>1, <2>2
<1>4. CheckoutTypeOK'
  BY <1>1, <1>2, <1>3 DEF CheckoutInv, CheckoutTypeOK
<1>5. PageOfCalls'
  BY <1>1, <1>2 DEF CheckoutInv, PageOfCalls
<1>6. ChargeUnderWay => ChargeUnderWay'
  BY <1>2 DEF ChargeUnderWay
<1>7. SelectionOnce'
  BY <1>1, <1>2, <1>3, <1>6 DEF CheckoutInv, SelectionOnce
<1>8. \A y \in sent : y.kind = "charge" => y.of \in Orders
  BY CallFacts DEF CheckoutInv
<1>9. ChargedSingly'
  BY <1>1, <1>2, <1>3, <1>8 DEF CheckoutInv, ChargedSingly, CheckoutTypeOK
<1>10. NotYetCharged'
  BY <1>1, <1>2, <1>3 DEF CheckoutInv, NotYetCharged
<1>11. ConfirmsPaid'
  <2>1. \A p \in Orders : order'[p].is = "none" => order[p].is = "none"
    BY <1>3
  <2> QED BY <1>1, <1>3, <2>1 DEF CheckoutInv, ConfirmsPaid, CheckoutTypeOK
<1> QED BY <1>4, <1>5, <1>7, <1>9, <1>10, <1>11 DEF CheckoutInv

\* The charge: the money is taken or not, and its answer settles the page.
LEMMA ChargeKeeps ==
    ASSUME CheckoutInv, NEW x \in sent, chargeBookingAction(x)
    PROVE  CheckoutInv'
<1> USE CheckoutAssumption
<1> DEFINE o == x.of
<1>1. PICK paid \in BOOLEAN, lost \in BOOLEAN :
         /\ paid => order[o].is = "live" /\ order[o].charges < MaxCharges
         /\ order' = IF paid THEN [order EXCEPT ![o].charges = @ + 1] ELSE order
         /\ IF lost THEN NotSettled(x) ELSE Answered(paid, x)
         /\ excused' = IF lost THEN excused \cup {o} ELSE excused
  BY DEF chargeBookingAction
<1>2. /\ x.kind = "charge" /\ o \in Orders /\ x.by \in Callers /\ o # NoOrder
      /\ UNCHANGED <<stored, screen, confirmed, shown>>
      /\ \A y : y \in sent' <=> y \in sent /\ y # x
  BY CallFacts DEF chargeBookingAction, CheckoutInv
<1>3. order[o] \in OrderType /\ order[o].charges \in Nat /\ order[o].is # "none"
  BY <1>2 DEF CheckoutInv, CheckoutTypeOK, OrderType, ChargedSingly
<1>4. /\ order'[o].charges = (IF paid THEN order[o].charges + 1 ELSE order[o].charges)
      /\ order'[o].is = order[o].is /\ order'[o].of = order[o].of
      /\ \A p \in Orders : p # o => order'[p] = order[p]
  BY <1>1, <1>2, <1>3 DEF CheckoutInv, CheckoutTypeOK, OrderType
<1>5. order' \in [Orders -> OrderType]
  BY <1>1, <1>2, <1>3 DEF CheckoutInv, CheckoutTypeOK, OrderType
<1>6. /\ excused \subseteq excused' /\ (lost => o \in excused')
      /\ submitting' = (submitting /\ x.by # "page")
      /\ x.by # "page" => failed' = failed
      /\ x.by = "page" => failed' = (IF paid /\ ~lost THEN NoOrder ELSE o)
      /\ pushed' = (IF paid /\ ~lost /\ x.by # "nobody" THEN o ELSE pushed)
  BY <1>1 DEF Answered, Settled, NotSettled
<1> HIDE DEF o
<1>7. \A p \in Orders : order[p].charges \in Nat
  BY DEF CheckoutInv, CheckoutTypeOK, OrderType
<1>8. \A s : OrdersOf(s)' = OrdersOf(s)
  BY <1>4 DEF OrdersOf
<1>9. x.by = "page" => screen = "checkout" /\ \A y \in sent : y.by = "page" => y = x
  BY DEF CheckoutInv, PageOfCalls
<1>10. \A y \in sent : y.kind = "charge" /\ y.of = o => y = x
  BY <1>2 DEF CheckoutInv, ChargedSingly, o
<1>11. failed = o => x.by = "page"
  BY <1>2 DEF CheckoutInv, ChargedSingly, o
<1>12. CheckoutTypeOK'
  BY <1>2, <1>5, <1>6 DEF CheckoutInv, CheckoutTypeOK
<1>13. PageOfCalls'
  BY <1>2, <1>6, <1>9 DEF CheckoutInv, PageOfCalls
<1>14. SelectionOnce'
  <2>1. ChargeUnderWay \/ failed # NoOrder \/ pushed # NoOrder
          => ChargeUnderWay' \/ failed' # NoOrder \/ pushed' # NoOrder
    BY <1>2, <1>6, <1>9 DEF ChargeUnderWay
  <2> QED BY <1>2, <1>6, <1>8, <2>1 DEF CheckoutInv, SelectionOnce
<1>15. \A y \in sent : y.kind = "charge" => y.of \in Orders
  BY CallFacts DEF CheckoutInv
<1>16. ChargedSingly'
  <2>1. \A p \in Orders : order'[p].is = order[p].is
    BY <1>4
  <2> QED BY <1>2, <1>3, <1>4, <1>6, <1>10, <1>15, <2>1 DEF CheckoutInv, ChargedSingly, CheckoutTypeOK
<1>17. NotYetCharged'
  <2> SUFFICES ASSUME NEW p \in Orders, p \notin excused'
               PROVE  /\ order'[p].charges <= 1
                      /\ failed' = p \/ (\E y \in sent' : y.kind = "charge" /\ y.of = p) => order'[p].charges = 0
    BY DEF NotYetCharged
  <2>1. p \in Orders \ excused
    BY <1>6
  <2>2. CASE p = o
    <3>1. order[o].charges = 0 /\ ~lost
      BY <1>2, <1>6, <2>1, <2>2 DEF CheckoutInv, NotYetCharged, o
    <3>2. ~\E y \in sent' : y.kind = "charge" /\ y.of = p
      BY <1>2, <1>10, <2>2
    <3>3. paid => failed' # p
      BY <1>2, <1>6, <1>11, <2>2, <3>1
    <3> QED BY <1>4, <2>2, <3>1, <3>2, <3>3
  <2>3. CASE p # o
    <3>1. failed' = p => failed = p
      BY <1>6, <2>3
    <3> QED BY <1>2, <1>4, <2>1, <2>3, <3>1 DEF CheckoutInv, NotYetCharged
  <2> QED BY <2>2, <2>3
<1>18. ConfirmsPaid'
  <2>1. \A p \in Orders : order[p].charges > 0 => order'[p].charges > 0
    BY <1>4, <1>7
  <2>2. pushed' # NoOrder => order'[pushed'].charges > 0
    <3>1. CASE pushed' = pushed
      BY <2>1, <3>1 DEF CheckoutInv, ConfirmsPaid, CheckoutTypeOK
    <3>2. CASE paid /\ pushed' = o
      BY <1>3, <1>4, <3>2
    <3> QED BY <1>6, <3>1, <3>2
  <2> QED BY <1>2, <1>3, <1>4, <2>1, <2>2 DEF CheckoutInv, ConfirmsPaid
<1> QED BY <1>12, <1>13, <1>14, <1>16, <1>17, <1>18 DEF CheckoutInv

\* The hold runs out, or the approval arrives.
LEMMA ElsewhereKeeps ==
    ASSUME CheckoutInv, NEW o \in Orders, elsewhere(o)
    PROVE  CheckoutInv'
<1> USE CheckoutAssumption
<1>1. /\ order[o].is = "live" /\ order[o].charges = 0 /\ excused' = excused \cup {o}
      /\ UNCHANGED <<stored, screen, confirmed, pushed, shown, submitting, failed, sent>>
  BY DEF elsewhere, pageVars
<1>2. /\ order' \in [Orders -> OrderType]
      /\ order'[o].is # "none" /\ order'[o].of = order[o].of
      /\ \A p \in Orders : p # o => order'[p] = order[p]
  <2>1. CASE order' = [order EXCEPT ![o].is = "gone"]
    BY <2>1 DEF CheckoutInv, CheckoutTypeOK, OrderType
  <2>2. CASE order' = [order EXCEPT ![o].charges = 1]
    BY <1>1, <2>2 DEF CheckoutInv, CheckoutTypeOK, OrderType
  <2> QED BY <2>1, <2>2 DEF elsewhere
<1>3. \A s : OrdersOf(s)' = OrdersOf(s)
  BY <1>1, <1>2 DEF OrdersOf
<1>4. \A y \in sent : y.kind = "charge" => y.of \in Orders
  BY CallFacts DEF CheckoutInv
<1>5. CheckoutTypeOK'
  BY <1>1, <1>2 DEF CheckoutInv, CheckoutTypeOK
<1>6. PageOfCalls'
  BY <1>1 DEF CheckoutInv, PageOfCalls
<1>7. SelectionOnce'
  <2>1. ChargeUnderWay' = ChargeUnderWay
    BY <1>1 DEF ChargeUnderWay
  <2> QED BY <1>1, <1>3, <2>1 DEF CheckoutInv, SelectionOnce
<1>8. ChargedSingly'
  BY <1>1, <1>2, <1>4 DEF CheckoutInv, ChargedSingly, CheckoutTypeOK
<1>9. NotYetCharged'
  BY <1>1, <1>2 DEF CheckoutInv, NotYetCharged
<1>10. ConfirmsPaid'
  BY <1>1, <1>2 DEF CheckoutInv, ConfirmsPaid, CheckoutTypeOK
<1> QED BY <1>5, <1>6, <1>7, <1>8, <1>9, <1>10 DEF CheckoutInv

\* Every step preserves the invariant.
LEMMA CheckoutStep == CheckoutInv /\ [CheckoutNext]_checkoutVars => CheckoutInv'
<1> SUFFICES ASSUME CheckoutInv, [CheckoutNext]_checkoutVars PROVE CheckoutInv'
  OBVIOUS
<1>1. CASE (\E s \in Selections : saveCheckoutDraft(s)) \/ mountCheckout
  BY <1>1, DraftKeeps
<1>2. CASE leave
  BY <1>2, UnmountKeeps DEF leave
<1>3. CASE reload
  BY <1>3, UnmountKeeps DEF reload
<1>4. CASE navigate
  BY <1>4, UnmountKeeps DEF navigate
<1>5. CASE handleSubmit \/ handleRetryPayment
  BY <1>5, PressKeeps
<1>6. ASSUME NEW x \in sent, NEW o \in Orders, createBookingAction(x, o) PROVE CheckoutInv'
  <2>1. /\ x.kind = "create" /\ order[o].is = "none"
        /\ order' = [order EXCEPT ![o] = [is |-> "live", of |-> x.of, charges |-> 0]]
    BY <1>6 DEF createBookingAction
  <2>2. CASE /\ stored' = clearCheckoutDraft
             /\ sent' = (sent \ {x}) \cup {[kind |-> "charge", of |-> o, by |-> x.by]}
             /\ UNCHANGED <<pageVars, excused>>
    BY <2>1, <2>2, AnsweredKeeps
  <2>3. CASE sent' = sent \ {x} /\ createFailed(x) /\ excused' = excused \cup {x.of}
    BY <2>1, <2>3, UnansweredKeeps
  <2> QED BY <1>6, <2>2, <2>3 DEF createBookingAction
<1>7. ASSUME NEW x \in sent, createBookingRefused(x) PROVE CheckoutInv'
  BY <1>7, UnansweredKeeps DEF createBookingRefused
<1>8. ASSUME NEW x \in sent, chargeBookingAction(x) PROVE CheckoutInv'
  BY <1>8, ChargeKeeps
<1>9. ASSUME NEW o \in Orders, elsewhere(o) PROVE CheckoutInv'
  BY <1>9, ElsewhereKeeps
<1>10. CASE UNCHANGED checkoutVars
  <2>1. UNCHANGED <<stored, screen, confirmed, pushed, shown, submitting, failed, sent, order, excused>>
    BY <1>10 DEF checkoutVars, pageVars
  <2> QED BY <2>1 DEF CheckoutInv, CheckoutTypeOK, PageOfCalls, SelectionOnce, ChargedSingly,
                      NotYetCharged, ConfirmsPaid, OrdersOf, ChargeUnderWay
<1> QED BY <1>1, <1>2, <1>3, <1>4, <1>5, <1>6, <1>7, <1>8, <1>9, <1>10 DEF CheckoutNext

\* The invariant implies the property.
LEMMA CheckoutInvSound == CheckoutInv => CheckoutSound
<1> SUFFICES ASSUME CheckoutInv PROVE CheckoutSound
  OBVIOUS
<1>1. ASSUME NEW s \in Selections \ excused PROVE Cardinality(OrdersOf(s)) <= 1
  <2>1. \A o, p \in OrdersOf(s) : o = p
    BY DEF CheckoutInv, SelectionOnce
  <2>2. CASE OrdersOf(s) = {}
    BY <2>2, FS_EmptySet
  <2>3. CASE OrdersOf(s) # {}
    <3>1. PICK o \in OrdersOf(s) : TRUE
      BY <2>3
    <3>2. OrdersOf(s) = {o}
      BY <2>1, <3>1
    <3>3. Cardinality({o}) = 1
      BY FS_Singleton
    <3> QED BY <3>2, <3>3
  <2> QED BY <2>2, <2>3
<1>2. \A o \in Orders : order[o].charges \in Nat
  BY DEF CheckoutInv, CheckoutTypeOK, OrderType
<1> QED BY <1>1, <1>2 DEF CheckoutSound, CheckoutInv, NotYetCharged, ConfirmsPaid

\* Every selection is booked once, every booking charged once, and only a booking
\* that is paid is confirmed (Checkout.jsx: handleSubmit, takePayment,
\* handleRetryPayment), but for what the history excuses.
THEOREM CheckoutStaysSound == CheckoutSpec => []CheckoutSound
<1>1. CheckoutSpec => []CheckoutInv
  BY InitCheckout, CheckoutStep, PTL DEF CheckoutSpec
<1> QED BY <1>1, CheckoutInvSound, PTL

-----------------------------------------------------------------------------
\* Lists and details

\* What the pages have in common: a write has a name of its own, and a page whose
\* writes take turns has no other.
DoesFacts(does) ==
    \A w, u \in does : (w.op = u.op => w = u) /\ (w.flag = "turn" => u.flag = "turn")

\* What a fetch still under way will show: the newest one, what is wanted.
FetchesCurrent ==
    \A x \in fetches :
        /\ DOMAIN x = {"query", "newest", "read", "seen", "row"}
        /\ x.newest \in BOOLEAN
        /\ x.newest => x.query = wanted /\ (x.read => told \subseteq x.seen)
        /\ CancelsOlder => x.newest

\* What the page has been told is carried out.
ToldLanded ==
    /\ told \subseteq landed
    /\ \A c \in writes : c.landed => c.id \in landed

\* A write under way is one of the page's, and its flag is set.
FlagsHold ==
    \A c \in writes :
        /\ DOMAIN c = {"id", "op", "query", "landed"}
        /\ \E w \in view.does : w.op = c.op
        /\ \A w \in view.does : w.op = c.op /\ w.flag \notin {"none", "turn"} =>
             c.op \in busyWith /\ \A d \in writes : d.op = c.op => d = c

ShownCurrent ==
    /\ ~loading /\ ~fetchFailed /\ ~overtakenFetch =>
         shownRows.query = wanted /\ told \subseteq shownRows.seen
    /\ overtakenFetch => ~CancelsOlder

PagesInv ==
    /\ view \in Views /\ loading \in BOOLEAN /\ fetchFailed \in BOOLEAN /\ overtakenFetch \in BOOLEAN
    /\ FetchesCurrent /\ ToldLanded /\ FlagsHold /\ ShownCurrent

\* Writes of different names, all of which take turns, or none.
LEMMA FourWrites ==
    ASSUME NEW a, NEW b, NEW c, NEW d, NEW does, does = {a, b, c, d},
           a.op # b.op, a.op # c.op, a.op # d.op, b.op # c.op, b.op # d.op, c.op # d.op,
           \/ a.flag = "turn" /\ b.flag = "turn" /\ c.flag = "turn" /\ d.flag = "turn"
           \/ a.flag # "turn" /\ b.flag # "turn" /\ c.flag # "turn" /\ d.flag # "turn"
    PROVE  DoesFacts(does)
  BY DEF DoesFacts

\* The table of pages.
LEMMA PagesDoes == \A v \in Views : DoesFacts(v.does)
<1> DEFINE Reading == {BookingList, MyBookings, InvoiceList, MyInvoices, PaymentList, CustomerList,
                       InvoiceDetail, CustomerDetail, BookingConfirmation, Dashboard,
                       HotelSearch, HotelDetails, ReportsHome, ActivityLogList}
           Deleting == {DestinationList, HotelList, RoomList, RoomTypeList, TourPackageList}
           Fleet == {VehicleList, DriverList}
<1> SUFFICES ASSUME NEW v \in Views PROVE DoesFacts(v.does)
  OBVIOUS
<1>1. CASE v \in Reading
  <2>1. v.does = {}
    BY <1>1 DEF Page, BookingList, MyBookings, InvoiceList, MyInvoices, PaymentList, CustomerList,
         InvoiceDetail, CustomerDetail, BookingConfirmation, Dashboard,
         HotelSearch, HotelDetails, ReportsHome, ActivityLogList
  <2> QED BY <2>1 DEF DoesFacts
<1>2. CASE v \in Deleting
  <2>1. v.does = {DeleteRow}
    BY <1>2 DEF Page, DestinationList, HotelList, RoomList, RoomTypeList, TourPackageList
  <2> QED BY <2>1 DEF DoesFacts
<1>3. CASE v \in Fleet \cup {ServiceList}
  <2>1. v.does \in {{SaveRow, Unguarded}, {SaveRow, DeleteRow}}
    BY <1>3 DEF Page, VehicleList, DriverList, ServiceList
  <2>2. DoesFacts({SaveRow, Unguarded}) /\ DoesFacts({SaveRow, DeleteRow})
    BY DEF DoesFacts, PageWrite, SaveRow, Unguarded, DeleteRow
  <2> QED BY <2>1, <2>2
<1>4. CASE v \in {TourBookingList, TransportBookingList}
  <2> DEFINE create == PageWrite("create", {"new"}, TRUE, "own")
             confirm == PageWrite("confirm", {"pending"}, FALSE, "row")
             cancel == PageWrite("cancel", {"pending", "confirmed"}, FALSE, "row")
  <2>1. TourBookingList.does = {confirm, cancel}
    BY DEF Page, TourBookingList
  <2>3. TransportBookingList.does = {create, confirm, cancel}
    BY DEF Page, TransportBookingList
  <2>2. /\ create.op = "create" /\ confirm.op = "confirm" /\ cancel.op = "cancel"
        /\ create.flag = "own" /\ confirm.flag = "row" /\ cancel.flag = "row"
    BY DEF PageWrite
  <2> HIDE DEF create, confirm, cancel
  <2> QED BY <1>4, <2>1, <2>2, <2>3 DEF DoesFacts
<1>5. CASE v = RatePlanList
  <2> DEFINE savePlan == PageWrite("savePlan", {"new"}, TRUE, "own")
             deletePlan == PageWrite("deletePlan", {"row"}, FALSE, "none")
             saveRate == PageWrite("saveRate", {"new", "row"}, TRUE, "own")
  <2>1. v.does = {savePlan, deletePlan, saveRate, Unguarded}
    BY <1>5 DEF Page, RatePlanList
  <2>2. /\ savePlan.op = "savePlan" /\ deletePlan.op = "deletePlan" /\ saveRate.op = "saveRate"
        /\ Unguarded.op = "delete" /\ Unguarded.flag = "none"
        /\ savePlan.flag = "own" /\ deletePlan.flag = "none" /\ saveRate.flag = "own"
    BY DEF PageWrite, Unguarded
  <2> HIDE DEF savePlan, deletePlan, saveRate
  <2> QED BY <2>1, <2>2, FourWrites
<1>6. CASE v = AdminBookingDetail
  <2> DEFINE confirm == PageWrite("confirm", {"pending", "held"}, FALSE, "turn")
             checkIn == PageWrite("checkIn", {"confirmed"}, TRUE, "turn")
             checkOut == PageWrite("checkOut", {"checked_in"}, TRUE, "turn")
             cancel == PageWrite("cancel", {"pending", "held", "confirmed", "checked_in"}, TRUE, "turn")
  <2>1. v.does = {confirm, checkIn, checkOut, cancel}
    BY <1>6 DEF Page, AdminBookingDetail
  <2>2. /\ confirm.op = "confirm" /\ checkIn.op = "checkIn" /\ checkOut.op = "checkOut"
        /\ cancel.op = "cancel" /\ cancel.flag = "turn"
        /\ confirm.flag = "turn" /\ checkIn.flag = "turn" /\ checkOut.flag = "turn"
    BY DEF PageWrite
  <2> HIDE DEF confirm, checkIn, checkOut, cancel
  <2> QED BY <2>1, <2>2, FourWrites
<1>7. CASE v \in {RoleList, HotelDetail, BookingDetail, PaymentDetail, CommissionList, UserList}
  <2> DEFINE savePermissions == PageWrite("savePermissions", {"row"}, FALSE, "own")
             createRole == PageWrite("createRole", {"new"}, TRUE, "none")
             addImage == PageWrite("addImage", {"new"}, FALSE, "own")
             removeImage == PageWrite("removeImage", {"row"}, FALSE, "none")
             cancel == PageWrite("cancel", {"pending", "held", "confirmed"}, TRUE, "own")
             refund == PageWrite("refund", {"paid", "partially_refunded"}, TRUE, "none")
             markPaid == PageWrite("markPaid", {"unpaid"}, TRUE, "own")
             delete == PageWrite("delete", {"staff"}, TRUE, "own")
  <2>1. RoleList.does = {savePermissions, createRole}
    BY DEF Page, RoleList
  <2>3. HotelDetail.does = {addImage, removeImage}
    BY DEF Page, HotelDetail
  <2>4. BookingDetail.does = {cancel} /\ PaymentDetail.does = {refund}
    BY DEF Page, BookingDetail, PaymentDetail
  <2>5. CommissionList.does = {markPaid} /\ UserList.does = {delete}
    BY DEF Page, CommissionList, UserList
  <2>2. /\ savePermissions.op = "savePermissions" /\ createRole.op = "createRole"
        /\ addImage.op = "addImage" /\ removeImage.op = "removeImage"
        /\ savePermissions.flag = "own" /\ createRole.flag = "none"
        /\ addImage.flag = "own" /\ removeImage.flag = "none"
    BY DEF PageWrite
  <2> HIDE DEF savePermissions, createRole, addImage, removeImage, cancel, refund, markPaid, delete
  <2> QED BY <1>7, <2>1, <2>2, <2>3, <2>4, <2>5 DEF DoesFacts
<1>8. \/ v \in Reading \/ v \in Deleting \/ v \in Fleet \cup {ServiceList}
      \/ v \in {TourBookingList, TransportBookingList} \/ v \in {RatePlanList, AdminBookingDetail}
      \/ v \in {RoleList, HotelDetail, BookingDetail, PaymentDetail, CommissionList, UserList}
  BY DEF Views
<1> HIDE DEF Reading, Deleting, Fleet
<1> QED BY <1>1, <1>2, <1>3, <1>4, <1>5, <1>6, <1>7, <1>8

\* A write's flag is the one that CHOOSE finds.
LEMMA OneWriteOfName ==
    ASSUME view \in Views, NEW op, NEW w \in view.does, w.op = op
    PROVE  (CHOOSE u \in view.does : u.op = op) = w
  BY PagesDoes DEF DoesFacts

\* A new fetch makes those under way older, or ends them.
LEMMA LoadKeeps ==
    ASSUME FetchesCurrent, NEW query, NEW newest \in BOOLEAN, load(query, newest), view' = view,
           newest => query = wanted', CancelsOlder => newest
    PROVE  FetchesCurrent'
<1>1. /\ Fetch(query, newest).newest = newest /\ Fetch(query, newest).read = FALSE
      /\ Fetch(query, newest).query = query
      /\ DOMAIN Fetch(query, newest) = {"query", "newest", "read", "seen", "row"}
  BY DEF Fetch
<1>2. ASSUME NEW x \in supersede
      PROVE  DOMAIN x = {"query", "newest", "read", "seen", "row"} /\ x.newest = FALSE /\ ~CancelsOlder
  BY <1>2 DEF supersede, FetchesCurrent
<1>3. CancelsOlder' = CancelsOlder
  BY DEF CancelsOlder
<1> QED BY <1>1, <1>2, <1>3 DEF load, FetchesCurrent

\* The query changes, the page number with it or not.
LEMMA TurnKeeps ==
    ASSUME PagesInv, NEW query, turnTo(query), resting
    PROVE  PagesInv'
<1>1. /\ UNCHANGED <<view, shownRows, overtakenFetch, dialog, busyWith, writes, landed, told>>
      /\ wanted' = query
  BY DEF resting, turnTo
<1>2. FetchesCurrent' /\ loading' = TRUE /\ fetchFailed' \in BOOLEAN
  <2>1. CASE ~(view.kind = "log" /\ wanted.at # query.at)
    <3>1. load(query, TRUE)
      BY <2>1 DEF turnTo
    <3> QED BY <1>1, <3>1, LoadKeeps DEF PagesInv, load
  <2>2. CASE view.kind = "log" /\ wanted.at # query.at
    <3> DEFINE old == Fetch([query EXCEPT !.at = wanted.at], FALSE)
               new == Fetch(query, TRUE)
    <3>1. /\ fetches' = supersede \cup {old, new}
          /\ loading' = TRUE /\ UNCHANGED fetchFailed
      BY <2>2 DEF turnTo
    <3>2. /\ old.newest = FALSE /\ DOMAIN old = {"query", "newest", "read", "seen", "row"}
          /\ new.newest = TRUE /\ DOMAIN new = {"query", "newest", "read", "seen", "row"}
          /\ new.read = FALSE /\ new.query = query
      BY DEF Fetch
    <3>3. ~CancelsOlder /\ ~CancelsOlder'
      BY <1>1, <2>2 DEF CancelsOlder
    <3>4. \A x \in supersede :
            DOMAIN x = {"query", "newest", "read", "seen", "row"} /\ x.newest = FALSE
      BY <3>3 DEF supersede, PagesInv, FetchesCurrent
    <3> HIDE DEF old, new
    <3>5. FetchesCurrent'
      BY <1>1, <3>1, <3>2, <3>3, <3>4 DEF FetchesCurrent
    <3> QED BY <3>1, <3>5 DEF PagesInv
  <2> QED BY <2>1, <2>2
<1>3. ToldLanded' /\ FlagsHold' /\ ShownCurrent'
  BY <1>1, <1>2 DEF PagesInv, ToldLanded, FlagsHold, ShownCurrent, CancelsOlder
<1> QED BY <1>1, <1>2, <1>3 DEF PagesInv

\* The search box, by itself or with the page number or the query that follows it.
LEMMA SearchKeeps ==
    ASSUME PagesInv, setSearch \/ debounce \/ submitQuery
    PROVE  PagesInv'
<1>1. CASE setSearch /\ view.kind = "list" /\ wanted.at # 1
  BY <1>1, TurnKeeps DEF setSearch
<1>2. CASE setSearch /\ ~(view.kind = "list" /\ wanted.at # 1)
  <2>1. UNCHANGED <<view, wanted, fetches, shownRows, loading, fetchFailed, overtakenFetch, busyWith,
                    writes, landed, told>>
    BY <1>2 DEF setSearch, resting
  <2> QED BY <2>1 DEF PagesInv, FetchesCurrent, ToldLanded, FlagsHold, ShownCurrent, CancelsOlder
<1>3. CASE debounce \/ submitQuery
  <2>1. load(wanted', TRUE) /\ resting
    BY <1>3 DEF debounce, submitQuery
  <2>2. FetchesCurrent' /\ loading' = TRUE /\ fetchFailed' \in BOOLEAN
    BY <2>1, LoadKeeps DEF PagesInv, load, resting
  <2>3. ToldLanded' /\ FlagsHold' /\ ShownCurrent'
    BY <2>1, <2>2 DEF PagesInv, ToldLanded, FlagsHold, ShownCurrent, CancelsOlder, resting
  <2> QED BY <2>1, <2>2, <2>3 DEF PagesInv, resting
<1> QED BY <1>1, <1>2, <1>3

\* A fetch is read, answered, or fails.
LEMMA FetchKeeps ==
    ASSUME PagesInv, NEW x \in fetches, read(x) \/ answered(x) \/ fetchErred(x)
    PROVE  PagesInv'
<1>1. CASE read(x)
  <2>1. PICK row \in RowStatuses :
          fetches' = (fetches \ {x}) \cup {[x EXCEPT !.read = TRUE, !.seen = landed, !.row = row]}
    BY <1>1 DEF read
  <2> DEFINE new == [x EXCEPT !.read = TRUE, !.seen = landed, !.row = row]
  <2>2. /\ DOMAIN new = DOMAIN x /\ new.newest = x.newest /\ new.query = x.query /\ new.seen = landed
    BY DEF PagesInv, FetchesCurrent
  <2>3. UNCHANGED <<view, wanted, shownRows, loading, fetchFailed, overtakenFetch, busyWith,
                    writes, landed, told>>
    BY <1>1 DEF read, resting
  <2> HIDE DEF new
  <2>4. \A y \in fetches' : y \in fetches \/ y = new
    BY <2>1 DEF new
  <2>5. FetchesCurrent'
    BY <2>2, <2>3, <2>4 DEF PagesInv, FetchesCurrent, ToldLanded, CancelsOlder
  <2> QED BY <2>3, <2>5 DEF PagesInv, ToldLanded, FlagsHold, ShownCurrent, CancelsOlder
<1>2. CASE answered(x)
  <2>1. /\ UNCHANGED <<view, wanted, busyWith, writes, landed, told>>
        /\ fetches' = fetches \ {x} /\ x.read
        /\ shownRows'.query = x.query /\ shownRows'.seen = x.seen
        /\ overtakenFetch' = ~x.newest /\ loading' = FALSE
        /\ fetchFailed' = (KeepsError /\ fetchFailed)
    BY <1>2 DEF answered
  <2>2. FetchesCurrent' /\ ToldLanded' /\ FlagsHold'
    BY <2>1 DEF PagesInv, FetchesCurrent, ToldLanded, FlagsHold, CancelsOlder
  <2>3. ShownCurrent'
    BY <2>1 DEF PagesInv, FetchesCurrent, ShownCurrent, CancelsOlder
  <2>4. overtakenFetch' \in BOOLEAN /\ fetchFailed' \in BOOLEAN
    BY <2>1
  <2> QED BY <2>1, <2>2, <2>3, <2>4 DEF PagesInv
<1>3. CASE fetchErred(x)
  <2>1. /\ UNCHANGED <<view, wanted, overtakenFetch, busyWith, writes, landed, told>>
        /\ fetches' = fetches \ {x} /\ loading' = FALSE /\ fetchFailed' = TRUE
    BY <1>3 DEF fetchErred
  <2> QED BY <2>1 DEF PagesInv, FetchesCurrent, ToldLanded, FlagsHold, ShownCurrent, CancelsOlder
<1> QED BY <1>1, <1>2, <1>3

\* A write is sent: its button was not disabled.
LEMMA SubmitKeeps ==
    ASSUME PagesInv, NEW w \in view.does, submitWrite(w)
    PROVE  PagesInv'
<1> DEFINE new == [id |-> moves', op |-> w.op, query |-> wanted, landed |-> FALSE]
<1>1. /\ UNCHANGED <<view, wanted, fetches, shownRows, loading, fetchFailed, overtakenFetch, landed, told>>
      /\ writes' = writes \cup {new} /\ ~Disabled(w)
      /\ busyWith' = CASE w.flag = "none" -> busyWith
                       [] w.flag = "turn" -> {w.op}
                       [] OTHER -> busyWith \cup {w.op}
  BY DEF submitWrite
<1>2. new.op = w.op /\ new.landed = FALSE /\ DOMAIN new = {"id", "op", "query", "landed"}
  OBVIOUS
<1> HIDE DEF new
<1>3. \A u \in view.does : (u.op = w.op => u = w) /\ (w.flag = "turn" => u.flag = "turn")
  BY PagesDoes DEF PagesInv, DoesFacts
<1>4. FlagsHold'
  <2> SUFFICES ASSUME NEW c \in writes', NEW u \in view.does, u.op = c.op, u.flag \notin {"none", "turn"}
               PROVE  c.op \in busyWith' /\ \A d \in writes' : d.op = c.op => d = c
    BY <1>1, <1>2 DEF PagesInv, FlagsHold
  <2>1. w.flag # "turn" /\ busyWith \subseteq busyWith'
    BY <1>1, <1>3
  <2>2. CASE u = w
    <3>1. w.op \in busyWith' /\ w.op \notin busyWith
      BY <1>1, <2>2 DEF Disabled
    <3>2. \A d \in writes : d.op # w.op
      BY <2>2, <3>1 DEF PagesInv, FlagsHold
    <3> QED BY <1>1, <1>2, <2>2, <3>1, <3>2
  <2>3. CASE u # w
    <3>1. c.op # w.op /\ c \in writes
      BY <1>1, <1>2, <1>3, <2>3
    <3> QED BY <1>1, <1>2, <2>1, <3>1 DEF PagesInv, FlagsHold
  <2> QED BY <2>2, <2>3
<1>5. ToldLanded'
  BY <1>1, <1>2 DEF PagesInv, ToldLanded
<1> QED BY <1>1, <1>4, <1>5 DEF PagesInv, FetchesCurrent, ShownCurrent, CancelsOlder

\* A write is carried out.
LEMMA LandKeeps ==
    ASSUME PagesInv, NEW c \in writes, land(c)
    PROVE  PagesInv'
<1> DEFINE new == [c EXCEPT !.landed = TRUE]
<1>1. /\ UNCHANGED <<view, wanted, fetches, shownRows, loading, fetchFailed, overtakenFetch, busyWith, told>>
      /\ writes' = (writes \ {c}) \cup {new} /\ landed' = landed \cup {c.id}
  BY DEF land
<1>2. new.op = c.op /\ new.id = c.id /\ DOMAIN new = {"id", "op", "query", "landed"}
  BY DEF PagesInv, FlagsHold
<1> HIDE DEF new
<1>3. FlagsHold'
  BY <1>1, <1>2 DEF PagesInv, FlagsHold
<1>4. ToldLanded'
  BY <1>1, <1>2 DEF PagesInv, ToldLanded
<1> QED BY <1>1, <1>3, <1>4 DEF PagesInv, FetchesCurrent, ShownCurrent, CancelsOlder

\* The flag that goes is the write's own.
LEMMA ReleaseKeeps ==
    ASSUME PagesInv, NEW c \in writes, writes' = writes \ {c}, busyWith' = released(c), view' = view
    PROVE  FlagsHold'
<1>1. PICK w \in view.does : w.op = c.op
  BY DEF PagesInv, FlagsHold
<1>2. released(c) = IF w.flag = "turn" THEN {} ELSE busyWith \ {c.op}
  BY <1>1, OneWriteOfName DEF released, PagesInv
<1>3. \A u \in view.does : (u.op = w.op => u = w) /\ (w.flag = "turn" => u.flag = "turn")
  BY PagesDoes DEF PagesInv, DoesFacts
<1> SUFFICES ASSUME NEW d \in writes', NEW u \in view.does, u.op = d.op, u.flag \notin {"none", "turn"}
             PROVE  d.op \in busyWith' /\ \A e \in writes' : e.op = d.op => e = d
  BY DEF PagesInv, FlagsHold
<1>4. d \in writes /\ d # c /\ d.op \in busyWith /\ \A e \in writes : e.op = d.op => e = d
  BY DEF PagesInv, FlagsHold
<1> QED BY <1>1, <1>2, <1>3, <1>4

\* A write's answer: another fetch begins with it, or nothing else changes.
LEMMA WroteKeeps ==
    ASSUME PagesInv, NEW c \in writes, wrote(c) \/ writeFailed(c)
    PROVE  PagesInv'
<1>1. /\ UNCHANGED <<view, wanted, shownRows, overtakenFetch, landed>>
      /\ writes' = writes \ {c} /\ busyWith' = released(c)
  BY DEF wrote, writeFailed
<1>2. FlagsHold'
  BY <1>1, ReleaseKeeps
<1>3. CASE wrote(c)
  <2>1. told' = told \cup {c.id} /\ c.landed /\ reloadAfter(c)
    BY <1>3 DEF wrote
  <2>2. ToldLanded'
    BY <1>1, <2>1 DEF PagesInv, ToldLanded
  <2>3. FetchesCurrent' /\ loading' = TRUE /\ fetchFailed' \in BOOLEAN
    <3>1. CASE view.kind = "plans"
      <4>1. load(c.query, c.query = wanted) /\ ~CancelsOlder /\ (c.query = wanted) \in BOOLEAN
        BY <2>1, <3>1 DEF reloadAfter, CancelsOlder
      <4> QED BY <1>1, <4>1, LoadKeeps DEF PagesInv, load
    <3>2. CASE view.kind # "plans"
      <4>1. load(wanted, TRUE)
        BY <2>1, <3>2 DEF reloadAfter
      <4> QED BY <1>1, <4>1, LoadKeeps DEF PagesInv, load
    <3> QED BY <3>1, <3>2
  <2> QED BY <1>1, <1>2, <2>2, <2>3 DEF PagesInv, ShownCurrent, CancelsOlder
<1>4. CASE writeFailed(c)
  <2>1. UNCHANGED <<fetches, loading, fetchFailed, told>>
    BY <1>4 DEF writeFailed
  <2> QED BY <1>1, <1>2, <2>1 DEF PagesInv, FetchesCurrent, ToldLanded, ShownCurrent, CancelsOlder
<1> QED BY <1>3, <1>4

\* At the start the page has not loaded.
LEMMA InitPages == PagesInit => PagesInv
<1> SUFFICES ASSUME PagesInit PROVE PagesInv
  OBVIOUS
<1>1. FetchesCurrent
  <2>1. /\ Fetch(wanted, TRUE).newest = TRUE /\ Fetch(wanted, TRUE).read = FALSE
        /\ Fetch(wanted, TRUE).query = wanted
        /\ DOMAIN Fetch(wanted, TRUE) = {"query", "newest", "read", "seen", "row"}
    BY DEF Fetch
  <2> QED BY <2>1 DEF PagesInit, FetchesCurrent
<1> QED BY <1>1 DEF PagesInit, PagesInv, ToldLanded, FlagsHold, ShownCurrent

\* Every step preserves the invariant.
LEMMA PagesStep == PagesInv /\ [PagesNext]_pagesVars => PagesInv'
<1> SUFFICES ASSUME PagesInv, [PagesNext]_pagesVars PROVE PagesInv'
  OBVIOUS
<1>1. CASE setPage \/ setFilters
  <2>1. PICK query : turnTo(query) /\ resting
    BY <1>1 DEF setPage, setFilters
  <2> QED BY <2>1, TurnKeeps
<1>2. CASE setSearch \/ debounce \/ submitQuery
  BY <1>2, SearchKeeps
<1>3. ASSUME NEW x \in fetches, read(x) \/ answered(x) \/ fetchErred(x) PROVE PagesInv'
  BY <1>3, FetchKeeps
<1>4. ASSUME NEW w \in view.does, submitWrite(w) PROVE PagesInv'
  BY <1>4, SubmitKeeps
<1>5. ASSUME NEW c \in writes, land(c) \/ wrote(c) \/ writeFailed(c) PROVE PagesInv'
  BY <1>5, LandKeeps, WroteKeeps
<1>6. CASE (\E w \in view.does : openDialog(w)) \/ closeDialog \/ UNCHANGED pagesVars
  <2>1. UNCHANGED <<view, wanted, fetches, shownRows, loading, fetchFailed, overtakenFetch, busyWith,
                    writes, landed, told>>
    BY <1>6 DEF openDialog, closeDialog, pagesVars
  <2> QED BY <2>1 DEF PagesInv, FetchesCurrent, ToldLanded, FlagsHold, ShownCurrent, CancelsOlder
<1> QED BY <1>1, <1>2, <1>3, <1>4, <1>5, <1>6 DEF PagesNext

\* The invariant implies the property.
LEMMA PagesInvCurrent == PagesInv => PagesCurrent
<1> SUFFICES ASSUME PagesInv PROVE PagesCurrent
  OBVIOUS
<1>1. ASSUME NEW c \in writes, NEW d \in writes, c.op = d.op, c.id # d.id
      PROVE  (CHOOSE w \in view.does : w.op = c.op).flag \in {"none", "turn"}
  <2>1. PICK w \in view.does : w.op = c.op
    BY DEF PagesInv, FlagsHold
  <2>2. w.flag \in {"none", "turn"}
    BY <1>1, <2>1 DEF PagesInv, FlagsHold
  <2> QED BY <2>1, <2>2, OneWriteOfName DEF PagesInv
<1> QED BY <1>1 DEF PagesCurrent, PagesInv, ShownCurrent

\* Every page of the views that has stopped loading shows what the user asked for
\* last, with its own writes in it, but for an overtaken fetch (useResourceList.js
\* and the details' load functions), and a write with a flag of its own is not
\* under way twice.
THEOREM PagesStayCurrent == PagesSpec => []PagesCurrent
<1>1. PagesSpec => []PagesInv
  BY InitPages, PagesStep, PTL DEF PagesSpec
<1> QED BY <1>1, PagesInvCurrent, PTL
=============================================================================
