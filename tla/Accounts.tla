------------------------------- MODULE Accounts -------------------------------
(***************************************************************************)
(* User accounts: sessions, password reset links and the Super Admin.      *)
(*                                                                         *)
(* services/authService.js and userService.js read the user, wait (for     *)
(* bcrypt or for another query), and then write some of its columns by id. *)
(* All flows share the columns: a login, a refresh, a logout and every     *)
(* change of the password write refresh_token_hash; updateUser and         *)
(* deleteUser decide on roles they read earlier.                           *)
(*                                                                         *)
(* The hash is kept as present or absent: bcrypt reads 72 bytes, which two *)
(* refresh tokens of one user have in common, so a compare succeeds        *)
(* whenever there is a hash.                                               *)
(***************************************************************************)
EXTENDS Naturals, FiniteSets

CONSTANTS
    Users, Root,      \* accounts; the Super Admin of the seed
    Links,            \* password reset tokens that may be drawn
    NoLink,
    Requests          \* requests, each by one caller at a time

ASSUME AccountsAssumption == Root \in Users /\ NoLink \notin Links

VARIABLES
    account,      \* users.status, "none" before the row is there
    erased,       \* users with deleted_at set
    superAdmin,   \* users with a user_roles row for Super Admin
    session,      \* users with a refresh_token_hash
    link,         \* users.password_reset_token
    spent,        \* links drawn so far
    request,      \* what each request has read and is to write
    loggedOut,        \* history: users without a login since a logout or a new password
    late,         \* history: requests that read their user before that
    revived,      \* history: users whose session was written by a late request
    used,         \* history: links a password was set with
    holding,      \* history: requests that had found a link before its first use
    reigned,      \* history: users that were active Super Admins
    undone        \* history: users written by a request that read no Super Admin

sessionVars == <<session, link, spent, loggedOut, late, revived, used, holding>>
adminVars == <<account, erased, superAdmin, reigned, undone>>
accountVars == <<sessionVars, adminVars, request>>

NoRequest == [op |-> "none", user |-> Root, saw |-> "other", link |-> NoLink,
              status |-> "active", roles |-> "keep"]

AccountsInit ==
    /\ account = [u \in Users |-> IF u = Root THEN "active" ELSE "none"]
    /\ erased = {} /\ superAdmin = {Root}
    /\ session = {} /\ link = [u \in Users |-> NoLink] /\ spent = {}
    /\ request = [q \in Requests |-> NoRequest]
    /\ loggedOut = {} /\ late = {} /\ revived = {}
    /\ used = {} /\ holding = {}
    /\ reigned = {Root} /\ undone = {}

-----------------------------------------------------------------------------
\* A request has read its user and waits before it writes.
Pending(q, op) == request[q].op = op

Read(q, r) ==
    /\ request[q] = NoRequest
    /\ request' = [request EXCEPT ![q] = r]

About(op, u) == [NoRequest EXCEPT !.op = op, !.user = u]

Answer(q) == request' = [request EXCEPT ![q] = NoRequest]

Exists(u) == account[u] # "none"
MayEnter(u) == account[u] = "active" /\ u \notin erased

-----------------------------------------------------------------------------
\* authService.js

\* The lookup and the compare of the password, which is right.
login(q, u) ==
    /\ MayEnter(u)
    /\ Read(q, About("login", u))
    /\ UNCHANGED <<sessionVars, adminVars>>

SessionValid(u) == MayEnter(u) /\ u \in session

refreshTokens(q, u) ==
    /\ SessionValid(u)
    /\ Read(q, About("refresh", u))
    /\ UNCHANGED <<sessionVars, adminVars>>

issueTokenPair(q) ==
    LET u == request[q].user IN
    /\ Pending(q, "login") \/ Pending(q, "refresh")
    /\ session' = session \cup {u}
    /\ loggedOut' = IF Pending(q, "login") THEN loggedOut \ {u} ELSE loggedOut
    /\ revived' = IF q \in late THEN revived \cup {u} ELSE revived \ (IF Pending(q, "login") THEN {u} ELSE {})
    /\ late' = late \ {q}
    /\ Answer(q)
    /\ UNCHANGED <<link, spent, used, holding, adminVars>>

\* The session of u ends: requests that have read the user are late from now.
EndSession(u, by) ==
    /\ session' = session \ {u}
    /\ loggedOut' = loggedOut \cup {u}
    /\ late' = (late \ by) \cup {q \in Requests \ by : request[q].user = u /\ request[q].op \in {"login", "refresh"}}

logout(u) ==
    /\ Exists(u)
    /\ EndSession(u, {})
    /\ UNCHANGED <<link, spent, revived, used, holding, adminVars, request>>

changePassword(q, u) ==
    /\ Exists(u)
    /\ Read(q, About("change", u))
    /\ UNCHANGED <<sessionVars, adminVars>>

\* (mutant: a new password leaves the session)
setPasswordOnly(q) ==
    /\ Pending(q, "change")
    /\ loggedOut' = loggedOut \cup {request[q].user}
    /\ Answer(q)
    /\ UNCHANGED <<session, link, spent, late, revived, used, holding, adminVars>>

setPassword(q) ==
    /\ Pending(q, "change")
    /\ EndSession(request[q].user, {q})
    /\ Answer(q)
    /\ UNCHANGED <<link, spent, revived, used, holding, adminVars>>

requestPasswordReset(u, l) ==
    /\ Exists(u) /\ l \notin spent
    /\ spent' = spent \cup {l}
    /\ link' = [link EXCEPT ![u] = l]
    /\ UNCHANGED <<session, loggedOut, late, revived, used, holding, adminVars, request>>

\* findByLiveToken: the user whose link this is, while it has not expired.
resetPassword(q, u, l) ==
    /\ link[u] = l
    /\ Read(q, [About("reset", u) EXCEPT !.link = l])
    /\ UNCHANGED <<sessionVars, adminVars>>

\* (mutant: the token is kept)
LinkAfterKept(q) == link

LinkAfter(q) == [link EXCEPT ![request[q].user] = NoLink]

\* Requests that have found link l and not written yet.
Holders(l) == {q \in Requests : Pending(q, "reset") /\ request[q].link = l}

resetWrite(q) ==
    /\ Pending(q, "reset")
    /\ EndSession(request[q].user, {q})
    /\ link' = LinkAfter(q)
    /\ used' = used \cup {request[q].link}
    /\ holding' = (IF request[q].link \in used THEN holding ELSE holding \cup Holders(request[q].link)) \ {q}
    /\ Answer(q)
    /\ UNCHANGED <<spent, revived, adminVars>>

linkExpires(u) ==
    /\ link[u] # NoLink
    /\ link' = [link EXCEPT ![u] = NoLink]
    /\ UNCHANGED <<session, spent, loggedOut, late, revived, used, holding, adminVars, request>>

-----------------------------------------------------------------------------
\* userService.js

\* The account comes to be, or stays, an active Super Admin.
Reigns == reigned' = reigned \cup {u \in superAdmin' : account'[u] = "active" /\ u \notin erased'}

\* register and createUser: an active account, in one transaction.
createUser(u, admin) ==
    /\ account[u] = "none"
    /\ account' = [account EXCEPT ![u] = "active"]
    /\ superAdmin' = IF admin THEN superAdmin \cup {u} ELSE superAdmin
    /\ UNCHANGED <<erased, undone, sessionVars, request>>
    /\ Reigns

\* findById: not a deleted account.
Found(u) == Exists(u) /\ u \notin erased

holdsSuperAdmin(u) == u \in superAdmin

\* (mutant: only the roles are looked at)
UpdateAllowedRoles(u, status, roles) == holdsSuperAdmin(u) => roles # "other"

\* The role must stay among the roles given and the status must stay active.
UpdateAllowed(u, status, roles) ==
    holdsSuperAdmin(u) => roles # "other" /\ status # "inactive"

\* The data as they will be written, with what was read of the roles.
ReadUser(q, op, u, status, roles) ==
    Read(q, [About(op, u) EXCEPT !.saw = IF holdsSuperAdmin(u) THEN "admin" ELSE "other",
                                 !.status = status, !.roles = roles])

updateUser(q, u, status, roles) ==
    /\ Found(u) /\ UpdateAllowed(u, status, roles)
    /\ ReadUser(q, "update", u, status, roles)
    /\ UNCHANGED <<sessionVars, adminVars>>

\* A write of u by a request that did not see a Super Admin.
Undoes(q) ==
    undone' = IF request[q].saw = "other" /\ request[q].user \in reigned
              THEN undone \cup {request[q].user} ELSE undone

\* userRepository.updateUser.
updateUserRow(q) ==
    /\ Pending(q, "update")
    /\ account' = [account EXCEPT ![request[q].user] = request[q].status]
    /\ Undoes(q)
    /\ IF request[q].roles = "keep" THEN Answer(q)
       ELSE request' = [request EXCEPT ![q].op = "roles"]
    /\ UNCHANGED <<erased, superAdmin, sessionVars>>
    /\ Reigns

\* replaceUserRoles, as one transaction.
replaceUserRoles(q) ==
    /\ Pending(q, "roles")
    /\ superAdmin' = IF request[q].roles = "admin" THEN superAdmin \cup {request[q].user}
                     ELSE superAdmin \ {request[q].user}
    /\ Undoes(q)
    /\ Answer(q)
    /\ UNCHANGED <<account, erased, sessionVars>>
    /\ Reigns

deleteUser(q, u) ==
    /\ Found(u) /\ ~holdsSuperAdmin(u)
    /\ ReadUser(q, "delete", u, "inactive", "keep")
    /\ UNCHANGED <<sessionVars, adminVars>>

softDeleteUser(q) ==
    /\ Pending(q, "delete")
    /\ account' = [account EXCEPT ![request[q].user] = "inactive"]
    /\ erased' = erased \cup {request[q].user}
    /\ Undoes(q)
    /\ Answer(q)
    /\ UNCHANGED <<superAdmin, reigned, sessionVars>>

AuthNext ==
    \/ \E u \in Users : logout(u) \/ linkExpires(u) \/ \E l \in Links : requestPasswordReset(u, l)
    \/ \E q \in Requests :
          \/ \E u \in Users : login(q, u) \/ refreshTokens(q, u) \/ changePassword(q, u)
          \/ \E u \in Users, l \in Links : resetPassword(q, u, l)
          \/ issueTokenPair(q) \/ setPassword(q) \/ resetWrite(q)

AdminNext ==
    \/ \E u \in Users, admin \in BOOLEAN : createUser(u, admin)
    \/ \E q \in Requests :
          \/ \E u \in Users, status \in {"active", "inactive"}, roles \in {"keep", "admin", "other"} :
                updateUser(q, u, status, roles)
          \/ \E u \in Users : deleteUser(q, u)
          \/ updateUserRow(q) \/ replaceUserRoles(q) \/ softDeleteUser(q)

AccountsNext == AuthNext \/ AdminNext

AccountsSpec == AccountsInit /\ [][AccountsNext]_accountVars

-----------------------------------------------------------------------------
\* Properties

\* After a logout, a changed or a reset password a user's refresh token is of no
\* use until the next login, unless a login or refresh that had read the user
\* before wrote its session after it.
EndedUntilLogin == session \cap loggedOut \subseteq revived

\* A reset link sets a password once: a second request can use it only if both
\* had found the link before either wrote.
LinkUsedOnce ==
    [][\A q \in Requests :
          Pending(q, "reset") /\ request'[q] = NoRequest
              => request[q].link \notin used \/ q \in holding]_accountVars

\* "The Super Admin account and its role are permanent" (userService.js:54-56):
\* an account that was an active Super Admin is one for ever, and there is always
\* one, unless a request wrote it that had read it before it became one.
SuperAdminPermanent ==
    \A u \in reigned \ undone : u \in superAdmin /\ account[u] = "active" /\ u \notin erased
=============================================================================
