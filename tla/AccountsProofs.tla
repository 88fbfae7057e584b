---------------------------- MODULE AccountsProofs ----------------------------
(***************************************************************************)
(* Proofs about Accounts: the Super Admin stays, a session that was ended  *)
(* stays ended, and a reset link sets one password.  And about RateLimit:  *)
(* any stretch as long as a window takes twice the limit, since it meets   *)
(* two windows at most.                                                    *)
(***************************************************************************)
EXTENDS Accounts, RateLimit, FiniteSetTheorems, TLAPS

RequestType ==
    [op : {"none", "login", "refresh", "change", "reset", "update", "roles", "delete"}, user : Users,
     saw : {"admin", "other"}, link : Links \cup {NoLink}, status : {"active", "inactive"},
     roles : {"keep", "admin", "other"}]

AccountsTypeOK ==
    /\ account \in [Users -> {"none", "active", "inactive"}]
    /\ link \in [Users -> Links \cup {NoLink}]
    /\ request \in [Requests -> RequestType]

\* What a request that waits to write was allowed to ask for.
RequestsAllowed ==
    \A q \in Requests :
        /\ request[q].op \in {"update", "roles"} /\ request[q].saw = "admin"
               => request[q].roles # "other" /\ request[q].status # "inactive"
        /\ request[q].op = "delete" => request[q].saw = "other"
        /\ request[q].op = "roles" => request[q].roles # "keep"

AdminInv == RequestsAllowed /\ SuperAdminPermanent

\* A refresh that read a user who is logged out now is late, or the session it
\* read had been written by a late one.
RefreshesLate ==
    \A q \in Requests \ late :
        request[q].op = "refresh" /\ request[q].user \in loggedOut => request[q].user \in revived

SessionInv == EndedUntilLogin /\ RefreshesLate

\* A link is drawn once and is of one user; one that was used is in nobody's row,
\* and only requests that had found it before hold it.
LinksDrawn ==
    /\ \A u \in Users : link[u] # NoLink => link[u] \in spent /\ link[u] \notin used
    /\ \A u, v \in Users : link[u] = link[v] /\ link[u] # NoLink => u = v
    /\ used \subseteq spent /\ NoLink \notin spent

LinksHeld ==
    \A q \in Requests : request[q].op = "reset" =>
        /\ request[q].link \in spent
        /\ \A v \in Users : link[v] = request[q].link => v = request[q].user
        /\ request[q].link \in used => q \in holding

LinkInv == LinksDrawn /\ LinksHeld

IInv == AccountsTypeOK /\ AdminInv /\ SessionInv /\ LinkInv

\* The empty request is one.
LEMMA NoRequestType == NoRequest \in RequestType
  BY AccountsAssumption DEF NoRequest, RequestType

\* What a request may still name keeps its type.
LEMMA AboutType ==
  ASSUME NEW op \in {"login", "refresh", "change", "reset", "update", "delete"}, NEW u \in Users
  PROVE  /\ About(op, u) \in RequestType
         /\ About(op, u).op = op /\ About(op, u).user = u /\ About(op, u).saw = "other"
  BY AccountsAssumption DEF About, NoRequest, RequestType

\* The request that has found a link.
LEMMA HoldsLinkType ==
  ASSUME NEW u \in Users, NEW l \in Links
  PROVE  LET r == [About("reset", u) EXCEPT !.link = l] IN
         r \in RequestType /\ r.op = "reset" /\ r.user = u /\ r.link = l
  BY AccountsAssumption DEF About, NoRequest, RequestType

\* What a request reads changes that request alone.
LEMMA ReadOne ==
  ASSUME AccountsTypeOK, NEW q \in Requests, NEW r \in RequestType, Read(q, r)
  PROVE  /\ request' \in [Requests -> RequestType]
         /\ request'[q] = r
         /\ \A p \in Requests \ {q} : request'[p] = request[p]
  BY DEF AccountsTypeOK, Read

\* An answered request is none, and the others stay.
LEMMA AnswerOne ==
  ASSUME AccountsTypeOK, NEW q \in Requests, Answer(q)
  PROVE  /\ request' \in [Requests -> RequestType]
         /\ request'[q].op = "none"
         /\ \A p \in Requests \ {q} : request'[p] = request[p]
  BY NoRequestType DEF AccountsTypeOK, Answer, NoRequest

\* At the start no request is under way.
LEMMA AccountsInitial == AccountsInit => IInv
  <1> SUFFICES ASSUME AccountsInit PROVE IInv
    OBVIOUS
  <1>1. AccountsTypeOK
    BY NoRequestType, AccountsAssumption DEF AccountsInit, AccountsTypeOK
  <1>2. \A q \in Requests : request[q].op = "none"
    BY DEF AccountsInit, NoRequest
  <1>3. AdminInv
    BY <1>2, AccountsAssumption DEF AccountsInit, AdminInv, RequestsAllowed, SuperAdminPermanent
  <1>4. SessionInv
    BY <1>2 DEF AccountsInit, SessionInv, EndedUntilLogin, RefreshesLate
  <1>5. LinkInv
    BY <1>2 DEF AccountsInit, LinkInv, LinksDrawn, LinksHeld
  <1> QED
    BY <1>1, <1>3, <1>4, <1>5 DEF IInv
-----------------------------------------------------------------------------
\* What each of the calls that read and wait has read.

OthersWait(q) == \A p \in Requests \ {q} : request'[p] = request[p]

\* The reads of login, refresh and changePassword.
LEMMA SessionRead ==
  ASSUME AccountsTypeOK, NEW q \in Requests, NEW u \in Users,
         login(q, u) \/ refreshTokens(q, u) \/ changePassword(q, u)
  PROVE  /\ UNCHANGED <<sessionVars, adminVars>> /\ request' \in [Requests -> RequestType] /\ OthersWait(q)
         /\ request'[q].op \in {"login", "refresh", "change"} /\ request'[q].user = u
         /\ request'[q].op = "refresh" => u \in session
  <1>1. CASE login(q, u)
    BY <1>1, ReadOne, AboutType DEF login, OthersWait
  <1>2. CASE refreshTokens(q, u)
    BY <1>2, ReadOne, AboutType DEF refreshTokens, SessionValid, OthersWait
  <1>3. CASE changePassword(q, u)
    BY <1>3, ReadOne, AboutType DEF changePassword, OthersWait
  <1> QED
    BY <1>1, <1>2, <1>3

\* The read of resetPassword: it found the user's link.
LEMMA LinkRead ==
  ASSUME AccountsTypeOK, NEW q \in Requests, NEW u \in Users, NEW l \in Links, resetPassword(q, u, l)
  PROVE  /\ UNCHANGED <<sessionVars, adminVars>> /\ request' \in [Requests -> RequestType] /\ OthersWait(q)
         /\ request'[q].op = "reset" /\ request'[q].user = u /\ request'[q].link = l /\ link[u] = l
  <1> DEFINE r == [About("reset", u) EXCEPT !.link = l]
  <1>1. r \in RequestType /\ r.op = "reset" /\ r.user = u /\ r.link = l
    BY HoldsLinkType
  <1>2. link[u] = l /\ Read(q, r) /\ UNCHANGED <<sessionVars, adminVars>>
    BY DEF resetPassword
  <1> HIDE DEF r
  <1> QED
    BY <1>1, <1>2, ReadOne DEF OthersWait

\* A read of a user keeps what it saw and what it will write.
LEMMA UserRead ==
  ASSUME AccountsTypeOK, NEW q \in Requests, NEW u \in Users, NEW op \in {"update", "delete"},
         NEW status \in {"active", "inactive"}, NEW roles \in {"keep", "admin", "other"},
         ReadUser(q, op, u, status, roles)
  PROVE  /\ request' \in [Requests -> RequestType] /\ OthersWait(q)
         /\ request'[q].op = op /\ request'[q].user = u
         /\ request'[q].saw = (IF holdsSuperAdmin(u) THEN "admin" ELSE "other")
         /\ request'[q].status = status /\ request'[q].roles = roles
  <1> DEFINE saw == IF holdsSuperAdmin(u) THEN "admin" ELSE "other"
             r == [About(op, u) EXCEPT !.saw = saw, !.status = status, !.roles = roles]
  <1>1. saw \in {"admin", "other"} /\ Read(q, r)
    BY DEF ReadUser
  <1>2. r \in RequestType /\ r.op = op /\ r.user = u /\ r.saw = saw /\ r.status = status /\ r.roles = roles
    <2> HIDE DEF saw
    <2> QED
      BY <1>1, AccountsAssumption DEF About, NoRequest, RequestType
  <1> HIDE DEF r
  <1>3. request' \in [Requests -> RequestType] /\ OthersWait(q) /\ request'[q] = r
    BY <1>1, <1>2, ReadOne DEF OthersWait
  <1> QED
    BY <1>2, <1>3

\* Of a Super Admin, updateUser and deleteUser let through only what leaves them one.
LEMMA AdminRead ==
  ASSUME AccountsTypeOK, NEW q \in Requests, NEW u \in Users, NEW status \in {"active", "inactive"},
         NEW roles \in {"keep", "admin", "other"}, updateUser(q, u, status, roles) \/ deleteUser(q, u)
  PROVE  /\ UNCHANGED <<sessionVars, adminVars>> /\ request' \in [Requests -> RequestType] /\ OthersWait(q)
         /\ request'[q].op \in {"update", "delete"} /\ request'[q].user = u
         /\ request'[q].op = "delete" => request'[q].saw = "other"
         /\ request'[q].op = "update" /\ request'[q].saw = "admin"
                => request'[q].roles # "other" /\ request'[q].status # "inactive"
  <1>1. CASE updateUser(q, u, status, roles)
    <2>1. ReadUser(q, "update", u, status, roles) /\ UpdateAllowed(u, status, roles)
          /\ UNCHANGED <<sessionVars, adminVars>>
      BY <1>1 DEF updateUser
    <2> QED
      BY <2>1, UserRead DEF UpdateAllowed
  <1>2. CASE deleteUser(q, u)
    <2>1. ReadUser(q, "delete", u, "inactive", "keep") /\ ~holdsSuperAdmin(u)
          /\ UNCHANGED <<sessionVars, adminVars>>
      BY <1>2 DEF deleteUser
    <2> QED
      BY <2>1, UserRead
  <1> QED
    BY <1>1, <1>2

\* The write of a request ends it, or leaves its roles to be written.
LEMMA Writes ==
  ASSUME AccountsTypeOK, NEW q \in Requests,
         issueTokenPair(q) \/ setPassword(q) \/ resetWrite(q) \/ updateUserRow(q)
             \/ replaceUserRoles(q) \/ softDeleteUser(q)
  PROVE  /\ request' \in [Requests -> RequestType] /\ OthersWait(q)
         /\ \/ request'[q].op = "none"
            \/ /\ request[q].op = "update" /\ request'[q].op = "roles"
               /\ request'[q].saw = request[q].saw /\ request'[q].user = request[q].user
               /\ request'[q].roles = request[q].roles /\ request'[q].status = request[q].status
               /\ request[q].roles # "keep"
  <1>1. CASE Answer(q)
    BY <1>1, AnswerOne DEF OthersWait
  <1>2. CASE Pending(q, "update") /\ request[q].roles # "keep" /\ request' = [request EXCEPT ![q].op = "roles"]
    BY <1>2 DEF AccountsTypeOK, RequestType, Pending, OthersWait
  <1> QED
    BY <1>1, <1>2 DEF issueTokenPair, setPassword, resetWrite, updateUserRow, replaceUserRoles, softDeleteUser
-----------------------------------------------------------------------------
\* One step of any call, for each part of the invariant.

\* Types.
LEMMA TypeStep == IInv /\ [AccountsNext]_accountVars => AccountsTypeOK'
  <1> SUFFICES ASSUME AccountsTypeOK, IInv, [AccountsNext]_accountVars PROVE AccountsTypeOK'
    BY DEF IInv
  <1>1. ASSUME NEW q \in Requests, NEW u \in Users, login(q, u) \/ refreshTokens(q, u) \/ changePassword(q, u) PROVE AccountsTypeOK'
    BY <1>1, SessionRead DEF AccountsTypeOK, OthersWait, sessionVars, adminVars
  <1>2. ASSUME NEW q \in Requests, NEW u \in Users, NEW l \in Links, resetPassword(q, u, l) PROVE AccountsTypeOK'
    BY <1>2, LinkRead DEF AccountsTypeOK, OthersWait, sessionVars, adminVars
  <1>3. ASSUME NEW q \in Requests, NEW u \in Users, NEW status \in {"active", "inactive"},
               NEW roles \in {"keep", "admin", "other"}, updateUser(q, u, status, roles) \/ deleteUser(q, u)
        PROVE AccountsTypeOK'
    BY <1>3, AdminRead DEF AccountsTypeOK, OthersWait, sessionVars, adminVars
  <1>4. ASSUME NEW u \in Users, logout(u) PROVE AccountsTypeOK'
    BY <1>4 DEF AccountsTypeOK, logout, sessionVars, adminVars, EndSession
  <1>5. ASSUME NEW u \in Users, linkExpires(u) PROVE AccountsTypeOK'
    BY <1>5 DEF AccountsTypeOK, linkExpires, sessionVars, adminVars
  <1>6. ASSUME NEW u \in Users, NEW l \in Links, requestPasswordReset(u, l) PROVE AccountsTypeOK'
    BY <1>6 DEF AccountsTypeOK, requestPasswordReset, sessionVars, adminVars
  <1>7. ASSUME NEW q \in Requests, issueTokenPair(q) PROVE AccountsTypeOK'
    BY <1>7, Writes DEF AccountsTypeOK, issueTokenPair, OthersWait, Pending, sessionVars, 
        adminVars
  <1>8. ASSUME NEW q \in Requests, setPassword(q) PROVE AccountsTypeOK'
    BY <1>8, Writes DEF AccountsTypeOK, setPassword, OthersWait, Pending, sessionVars, adminVars, 
        EndSession
  <1>9. ASSUME NEW q \in Requests, resetWrite(q) PROVE AccountsTypeOK'
    BY <1>9, Writes DEF AccountsTypeOK, resetWrite, OthersWait, Pending, sessionVars, adminVars, 
        EndSession, LinkAfter, RequestType
  <1>10. ASSUME NEW q \in Requests, updateUserRow(q) PROVE AccountsTypeOK'
    BY <1>10, Writes DEF AccountsTypeOK, updateUserRow, OthersWait, Pending, sessionVars, 
        adminVars, RequestType
  <1>11. ASSUME NEW q \in Requests, replaceUserRoles(q) PROVE AccountsTypeOK'
    BY <1>11, Writes DEF AccountsTypeOK, replaceUserRoles, OthersWait, Pending, sessionVars, 
        adminVars, RequestType
  <1>12. ASSUME NEW q \in Requests, softDeleteUser(q) PROVE AccountsTypeOK'
    BY <1>12, Writes DEF AccountsTypeOK, softDeleteUser, OthersWait, Pending, sessionVars, 
        adminVars, RequestType
  <1>13. ASSUME NEW u \in Users, NEW admin \in BOOLEAN, createUser(u, admin) PROVE AccountsTypeOK'
    BY <1>13 DEF AccountsTypeOK, createUser, sessionVars, adminVars
  <1>14. CASE UNCHANGED accountVars
    BY <1>14 DEF AccountsTypeOK, accountVars, sessionVars, adminVars
  <1> QED
    BY <1>1, <1>2, <1>3, <1>4, <1>5, <1>6, <1>7, <1>8, <1>9, <1>10, <1>11, <1>12, <1>13, <1>14 DEF AccountsNext, AuthNext, AdminNext

\* What touches no account takes no Super Admin away.
LEMMA AdminQuiet == IInv /\ UNCHANGED adminVars => SuperAdminPermanent'
  BY DEF IInv, AdminInv, SuperAdminPermanent, adminVars

\* Whoever reigns can only be undone by a request that had read another account.
LEMMA AdminStep == IInv /\ [AccountsNext]_accountVars => AdminInv'
  <1> SUFFICES ASSUME AccountsTypeOK, IInv, [AccountsNext]_accountVars PROVE AdminInv'
    BY DEF IInv
  <1>1. ASSUME NEW q \in Requests, NEW u \in Users, login(q, u) \/ refreshTokens(q, u) \/ changePassword(q, u) PROVE AdminInv'
    BY <1>1, SessionRead DEF IInv, AdminInv, RequestsAllowed, SuperAdminPermanent, AccountsTypeOK, 
        OthersWait, sessionVars, adminVars
  <1>2. ASSUME NEW q \in Requests, NEW u \in Users, NEW l \in Links, resetPassword(q, u, l) PROVE AdminInv'
    BY <1>2, LinkRead DEF IInv, AdminInv, RequestsAllowed, SuperAdminPermanent, AccountsTypeOK, 
        OthersWait, sessionVars, adminVars
  <1>3. ASSUME NEW q \in Requests, NEW u \in Users, NEW status \in {"active", "inactive"},
               NEW roles \in {"keep", "admin", "other"}, updateUser(q, u, status, roles) \/ deleteUser(q, u)
        PROVE AdminInv'
    BY <1>3, AdminRead DEF IInv, AdminInv, RequestsAllowed, SuperAdminPermanent, AccountsTypeOK, 
        OthersWait, sessionVars, adminVars
  <1>4. ASSUME NEW u \in Users, logout(u) PROVE AdminInv'
    BY <1>4 DEF IInv, AdminInv, RequestsAllowed, SuperAdminPermanent, AccountsTypeOK, logout, 
        sessionVars, adminVars, EndSession
  <1>5. ASSUME NEW u \in Users, linkExpires(u) PROVE AdminInv'
    BY <1>5 DEF IInv, AdminInv, RequestsAllowed, SuperAdminPermanent, AccountsTypeOK, linkExpires, 
        sessionVars, adminVars
  <1>6. ASSUME NEW u \in Users, NEW l \in Links, requestPasswordReset(u, l) PROVE AdminInv'
    BY <1>6 DEF IInv, AdminInv, RequestsAllowed, SuperAdminPermanent, AccountsTypeOK, 
        requestPasswordReset, sessionVars, adminVars
  <1>7. ASSUME NEW q \in Requests, issueTokenPair(q) PROVE AdminInv'
    <2>1. RequestsAllowed'
      BY <1>7, Writes DEF IInv, AdminInv, RequestsAllowed, OthersWait
    <2>2. UNCHANGED adminVars
      BY <1>7 DEF issueTokenPair
    <2> QED
      BY <2>1, <2>2, AdminQuiet DEF AdminInv
  <1>8. ASSUME NEW q \in Requests, setPassword(q) PROVE AdminInv'
    <2>1. RequestsAllowed'
      BY <1>8, Writes DEF IInv, AdminInv, RequestsAllowed, OthersWait
    <2>2. UNCHANGED adminVars
      BY <1>8 DEF setPassword
    <2> QED
      BY <2>1, <2>2, AdminQuiet DEF AdminInv
  <1>9. ASSUME NEW q \in Requests, resetWrite(q) PROVE AdminInv'
    <2>1. RequestsAllowed'
      BY <1>9, Writes DEF IInv, AdminInv, RequestsAllowed, OthersWait
    <2>2. UNCHANGED adminVars
      BY <1>9 DEF resetWrite
    <2> QED
      BY <2>1, <2>2, AdminQuiet DEF AdminInv
  <1>10. ASSUME NEW q \in Requests, updateUserRow(q) PROVE AdminInv'
    <2>1. RequestsAllowed'
      BY <1>10, Writes DEF IInv, AdminInv, RequestsAllowed, OthersWait
    <2>2. request[q] \in RequestType /\ RequestsAllowed /\ SuperAdminPermanent
      BY DEF IInv, AdminInv, AccountsTypeOK
    <2>3. SuperAdminPermanent'
      BY <1>10, <2>2 DEF SuperAdminPermanent, RequestsAllowed, AccountsTypeOK, RequestType, updateUserRow, Pending,
          Reigns, Undoes, sessionVars
    <2> QED
      BY <2>1, <2>3 DEF AdminInv
  <1>11. ASSUME NEW q \in Requests, replaceUserRoles(q) PROVE AdminInv'
    <2>1. RequestsAllowed'
      BY <1>11, Writes DEF IInv, AdminInv, RequestsAllowed, OthersWait
    <2>2. request[q] \in RequestType /\ RequestsAllowed /\ SuperAdminPermanent
      BY DEF IInv, AdminInv, AccountsTypeOK
    <2>3. SuperAdminPermanent'
      BY <1>11, <2>2 DEF SuperAdminPermanent, RequestsAllowed, AccountsTypeOK, RequestType, replaceUserRoles, Pending,
          Reigns, Undoes, sessionVars
    <2> QED
      BY <2>1, <2>3 DEF AdminInv
  <1>12. ASSUME NEW q \in Requests, softDeleteUser(q) PROVE AdminInv'
    <2>1. RequestsAllowed'
      BY <1>12, Writes DEF IInv, AdminInv, RequestsAllowed, OthersWait
    <2>2. request[q] \in RequestType /\ RequestsAllowed /\ SuperAdminPermanent
      BY DEF IInv, AdminInv, AccountsTypeOK
    <2>3. SuperAdminPermanent'
      BY <1>12, <2>2 DEF SuperAdminPermanent, RequestsAllowed, AccountsTypeOK, RequestType, softDeleteUser, Pending,
          Reigns, Undoes, sessionVars
    <2> QED
      BY <2>1, <2>3 DEF AdminInv
  <1>13. ASSUME NEW u \in Users, NEW admin \in BOOLEAN, createUser(u, admin) PROVE AdminInv'
    BY <1>13 DEF IInv, AdminInv, RequestsAllowed, SuperAdminPermanent, AccountsTypeOK, createUser, 
        sessionVars, adminVars, Reigns
  <1>14. CASE UNCHANGED accountVars
    BY <1>14 DEF IInv, AdminInv, RequestsAllowed, SuperAdminPermanent, AccountsTypeOK, accountVars, sessionVars, adminVars
  <1> QED
    BY <1>1, <1>2, <1>3, <1>4, <1>5, <1>6, <1>7, <1>8, <1>9, <1>10, <1>11, <1>12, <1>13, <1>14 DEF AccountsNext, AuthNext, AdminNext

\* Whoever ends a session makes the refreshes under way late.
LEMMA SessionStep == IInv /\ [AccountsNext]_accountVars => SessionInv'
  <1> SUFFICES ASSUME AccountsTypeOK, IInv, [AccountsNext]_accountVars PROVE SessionInv'
    BY DEF IInv
  <1>1. ASSUME NEW q \in Requests, NEW u \in Users, login(q, u) \/ refreshTokens(q, u) \/ changePassword(q, u) PROVE SessionInv'
    BY <1>1, SessionRead DEF IInv, SessionInv, EndedUntilLogin, RefreshesLate, OthersWait, 
        sessionVars, adminVars
  <1>2. ASSUME NEW q \in Requests, NEW u \in Users, NEW l \in Links, resetPassword(q, u, l) PROVE SessionInv'
    BY <1>2, LinkRead DEF IInv, SessionInv, EndedUntilLogin, RefreshesLate, OthersWait, 
        sessionVars, adminVars
  <1>3. ASSUME NEW q \in Requests, NEW u \in Users, NEW status \in {"active", "inactive"},
               NEW roles \in {"keep", "admin", "other"}, updateUser(q, u, status, roles) \/ deleteUser(q, u)
        PROVE SessionInv'
    BY <1>3, AdminRead DEF IInv, SessionInv, EndedUntilLogin, RefreshesLate, OthersWait, 
        sessionVars, adminVars
  <1>4. ASSUME NEW u \in Users, logout(u) PROVE SessionInv'
    BY <1>4 DEF IInv, SessionInv, EndedUntilLogin, RefreshesLate, logout, sessionVars, adminVars, 
        EndSession
  <1>5. ASSUME NEW u \in Users, linkExpires(u) PROVE SessionInv'
    BY <1>5 DEF IInv, SessionInv, EndedUntilLogin, RefreshesLate, linkExpires, sessionVars, 
        adminVars
  <1>6. ASSUME NEW u \in Users, NEW l \in Links, requestPasswordReset(u, l) PROVE SessionInv'
    BY <1>6 DEF IInv, SessionInv, EndedUntilLogin, RefreshesLate, requestPasswordReset, 
        sessionVars, adminVars
  <1>7. ASSUME NEW q \in Requests, issueTokenPair(q) PROVE SessionInv'
    BY <1>7, Writes DEF IInv, SessionInv, EndedUntilLogin, RefreshesLate, issueTokenPair, 
        OthersWait, Pending, sessionVars, adminVars
  <1>8. ASSUME NEW q \in Requests, setPassword(q) PROVE SessionInv'
    BY <1>8, Writes DEF IInv, SessionInv, EndedUntilLogin, RefreshesLate, setPassword, OthersWait, 
        Pending, sessionVars, adminVars, EndSession
  <1>9. ASSUME NEW q \in Requests, resetWrite(q) PROVE SessionInv'
    BY <1>9, Writes DEF IInv, SessionInv, EndedUntilLogin, RefreshesLate, resetWrite, OthersWait, 
        Pending, sessionVars, adminVars, EndSession, LinkAfter
  <1>10. ASSUME NEW q \in Requests, updateUserRow(q) PROVE SessionInv'
    BY <1>10, Writes DEF IInv, SessionInv, EndedUntilLogin, RefreshesLate, updateUserRow, 
        OthersWait, Pending, sessionVars, adminVars
  <1>11. ASSUME NEW q \in Requests, replaceUserRoles(q) PROVE SessionInv'
    BY <1>11, Writes DEF IInv, SessionInv, EndedUntilLogin, RefreshesLate, replaceUserRoles, 
        OthersWait, Pending, sessionVars, adminVars
  <1>12. ASSUME NEW q \in Requests, softDeleteUser(q) PROVE SessionInv'
    BY <1>12, Writes DEF IInv, SessionInv, EndedUntilLogin, RefreshesLate, softDeleteUser, 
        OthersWait, Pending, sessionVars, adminVars
  <1>13. ASSUME NEW u \in Users, NEW admin \in BOOLEAN, createUser(u, admin) PROVE SessionInv'
    BY <1>13 DEF IInv, SessionInv, EndedUntilLogin, RefreshesLate, createUser, sessionVars, 
        adminVars
  <1>14. CASE UNCHANGED accountVars
    BY <1>14 DEF IInv, SessionInv, EndedUntilLogin, RefreshesLate, accountVars, sessionVars, adminVars
  <1> QED
    BY <1>1, <1>2, <1>3, <1>4, <1>5, <1>6, <1>7, <1>8, <1>9, <1>10, <1>11, <1>12, <1>13, <1>14 DEF AccountsNext, AuthNext, AdminNext

\* Whoever uses a link leaves it to those only who hold it.
LEMMA LinkStep == IInv /\ [AccountsNext]_accountVars => LinkInv'
  <1> SUFFICES ASSUME AccountsTypeOK, IInv, [AccountsNext]_accountVars PROVE LinkInv'
    BY DEF IInv
  <1>1. ASSUME NEW q \in Requests, NEW u \in Users, login(q, u) \/ refreshTokens(q, u) \/ changePassword(q, u) PROVE LinkInv'
    BY <1>1, SessionRead DEF IInv, LinkInv, LinksDrawn, LinksHeld, AccountsTypeOK, OthersWait, 
        sessionVars, adminVars
  <1>2. ASSUME NEW q \in Requests, NEW u \in Users, NEW l \in Links, resetPassword(q, u, l) PROVE LinkInv'
    <2>1. UNCHANGED <<link, spent, used, holding>>
      BY <1>2, LinkRead DEF sessionVars
    <2>2. LinksDrawn'
      BY <2>1 DEF IInv, LinkInv, LinksDrawn
    <2>3. link[u] = l /\ l # NoLink
      BY <1>2, LinkRead, AccountsAssumption
    <2>4. l \in spent /\ l \notin used /\ \A v \in Users : link[v] = l => v = u
      BY <2>3 DEF IInv, LinkInv, LinksDrawn
    <2>5. LinksHeld'
      BY <1>2, <2>1, <2>4, LinkRead DEF IInv, LinkInv, LinksHeld, OthersWait
    <2> QED
      BY <2>2, <2>5 DEF LinkInv
  <1>3. ASSUME NEW q \in Requests, NEW u \in Users, NEW status \in {"active", "inactive"},
               NEW roles \in {"keep", "admin", "other"}, updateUser(q, u, status, roles) \/ deleteUser(q, u)
        PROVE LinkInv'
    BY <1>3, AdminRead DEF IInv, LinkInv, LinksDrawn, LinksHeld, AccountsTypeOK, OthersWait, 
        sessionVars, adminVars
  <1>4. ASSUME NEW u \in Users, logout(u) PROVE LinkInv'
    BY <1>4 DEF IInv, LinkInv, LinksDrawn, LinksHeld, AccountsTypeOK, logout, sessionVars, 
        adminVars, EndSession
  <1>5. ASSUME NEW u \in Users, linkExpires(u) PROVE LinkInv'
    BY <1>5 DEF IInv, LinkInv, LinksDrawn, LinksHeld, AccountsTypeOK, linkExpires, sessionVars, 
        adminVars
  <1>6. ASSUME NEW u \in Users, NEW l \in Links, requestPasswordReset(u, l) PROVE LinkInv'
    <2>1. l \notin spent /\ l # NoLink /\ UNCHANGED <<used, holding, request>>
      BY <1>6, AccountsAssumption DEF requestPasswordReset
    <2>2. spent' = spent \cup {l} /\ \A v \in Users : link'[v] = IF v = u THEN l ELSE link[v]
      BY <1>6 DEF requestPasswordReset, AccountsTypeOK
    <2>3. LinksDrawn'
      BY <2>1, <2>2 DEF IInv, LinkInv, LinksDrawn
    <2>4. LinksHeld'
      BY <2>1, <2>2 DEF IInv, LinkInv, LinksHeld
    <2> QED
      BY <2>3, <2>4 DEF LinkInv
  <1>7. ASSUME NEW q \in Requests, issueTokenPair(q) PROVE LinkInv'
    <2>1. UNCHANGED <<link, spent, used, holding>>
      BY <1>7 DEF issueTokenPair, sessionVars
    <2>2. LinksDrawn'
      BY <2>1 DEF IInv, LinkInv, LinksDrawn
    <2>3. LinksHeld'
      BY <1>7, <2>1, Writes DEF IInv, LinkInv, LinksHeld, OthersWait
    <2> QED
      BY <2>2, <2>3 DEF LinkInv
  <1>8. ASSUME NEW q \in Requests, setPassword(q) PROVE LinkInv'
    <2>1. UNCHANGED <<link, spent, used, holding>>
      BY <1>8 DEF setPassword, sessionVars
    <2>2. LinksDrawn'
      BY <2>1 DEF IInv, LinkInv, LinksDrawn
    <2>3. LinksHeld'
      BY <1>8, <2>1, Writes DEF IInv, LinkInv, LinksHeld, OthersWait
    <2> QED
      BY <2>2, <2>3 DEF LinkInv
  <1>9. ASSUME NEW q \in Requests, resetWrite(q) PROVE LinkInv'
    <2> DEFINE l == request[q].link
    <2>1. l \in spent /\ \A v \in Users : link[v] = l => v = request[q].user
      BY <1>9 DEF resetWrite, Pending, IInv, LinkInv, LinksHeld
    <2>2. \A v \in Users : link'[v] = IF v = request[q].user THEN NoLink ELSE link[v]
      BY <1>9 DEF resetWrite, LinkAfter, AccountsTypeOK
    <2>3. used' = used \cup {l} /\ UNCHANGED spent
      BY <1>9 DEF resetWrite
    <2>4. LinksDrawn'
      BY <2>1, <2>2, <2>3 DEF IInv, LinkInv, LinksDrawn
    <2>5. \A p \in Requests \ {q} : request[p].op = "reset" /\ request[p].link \in used' => p \in holding'
      BY <1>9, <2>3 DEF resetWrite, Holders, Pending, IInv, LinkInv, LinksHeld
    <2>6. request'[q].op = "none" /\ OthersWait(q)
      BY <1>9, AnswerOne DEF resetWrite, OthersWait
    <2>7. NoLink \notin spent
      BY DEF IInv, LinkInv, LinksDrawn
    <2>8. LinksHeld'
      BY <2>2, <2>3, <2>5, <2>6, <2>7 DEF IInv, LinkInv, LinksHeld, OthersWait
    <2> QED
      BY <2>4, <2>8 DEF LinkInv
  <1>10. ASSUME NEW q \in Requests, updateUserRow(q) PROVE LinkInv'
    <2>1. UNCHANGED <<link, spent, used, holding>>
      BY <1>10 DEF updateUserRow, sessionVars
    <2>2. LinksDrawn'
      BY <2>1 DEF IInv, LinkInv, LinksDrawn
    <2>3. LinksHeld'
      BY <1>10, <2>1, Writes DEF IInv, LinkInv, LinksHeld, OthersWait
    <2> QED
      BY <2>2, <2>3 DEF LinkInv
  <1>11. ASSUME NEW q \in Requests, replaceUserRoles(q) PROVE LinkInv'
    <2>1. UNCHANGED <<link, spent, used, holding>>
      BY <1>11 DEF replaceUserRoles, sessionVars
    <2>2. LinksDrawn'
      BY <2>1 DEF IInv, LinkInv, LinksDrawn
    <2>3. LinksHeld'
      BY <1>11, <2>1, Writes DEF IInv, LinkInv, LinksHeld, OthersWait
    <2> QED
      BY <2>2, <2>3 DEF LinkInv
  <1>12. ASSUME NEW q \in Requests, softDeleteUser(q) PROVE LinkInv'
    <2>1. UNCHANGED <<link, spent, used, holding>>
      BY <1>12 DEF softDeleteUser, sessionVars
    <2>2. LinksDrawn'
      BY <2>1 DEF IInv, LinkInv, LinksDrawn
    <2>3. LinksHeld'
      BY <1>12, <2>1, Writes DEF IInv, LinkInv, LinksHeld, OthersWait
    <2> QED
      BY <2>2, <2>3 DEF LinkInv
  <1>13. ASSUME NEW u \in Users, NEW admin \in BOOLEAN, createUser(u, admin) PROVE LinkInv'
    BY <1>13 DEF IInv, LinkInv, LinksDrawn, LinksHeld, AccountsTypeOK, createUser, sessionVars, 
        adminVars
  <1>14. CASE UNCHANGED accountVars
    BY <1>14 DEF IInv, LinkInv, LinksDrawn, LinksHeld, AccountsTypeOK, accountVars, sessionVars, adminVars
  <1> QED
    BY <1>1, <1>2, <1>3, <1>4, <1>5, <1>6, <1>7, <1>8, <1>9, <1>10, <1>11, <1>12, <1>13, <1>14 DEF AccountsNext, AuthNext, AdminNext

-----------------------------------------------------------------------------

\* Every step preserves the invariant: the cases above together.
LEMMA AccountsStep == IInv /\ [AccountsNext]_accountVars => IInv'
  BY TypeStep, AdminStep, SessionStep, LinkStep DEF IInv

\* The invariant of the theorems below.
LEMMA AccountsInvariant == AccountsSpec => []IInv
  BY AccountsInitial, AccountsStep, PTL DEF AccountsSpec

\* "The Super Admin account and its role are permanent" (userService.js:54-56), for
\* any number of users and of administrators who edit them at once, but for a
\* request that had read the account before it became one.
THEOREM SuperAdminStays == AccountsSpec => []SuperAdminPermanent
  <1>1. IInv => SuperAdminPermanent
    BY DEF IInv, AdminInv
  <1> QED
    BY AccountsInvariant, <1>1, PTL

\* A session that a logout or a new password has ended is of no use until the next
\* login, unless a request that had read it wrote it back (authService.js:100).
THEOREM SessionsEnd == AccountsSpec => []EndedUntilLogin
  <1>1. IInv => EndedUntilLogin
    BY DEF IInv, SessionInv
  <1> QED
    BY AccountsInvariant, <1>1, PTL

\* A reset link sets one password, unless two requests had found it before either
\* of them wrote (authService.js:133).
THEOREM LinksAreUsedOnce == AccountsSpec => LinkUsedOnce
  <1>1. IInv => \A q \in Requests : Pending(q, "reset") => request[q].link \notin used \/ q \in holding
    BY DEF IInv, LinkInv, LinksHeld, Pending
  <1>2. IInv /\ [AccountsNext]_accountVars =>
            [\A q \in Requests : Pending(q, "reset") /\ request'[q] = NoRequest
                 => request[q].link \notin used \/ q \in holding]_accountVars
    BY <1>1
  <1> QED
    BY AccountsInvariant, <1>2, PTL DEF AccountsSpec, LinkUsedOnce

-----------------------------------------------------------------------------
\* Rate limits

RateTypeOK ==
    /\ now \in Nat /\ now <= LastTick
    /\ buckets \in [LimitKeys -> [count : Nat, windowStart : Nat]]
    /\ admitted \in [LimitKeys -> Seq(Nat)]
    /\ answer429 \in LimitKeys \cup {NoKey}

\* The bucket counts the requests let in since its window began, which is over
\* for none of them; without a bucket there were none.
BucketCounts ==
    \A k \in LimitKeys :
        /\ buckets[k].windowStart <= now /\ buckets[k].count <= Limit
        /\ \A i \in DOMAIN admitted[k] :
              admitted[k][i] <= now /\ admitted[k][i] < buckets[k].windowStart + WindowMs
        /\ During(k, {t \in Nat : t >= buckets[k].windowStart}) = buckets[k].count
        /\ buckets[k].count = 0 => admitted[k] = <<>>

\* A stretch that ends where the present window begins takes one limit.
BeforeWindow ==
    \A k \in LimitKeys, t \in Nat :
        t + WindowMs > buckets[k].windowStart =>
            During(k, {u \in Nat : t <= u /\ u < buckets[k].windowStart}) <= Limit

RefusedFull ==
    \A k \in LimitKeys : answer429 = k => ~Expired(k) /\ Full(k)

RateInv == RateTypeOK /\ BucketCounts /\ BeforeWindow /\ RefusedFull /\ AtMostTwice

\* The requests of a history that came during the ticks of T.
LetInAt(q, T) == {i \in DOMAIN q : q[i] \in T}

\* What was let in during a stretch of time is finite.
LEMMA LetInFinite ==
    ASSUME NEW q \in Seq(Nat), NEW T
    PROVE  IsFiniteSet(LetInAt(q, T)) /\ Cardinality(LetInAt(q, T)) \in Nat
<1>1. IsFiniteSet(1..Len(q))
  BY FS_Interval
<1>2. LetInAt(q, T) \subseteq 1..Len(q)
  BY DEF LetInAt
<1>3. IsFiniteSet(LetInAt(q, T))
  BY <1>1, <1>2, FS_Subset
<1> QED BY <1>3, FS_CardinalityType

\* One more request counts where it came.
LEMMA LetInAppend ==
    ASSUME NEW q \in Seq(Nat), NEW n \in Nat, NEW T
    PROVE  Cardinality(LetInAt(Append(q, n), T)) = Cardinality(LetInAt(q, T)) + (IF n \in T THEN 1 ELSE 0)
<1> DEFINE m == Len(q) + 1
<1>1. /\ DOMAIN Append(q, n) = 1..m /\ DOMAIN q = 1..Len(q) /\ Len(q) \in Nat
      /\ Append(q, n)[m] = n /\ \A i \in 1..Len(q) : Append(q, n)[i] = q[i]
  OBVIOUS
<1>2. m \notin LetInAt(q, T)
  BY <1>1 DEF LetInAt
<1>5. Cardinality(LetInAt(q, T)) \in Nat /\ IsFiniteSet(LetInAt(q, T))
  BY LetInFinite
<1>3. CASE n \in T
  <2>1. LetInAt(Append(q, n), T) = LetInAt(q, T) \cup {m}
    BY <1>1, <1>3 DEF LetInAt
  <2> QED BY <1>2, <1>3, <1>5, <2>1, FS_AddElement
<1>4. CASE n \notin T
  <2>1. LetInAt(Append(q, n), T) = LetInAt(q, T)
    BY <1>1, <1>4 DEF LetInAt
  <2> QED BY <1>4, <1>5, <2>1
<1> QED BY <1>3, <1>4

\* Ticks that hold the requests of others hold as many.
LEMMA LetInMore ==
    ASSUME NEW q \in Seq(Nat), NEW T, NEW U, \A i \in DOMAIN q : q[i] \in T => q[i] \in U
    PROVE  Cardinality(LetInAt(q, T)) <= Cardinality(LetInAt(q, U))
<1>1. LetInAt(q, T) \subseteq LetInAt(q, U)
  BY DEF LetInAt
<1> QED BY <1>1, LetInFinite, FS_Subset

\* A stretch lets in no more than two that cover it.
LEMMA LetInSplit ==
    ASSUME NEW q \in Seq(Nat), NEW T, NEW U, NEW V, \A i \in DOMAIN q : q[i] \in T => q[i] \in U \cup V
    PROVE  Cardinality(LetInAt(q, T)) <= Cardinality(LetInAt(q, U)) + Cardinality(LetInAt(q, V))
<1> DEFINE A == LetInAt(q, U)
           B == LetInAt(q, V)
<1>1. IsFiniteSet(A) /\ IsFiniteSet(B) /\ Cardinality(A) \in Nat /\ Cardinality(B) \in Nat
  BY LetInFinite
<1>2. LetInAt(q, T) \subseteq A \cup B
  BY DEF LetInAt
<1> HIDE DEF A, B
<1>3. /\ IsFiniteSet(A \cup B)
      /\ Cardinality(A \cup B) = Cardinality(A) + Cardinality(B) - Cardinality(A \cap B)
  BY <1>1, FS_Union
<1>4. Cardinality(A \cap B) \in Nat
  BY <1>1, FS_Intersection, FS_CardinalityType
<1>5. Cardinality(LetInAt(q, T)) <= Cardinality(A \cup B)
  BY <1>2, <1>3, FS_Subset
<1>6. Cardinality(A \cup B) \in Nat /\ Cardinality(LetInAt(q, T)) \in Nat
  BY <1>3, LetInFinite, FS_CardinalityType
<1>7. Cardinality(LetInAt(q, T)) <= Cardinality(A) + Cardinality(B)
  BY <1>1, <1>3, <1>4, <1>5, <1>6
<1> QED BY <1>7 DEF A, B

\* The ticks from n on, those from t until before n, and the stretch that begins at t.
Since(n) == {t \in Nat : t >= n}
Before(t, n) == {u \in Nat : t <= u /\ u < n}
Stretch(t) == t..(t + WindowMs - 1)

\* What the invariant says of one key's bucket and history.
KeyFair(q, b, n) ==
    /\ b.windowStart <= n /\ b.count <= Limit
    /\ \A i \in DOMAIN q : q[i] <= n /\ q[i] < b.windowStart + WindowMs
    /\ Cardinality(LetInAt(q, Since(b.windowStart))) = b.count
    /\ b.count = 0 => q = <<>>
    /\ \A t \in Nat : t + WindowMs > b.windowStart =>
          Cardinality(LetInAt(q, Before(t, b.windowStart))) <= Limit
    /\ \A t \in Ticks : Cardinality(LetInAt(q, Stretch(t))) <= 2 * Limit

EachKeyFair == \A k \in LimitKeys : KeyFair(admitted[k], buckets[k], now)

\* The invariant of each key, clause by clause.
LEMMA KeysFair == EachKeyFair <=> BucketCounts /\ BeforeWindow /\ AtMostTwice
  BY DEF EachKeyFair, KeyFair, BucketCounts, BeforeWindow, AtMostTwice, During, LetInAt, Since, Before, Stretch

\* Nobody let in yet.
LEMMA NobodyFair ==
    ASSUME NEW n \in Nat
    PROVE  KeyFair(<<>>, NoBucket, n)
<1>1. NoBucket.windowStart = 0 /\ NoBucket.count = 0 /\ NoBucket.windowStart <= n
  BY DEF NoBucket
<1>2. \A T : LetInAt(<<>>, T) = {}
  BY DEF LetInAt
<1>3. \A T : Cardinality(LetInAt(<<>>, T)) = 0
  BY <1>2, FS_EmptySet
<1> QED BY <1>1, <1>3, RateAssumption DEF KeyFair

\* A request begins a window: the one before takes a limit of any stretch.
LEMMA NewWindowFair ==
    ASSUME NEW q \in Seq(Nat), NEW b \in [count : Nat, windowStart : Nat], NEW n \in Nat, KeyFair(q, b, n),
           b.count = 0 \/ n - b.windowStart >= WindowMs
    PROVE  KeyFair(Append(q, n), [count |-> 1, windowStart |-> n], n)
<1> DEFINE c == [count |-> 1, windowStart |-> n]
           p == Append(q, n)
<1> USE RateAssumption
<1>1. /\ c.count = 1 /\ c.windowStart = n /\ p \in Seq(Nat) /\ p # <<>>
      /\ DOMAIN p = 1..(Len(q) + 1) /\ p[Len(q) + 1] = n /\ DOMAIN q = 1..Len(q)
      /\ \A i \in DOMAIN q : p[i] = q[i] /\ q[i] \in Nat
  OBVIOUS
<1>2. /\ b.count \in Nat /\ b.windowStart \in Nat /\ b.count <= Limit
      /\ Cardinality(LetInAt(q, Since(b.windowStart))) <= Limit
      /\ \A i \in DOMAIN q : q[i] <= n /\ q[i] < b.windowStart + WindowMs
      /\ b.count = 0 => q = <<>>
  BY DEF KeyFair
<1>3. ASSUME NEW t \in Nat, t + WindowMs > n, NEW T, \A i \in DOMAIN q : q[i] \in T => q[i] >= t
      PROVE  Cardinality(LetInAt(q, T)) <= Limit
  <2>1. \A i \in DOMAIN q : q[i] \in T => q[i] \in Since(b.windowStart)
    <3>1. CASE b.count = 0
      BY <1>2, <3>1
    <3>2. CASE n - b.windowStart >= WindowMs
      BY <1>2, <1>3, <3>2 DEF Since
    <3> QED BY <3>1, <3>2
  <2>2. Cardinality(LetInAt(q, T)) <= Cardinality(LetInAt(q, Since(b.windowStart)))
    BY <2>1, LetInMore
  <2>3. Cardinality(LetInAt(q, T)) \in Nat /\ Cardinality(LetInAt(q, Since(b.windowStart))) \in Nat
    BY LetInFinite
  <2> QED BY <1>2, <2>2, <2>3
<1>4. \A i \in DOMAIN q : q[i] < n
  BY <1>1, <1>2
<1>5. Cardinality(LetInAt(p, Since(n))) = 1
  <2>1. LetInAt(q, Since(n)) = {}
    BY <1>1, <1>4 DEF LetInAt, Since
  <2>2. Cardinality(LetInAt(q, Since(n))) = 0
    BY <2>1, FS_EmptySet
  <2>3. n \in Since(n)
    BY DEF Since
  <2> QED BY <2>2, <2>3, LetInAppend
<1> HIDE DEF p, c
<1>6. \A i \in DOMAIN p : p[i] <= n /\ p[i] < n + WindowMs
  BY <1>1, <1>4
<1>7. ASSUME NEW t \in Nat, t + WindowMs > n
      PROVE  Cardinality(LetInAt(p, Before(t, n))) <= Limit
  <2>1. n \notin Before(t, n) /\ \A i \in DOMAIN q : q[i] \in Before(t, n) => q[i] >= t
    BY DEF Before
  <2>2. Cardinality(LetInAt(q, Before(t, n))) <= Limit
    BY <1>3, <1>7, <2>1
  <2>3. Cardinality(LetInAt(q, Before(t, n))) \in Nat
    BY LetInFinite
  <2> QED BY <2>1, <2>2, <2>3, LetInAppend DEF p
<1>8. ASSUME NEW t \in Ticks
      PROVE  Cardinality(LetInAt(p, Stretch(t))) <= 2 * Limit
  <2>1. t \in Nat /\ Cardinality(LetInAt(q, Stretch(t))) \in Nat
    BY LetInFinite DEF Ticks
  <2>2. CASE n \in Stretch(t)
    <3>1. t + WindowMs > n
      BY <2>1, <2>2 DEF Stretch
    <3>2. \A i \in DOMAIN q : q[i] \in Stretch(t) => q[i] >= t
      BY <1>1, <2>1 DEF Stretch
    <3>3. Cardinality(LetInAt(q, Stretch(t))) <= Limit
      BY <1>3, <2>1, <3>1, <3>2
    <3> QED BY <2>1, <2>2, <3>3, LetInAppend DEF p
  <2>3. CASE n \notin Stretch(t)
    <3>1. Cardinality(LetInAt(q, Stretch(t))) <= 2 * Limit
      BY DEF KeyFair
    <3> QED BY <2>1, <2>3, <3>1, LetInAppend DEF p
  <2> QED BY <2>2, <2>3
<1> QED BY <1>1, <1>5, <1>6, <1>7, <1>8 DEF KeyFair, p, c

\* A request joins the window, which has not had its limit.
LEMMA SameWindowFair ==
    ASSUME NEW q \in Seq(Nat), NEW b \in [count : Nat, windowStart : Nat], NEW n \in Nat, KeyFair(q, b, n),
           ~(n - b.windowStart >= WindowMs), b.count < Limit,
           NEW c \in [count : Nat, windowStart : Nat],
           c.count = b.count + 1, c.windowStart = b.windowStart
    PROVE  KeyFair(Append(q, n), c, n)
<1> DEFINE p == Append(q, n)
           s == b.windowStart
<1> USE RateAssumption
<1>1. /\ p \in Seq(Nat) /\ s \in Nat /\ b.count \in Nat /\ Len(q) \in Nat
      /\ DOMAIN p = 1..(Len(q) + 1) /\ p[Len(q) + 1] = n /\ DOMAIN q = 1..Len(q)
      /\ \A i \in DOMAIN q : p[i] = q[i] /\ q[i] \in Nat
  OBVIOUS
<1>2. /\ s <= n /\ \A i \in DOMAIN q : q[i] <= n /\ q[i] < s + WindowMs
      /\ Cardinality(LetInAt(q, Since(s))) = b.count
      /\ \A t \in Nat : t + WindowMs > s => Cardinality(LetInAt(q, Before(t, s))) <= Limit
      /\ \A t \in Ticks : Cardinality(LetInAt(q, Stretch(t))) <= 2 * Limit
  BY DEF KeyFair
<1>3. \A T : /\ Cardinality(LetInAt(q, T)) \in Nat
             /\ Cardinality(LetInAt(p, T)) = Cardinality(LetInAt(q, T)) + (IF n \in T THEN 1 ELSE 0)
  BY LetInFinite, LetInAppend
<1> HIDE DEF p, s
<1>4. \A i \in DOMAIN p : p[i] <= n /\ p[i] < s + WindowMs
  <2>1. n < s + WindowMs
    BY <1>1 DEF s
  <2>2. \A i \in DOMAIN p : i \in DOMAIN q \/ i = Len(q) + 1
    BY <1>1
  <2> SUFFICES ASSUME NEW i \in DOMAIN p PROVE p[i] <= n /\ p[i] < s + WindowMs
    OBVIOUS
  <2>3. CASE i \in DOMAIN q
    <3>1. p[i] = q[i] /\ q[i] <= n /\ q[i] < s + WindowMs
      BY <1>1, <1>2, <2>3
    <3> QED BY <3>1
  <2>4. CASE i = Len(q) + 1
    <3>1. p[i] = n
      BY <1>1, <2>4
    <3> QED BY <2>1, <3>1
  <2> QED BY <2>2, <2>3, <2>4
<1>5. Cardinality(LetInAt(p, Since(s))) = b.count + 1
  <2>1. n \in Since(s)
    BY <1>2 DEF Since
  <2> QED BY <1>2, <1>3, <2>1
<1>6. ASSUME NEW t \in Nat, t + WindowMs > s
      PROVE  Cardinality(LetInAt(p, Before(t, s))) <= Limit
  <2>1. n \notin Before(t, s)
    BY <1>1, <1>2 DEF Before
  <2>2. Cardinality(LetInAt(p, Before(t, s))) = Cardinality(LetInAt(q, Before(t, s)))
    BY <1>3, <2>1
  <2> QED BY <1>2, <1>6, <2>2
<1>7. ASSUME NEW t \in Ticks
      PROVE  Cardinality(LetInAt(p, Stretch(t))) <= 2 * Limit
  <2>1. t \in Nat
    BY DEF Ticks
  <2>2. CASE n \in Stretch(t)
    <3>1. t + WindowMs > s
      BY <1>1, <1>2, <2>1, <2>2 DEF Stretch
    <3>2. Cardinality(LetInAt(q, Before(t, s))) <= Limit
      BY <1>2, <2>1, <3>1
    <3>3. \A i \in DOMAIN q : q[i] \in Stretch(t) => q[i] \in Before(t, s) \cup Since(s)
      BY <1>1, <2>1 DEF Stretch, Before, Since
    <3>4. Cardinality(LetInAt(q, Stretch(t))) <= Cardinality(LetInAt(q, Before(t, s))) + Cardinality(LetInAt(q, Since(s)))
      BY <3>3, LetInSplit
    <3>5. Cardinality(LetInAt(p, Stretch(t))) = Cardinality(LetInAt(q, Stretch(t))) + 1
      BY <1>3, <2>2
    <3>6. /\ Cardinality(LetInAt(q, Before(t, s))) \in Nat /\ Cardinality(LetInAt(q, Stretch(t))) \in Nat
      BY <1>3
    <3> QED BY <1>1, <1>2, <3>2, <3>4, <3>5, <3>6
  <2>3. CASE n \notin Stretch(t)
    <3>1. Cardinality(LetInAt(p, Stretch(t))) = Cardinality(LetInAt(q, Stretch(t)))
      BY <1>3, <2>3
    <3> QED BY <1>2, <3>1
  <2> QED BY <2>2, <2>3
<1>8. c.count <= Limit /\ c.count # 0 /\ c.windowStart = s
  BY <1>1 DEF s
<1> QED BY <1>2, <1>4, <1>5, <1>6, <1>7, <1>8 DEF KeyFair, p

\* One request more in a bucket.
LEMMA CountUp ==
    ASSUME NEW b \in [count : Nat, windowStart : Nat], NEW c, c = [b EXCEPT !.count = b.count + 1]
    PROVE  /\ c \in [count : Nat, windowStart : Nat]
           /\ c.count = b.count + 1 /\ c.windowStart = b.windowStart
  OBVIOUS

\* A request that is let in, by a step of the key's bucket.
LEMMA EnforceKeeps ==
    ASSUME RateInv, NEW k \in LimitKeys, newWindow(k) \/ sameWindow(k)
    PROVE  RateInv'
<1> USE RateAssumption
<1>1. /\ now' = now /\ answer429' = NoKey
      /\ admitted' = [admitted EXCEPT ![k] = Append(@, now)]
  BY DEF newWindow, sameWindow, LetIn
<1>2. /\ now \in Nat /\ buckets \in [LimitKeys -> [count : Nat, windowStart : Nat]]
      /\ admitted[k] \in Seq(Nat) /\ admitted \in [LimitKeys -> Seq(Nat)]
      /\ buckets[k] \in [count : Nat, windowStart : Nat]
  BY DEF RateInv, RateTypeOK
<1>3. \A j \in LimitKeys : KeyFair(admitted[j], buckets[j], now)
  BY KeysFair DEF RateInv, EachKeyFair
<1>4. /\ buckets' \in [LimitKeys -> [count : Nat, windowStart : Nat]]
      /\ \A j \in LimitKeys : j # k => buckets'[j] = buckets[j]
      /\ KeyFair(Append(admitted[k], now), buckets'[k], now)
  <2>1. CASE newWindow(k)
    <3>1. /\ buckets' = [buckets EXCEPT ![k] = [count |-> 1, windowStart |-> now]]
          /\ buckets[k].count = 0 \/ now - buckets[k].windowStart >= WindowMs
      BY <2>1 DEF newWindow, Expired
    <3>2. KeyFair(Append(admitted[k], now), [count |-> 1, windowStart |-> now], now)
      BY <1>2, <1>3, <3>1, NewWindowFair
    <3> QED BY <1>2, <3>1, <3>2
  <2>2. CASE sameWindow(k)
    <3>1. /\ buckets' = [buckets EXCEPT ![k].count = @ + 1]
          /\ ~(now - buckets[k].windowStart >= WindowMs) /\ ~(buckets[k].count >= Limit)
      BY <2>2 DEF sameWindow, Expired, Full
    <3>5. /\ buckets'[k] = [buckets[k] EXCEPT !.count = buckets[k].count + 1]
          /\ \A j \in LimitKeys : j # k => buckets'[j] = buckets[j]
          /\ DOMAIN buckets' = LimitKeys /\ buckets' = [j \in LimitKeys |-> buckets'[j]]
      BY <1>2, <3>1
    <3>6. /\ buckets'[k] \in [count : Nat, windowStart : Nat]
          /\ buckets'[k].count = buckets[k].count + 1 /\ buckets'[k].windowStart = buckets[k].windowStart
      BY <1>2, <3>5, CountUp
    <3>2. buckets' \in [LimitKeys -> [count : Nat, windowStart : Nat]]
      BY <1>2, <3>5, <3>6
    <3>3. buckets[k].count < Limit
      BY <1>2, <3>1
    <3>4. KeyFair(Append(admitted[k], now), buckets'[k], now)
      BY <1>2, <1>3, <3>1, <3>3, <3>6, SameWindowFair
    <3> QED BY <3>2, <3>4, <3>5
  <2> QED BY <2>1, <2>2
<1>5. /\ admitted' \in [LimitKeys -> Seq(Nat)] /\ admitted'[k] = Append(admitted[k], now)
      /\ \A j \in LimitKeys : j # k => admitted'[j] = admitted[j]
  BY <1>1, <1>2
<1>6. EachKeyFair'
  BY <1>1, <1>3, <1>4, <1>5 DEF EachKeyFair
<1>7. (BucketCounts /\ BeforeWindow /\ AtMostTwice)'
  BY <1>6, KeysFair, PTL
<1>8. RateTypeOK' /\ RefusedFull'
  BY <1>1, <1>4, <1>5 DEF RateInv, RateTypeOK, RefusedFull
<1> QED BY <1>7, <1>8 DEF RateInv

\* A step of the clock, after which old requests are older, and a refusal.
LEMMA ClockKeeps ==
    ASSUME RateInv, tick \/ \E k \in LimitKeys : tooManyRequests(k)
    PROVE  RateInv'
<1> USE RateAssumption
<1>1. /\ UNCHANGED <<buckets, admitted>> /\ now' \in Nat /\ now <= now' /\ now' <= LastTick
      /\ answer429' \in LimitKeys \cup {NoKey}
  BY DEF tick, tooManyRequests, RateInv, RateTypeOK
<1>2. EachKeyFair /\ now \in Nat
  BY KeysFair DEF RateInv, RateTypeOK
<1>3. ASSUME NEW k \in LimitKeys PROVE KeyFair(admitted'[k], buckets'[k], now')
  <2>1. /\ admitted[k] \in Seq(Nat) /\ buckets[k].windowStart \in Nat
        /\ KeyFair(admitted[k], buckets[k], now)
    BY <1>2 DEF EachKeyFair, RateInv, RateTypeOK
  <2>2. \A i \in DOMAIN admitted[k] : admitted[k][i] \in Nat
    BY <2>1
  <2>3. /\ buckets[k].windowStart <= now'
        /\ \A i \in DOMAIN admitted[k] : admitted[k][i] <= now'
    BY <1>1, <1>2, <2>1, <2>2 DEF KeyFair
  <2> QED BY <1>1, <2>1, <2>3 DEF KeyFair
<1>4. EachKeyFair'
  BY <1>3 DEF EachKeyFair
<1>5. (BucketCounts /\ BeforeWindow /\ AtMostTwice)'
  BY <1>4, KeysFair, PTL
<1>6. RateTypeOK'
  BY <1>1 DEF RateInv, RateTypeOK
<1>7. RefusedFull'
  <2>1. CASE tick
    BY <2>1 DEF tick, RefusedFull
  <2>2. ASSUME NEW k \in LimitKeys, tooManyRequests(k) PROVE RefusedFull'
    BY <2>2 DEF tooManyRequests, RefusedFull, Expired, Full
  <2> QED BY <2>1, <2>2
<1> QED BY <1>5, <1>6, <1>7 DEF RateInv

\* Every step of the limiter preserves the invariant.
LEMMA RateStep == RateInv /\ [RateNext]_rateVars => RateInv'
<1> SUFFICES ASSUME RateInv, [RateNext]_rateVars PROVE RateInv'
  OBVIOUS
<1>1. CASE tick \/ \E k \in LimitKeys : tooManyRequests(k)
  BY <1>1, ClockKeeps
<1>2. ASSUME NEW k \in LimitKeys, newWindow(k) \/ sameWindow(k) PROVE RateInv'
  BY <1>2, EnforceKeeps
<1>3. CASE restart
  <2>1. /\ now' = now /\ answer429' = NoKey
        /\ buckets' = [k \in LimitKeys |-> NoBucket] /\ admitted' = [k \in LimitKeys |-> <<>>]
    BY <1>3 DEF restart
  <2>2. EachKeyFair'
    BY <2>1, NobodyFair DEF EachKeyFair, RateInv, RateTypeOK
  <2>3. (BucketCounts /\ BeforeWindow /\ AtMostTwice)'
    BY <2>2, KeysFair, PTL
  <2>4. NoBucket \in [count : Nat, windowStart : Nat]
    BY DEF NoBucket
  <2>5. RateTypeOK' /\ RefusedFull'
    BY <2>1, <2>4, RateAssumption DEF RateInv, RateTypeOK, RefusedFull
  <2> QED BY <2>3, <2>5 DEF RateInv
<1>4. CASE UNCHANGED rateVars
  BY <1>4 DEF rateVars, RateInv, RateTypeOK, BucketCounts, BeforeWindow, RefusedFull, AtMostTwice,
              During, Expired, Full
<1> QED BY <1>1, <1>2, <1>3, <1>4 DEF RateNext, enforce

\* The empty buckets satisfy it.
LEMMA InitRate == RateInit => RateInv
<1> SUFFICES ASSUME RateInit PROVE RateInv
  OBVIOUS
<1>1. /\ now = 0 /\ answer429 = NoKey
      /\ buckets = [k \in LimitKeys |-> NoBucket] /\ admitted = [k \in LimitKeys |-> <<>>]
  BY DEF RateInit
<1>2. EachKeyFair
  BY <1>1, NobodyFair DEF EachKeyFair
<1>3. NoBucket \in [count : Nat, windowStart : Nat]
  BY DEF NoBucket
<1> QED BY <1>1, <1>2, <1>3, KeysFair, RateAssumption DEF RateInv, RateTypeOK, RefusedFull

\* A refusal is of a window that began less than windowMs ago and has its limit.
LEMMA RateInvFair == RateInv => LimitsFair
<1> SUFFICES ASSUME RateInv PROVE LimitsFair
  OBVIOUS
<1> USE RateAssumption
<1>1. ASSUME NEW k \in LimitKeys, answer429 = k
      PROVE  During(k, {t \in Ticks : now - t < WindowMs}) >= Limit
  <2> DEFINE T == {t \in Ticks : now - t < WindowMs}
             s == buckets[k].windowStart
             q == admitted[k]
  <2>1. /\ q \in Seq(Nat) /\ s \in Nat /\ now \in Nat /\ now <= LastTick /\ buckets[k].count \in Nat
    BY DEF RateInv, RateTypeOK
  <2>2. s <= now /\ ~(now - s >= WindowMs) /\ buckets[k].count >= Limit
    BY <1>1 DEF RateInv, RefusedFull, Expired, Full, BucketCounts
  <2>3. /\ \A i \in DOMAIN q : q[i] <= now
        /\ Cardinality(LetInAt(q, Since(s))) = buckets[k].count
    BY DEF RateInv, BucketCounts, During, LetInAt, Since
  <2>4. \A i \in DOMAIN q : q[i] \in Since(s) => q[i] \in T
    <3> SUFFICES ASSUME NEW i \in DOMAIN q, q[i] \in Since(s) PROVE q[i] \in T
      OBVIOUS
    <3>1. q[i] \in Nat /\ q[i] <= now /\ q[i] >= s
      BY <2>3 DEF Since
    <3> HIDE DEF q, s
    <3>2. q[i] \in 0..LastTick /\ now - q[i] < WindowMs
      BY <2>1, <2>2, <3>1 DEF s
    <3> QED BY <3>2 DEF Ticks
  <2> HIDE DEF T, s, q
  <2>5. /\ Cardinality(LetInAt(q, Since(s))) <= Cardinality(LetInAt(q, T))
        /\ Cardinality(LetInAt(q, T)) \in Nat
    BY <2>1, <2>4, LetInMore, LetInFinite
  <2>6. Cardinality(LetInAt(q, T)) >= Limit
    BY <2>1, <2>2, <2>3, <2>5
  <2> QED BY <2>6 DEF During, LetInAt, T, q
<1> QED BY <1>1 DEF LimitsFair, TurnedAwayWhenBusy, RateInv

\* The limiter (lib/rateLimit.js createLimiter) takes at most twice its limit of
\* any stretch as long as its window, wherever the stretch begins, and turns a
\* client away only when its own requests of the last windowMs are a limit.
THEOREM LimitsStayFair == RateSpec => []LimitsFair
<1>1. RateSpec => []RateInv
  BY InitRate, RateStep, PTL DEF RateSpec
<1> QED BY <1>1, RateInvFair, PTL
===============================================================================
