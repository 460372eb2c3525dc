---------------------------- MODULE SessionProofs ---------------------------
(***************************************************************************)
(* Theorems about Session, for any number of tabs, users, logins and       *)
(* tokens.  The inductive invariant says of every request what it may rely *)
(* on at its label: that the record it holds is its session's, that the    *)
(* record claims no more than the customers service holds, and that no     *)
(* user is in its context before the middleware has put one there.  Its    *)
(* last part is about one tab, where the copies are also up to date.       *)
(***************************************************************************)
EXTENDS Session, TLAPS

\* Before the handler of a request runs there is no user in its context, and
\* login never puts one there.
Early == {"idle", "load", "refresh", "saveToken", "reject", "findUser",
          "login", "hasAddresses", "createSession", "findBasket"}

\* The handlers behind requireAuthenticatedUser.
Inside == {"handler", "update", "saveProfile", "createBasket", "insert",
           "saveAddress"}

\* The labels at which login holds the record it will create.
Creating == {"hasAddresses", "createSession"}

\* The record claims no more of its user than d and a hold.
Backed(x, d, a) == (x.dni => d[x.user]) /\ (x.addr => a[x.user])

\* What a request may rely on; own, d and a are owner, dni and addr.
RequestOK(r, own, d, a) ==
    LET s == r.cookie.sid IN
    /\ r.pc \in Holding =>
          s \in Sids /\ own[s] \in Users /\ r.sess.user = own[s]
    /\ r.pc \in Creating => r.sess.user \in Users
    /\ r.pc \in Holding \cup Creating => Backed(r.sess, d, a)
    /\ r.pc \in Early => r.user = NoUser
    /\ r.pc \in Inside => r.user \in Users /\ s \in Sids
    /\ r.user # NoUser /\ s # NoSid => r.user = own[s]
    /\ r.pc = "saveProfile" => d[r.user]
    /\ r.pc = "saveAddress" => a[r.sess.user]

\* The record under a session id belongs to the owner and is backed.
RecordOK(x, s, own, d, a) ==
    x # NoRecord => own[s] \in Users /\ x.user = own[s] /\ Backed(x, d, a)

SessionInv ==
    /\ TypeOK
    /\ \A s \in Sids : RecordOK(store[s], s, owner, dni, addr)
    /\ \A t \in Tabs : RequestOK(req[t], owner, dni, addr)

-----------------------------------------------------------------------------
\* The blank values belong to their types.
LEMMA Blanks ==
    /\ NoRecord \in Record
    /\ BlankCookie \in Cookie
    /\ Idle \in Request
    /\ NoUser \notin Users
    /\ NoSid \notin Sids
<1>1. NoRecord \in Record /\ BlankCookie \in Cookie
  BY SessionAssumption DEF NoRecord, Record, BlankCookie, Cookie, NoSid
<1>2. Idle \in Request
  BY <1>1 DEF Idle, Request, Labels
<1>3. NoSid \notin Sids
  BY SessionAssumption DEF NoSid, Sids
<1> QED
  BY <1>1, <1>2, <1>3, SessionAssumption

\* An idle request relies on nothing.
LEMMA IdleOK ==
    ASSUME NEW own, NEW d, NEW a
    PROVE  RequestOK(Idle, own, d, a)
BY DEF RequestOK, Idle, Holding, Creating, Early, Inside, BlankCookie

\* What a session id has been given to, and what the customers service has, is
\* not taken back.
Grows ==
    /\ \A s \in Sids : owner[s] \in Users => owner'[s] = owner[s]
    /\ \A u \in Users : (dni[u] => dni'[u]) /\ (addr[u] => addr'[u])

\* What a request relies on survives a step of somebody else.
LEMMA RequestKept ==
    ASSUME SessionInv, Grows, NEW t \in Tabs
    PROVE  RequestOK(req[t], owner', dni', addr')
<1> DEFINE r == req[t]
           s == r.cookie.sid
<1>1. /\ r \in Request /\ RequestOK(r, owner, dni, addr)
      /\ r.user \in Users \cup {NoUser} /\ s \in Sids \cup {NoSid}
      /\ r.sess.user \in Users \cup {NoUser}
  BY DEF SessionInv, TypeOK, Request, Cookie, Record
<1>2. r.pc \in Holding =>
          s \in Sids /\ owner'[s] \in Users /\ r.sess.user = owner'[s]
  BY <1>1 DEF RequestOK, Grows
<1>3. r.pc \in Holding \cup Creating =>
          r.sess.user \in Users /\ Backed(r.sess, dni', addr')
  BY <1>1 DEF RequestOK, Grows, Backed
<1>4. r.user # NoUser /\ s # NoSid => r.user = owner'[s]
  BY <1>1 DEF RequestOK, Grows
<1>5. r.pc = "saveProfile" => dni'[r.user]
  BY <1>1 DEF RequestOK, Grows, Inside
<1>6. r.pc = "saveAddress" => addr'[r.sess.user]
  BY <1>1, <1>3 DEF RequestOK, Grows, Holding
<1> QED
  BY <1>1, <1>2, <1>3, <1>4, <1>5, <1>6 DEF RequestOK

\* The same of a record.
LEMMA RecordKept ==
    ASSUME SessionInv, Grows, NEW s \in Sids
    PROVE  RecordOK(store[s], s, owner', dni', addr')
BY DEF SessionInv, TypeOK, RecordOK, Backed, Grows, Record

\* A step that gives tab t a request that may rely on what it does, and saves
\* at most one record, of its owner and backed, keeps the invariant.
LEMMA OneRequest ==
    ASSUME SessionInv, Grows,
           NEW t \in Tabs, NEW r \in Request,
           RequestOK(r, owner', dni', addr'),
           req' = [req EXCEPT ![t] = r],
           NEW s, NEW x \in Record,
           s \in Sids => RecordOK(x, s, owner', dni', addr'),
           store' = store \/ store' = [store EXCEPT ![s] = x],
           jar' \in Cookie,
           form' \in [Tabs -> {"none", "profile", "address"}],
           dni' \in [Users -> BOOLEAN], addr' \in [Users -> BOOLEAN],
           basket' \in [Users -> BOOLEAN],
           revoked' \in SUBSET Sids,
           issued' \in 0 .. MaxTokens, aged' \in 0 .. MaxTokens,
           owner' \in [Sids -> Users \cup {NoUser}],
           ended' \in SUBSET Sids
    PROVE  SessionInv'
<1>1. req \in [Tabs -> Request] /\ store \in [Sids -> Record]
  BY DEF SessionInv, TypeOK
<1>2. req' \in [Tabs -> Request] /\ store' \in [Sids -> Record]
  BY <1>1
<1>3. \A u \in Tabs : RequestOK(req'[u], owner', dni', addr')
  <2> TAKE u \in Tabs
  <2>1. RequestOK(req[u], owner', dni', addr')
    BY RequestKept
  <2>2. req'[u] = req[u] \/ req'[u] = r
    BY <1>1
  <2> QED
    BY <2>1, <2>2
<1>4. \A y \in Sids : RecordOK(store'[y], y, owner', dni', addr')
  <2> TAKE y \in Sids
  <2>1. RecordOK(store[y], y, owner', dni', addr')
    BY RecordKept
  <2>2. store'[y] = store[y] \/ (y = s /\ store'[y] = x)
    BY <1>1
  <2> QED
    BY <2>1, <2>2
<1> QED
  BY <1>2, <1>3, <1>4 DEF SessionInv, TypeOK

\* The form in which most steps use it: only the request, and perhaps a record
\* of its session, changes.
LEMMA OnlyRequest ==
    ASSUME SessionInv, NEW t \in Tabs, NEW r \in Request,
           RequestOK(r, owner, dni, addr),
           req' = [req EXCEPT ![t] = r],
           UNCHANGED <<form, store, dni, addr, basket, revoked, aged, owner, ended>>,
           issued' \in 0 .. MaxTokens, jar' \in Cookie
    PROVE  SessionInv'
<1>1. Grows
  BY DEF Grows
<1>2. RecordOK(NoRecord, NoSid, owner', dni', addr') /\ NoRecord \in Record
  BY Blanks DEF RecordOK
<1> QED
  BY <1>1, <1>2, OneRequest DEF SessionInv, TypeOK

\* A step that ends the request and changes nothing else but, perhaps, the form.
LEMMA Ends ==
    ASSUME SessionInv, NEW t \in Tabs, Answer(t),
           UNCHANGED <<jar, store, dni, addr, basket, revoked, issued, aged, owner, ended>>,
           form' \in [Tabs -> {"none", "profile", "address"}]
    PROVE  SessionInv'
<1>1. Grows
  BY DEF Grows
<1>2. RecordOK(NoRecord, NoSid, owner', dni', addr') /\ NoRecord \in Record
  BY Blanks DEF RecordOK
<1>3. Idle \in Request /\ RequestOK(Idle, owner', dni', addr')
  BY Blanks, IdleOK
<1> QED
  BY <1>1, <1>2, <1>3, OneRequest DEF SessionInv, TypeOK, Answer

\* What the invariant says of one request.
LEMMA OfRequest ==
    ASSUME SessionInv, NEW t \in Tabs
    PROVE  /\ req[t] \in Request /\ RequestOK(req[t], owner, dni, addr)
           /\ req[t].pc \in Labels /\ req[t].pass \in {1, 2}
           /\ req[t].kind \in Kinds \cup {"none"}
           /\ req[t].cookie \in Cookie /\ req[t].sess \in Record
           /\ req[t].user \in Users \cup {NoUser}
           /\ req[t].cookie.sid \in Sids \cup {NoSid}
           /\ req[t].sess.user \in Users \cup {NoUser}
BY DEF SessionInv, TypeOK, Request, Cookie, Record

-----------------------------------------------------------------------------
(* The session middleware. *)

\* A request for which the middleware finds nobody goes on well: to login, to
\* the second look, or to its end.
LEMMA UnauthenticatedOK ==
    ASSUME SessionInv, NEW t \in Tabs, req[t].pc \in Early
    PROVE  /\ Unauthenticated(req[t]) \in Request
           /\ RequestOK(Unauthenticated(req[t]), owner, dni, addr)
<1> DEFINE r == req[t]
<1>1. /\ r \in Request /\ r.user = NoUser
  BY OfRequest DEF RequestOK
<1>2. /\ [r EXCEPT !.pc = "login", !.sess = NoRecord] \in Request
      /\ [r EXCEPT !.pc = "load", !.pass = 2, !.sess = NoRecord] \in Request
  BY <1>1, Blanks DEF Request, Labels
<1>3. /\ RequestOK([r EXCEPT !.pc = "login", !.sess = NoRecord], owner, dni, addr)
      /\ RequestOK([r EXCEPT !.pc = "load", !.pass = 2, !.sess = NoRecord], owner, dni, addr)
  BY <1>1 DEF RequestOK, Holding, Creating, Early, Inside, Request
<1> QED
  BY <1>2, <1>3, Blanks, IdleOK DEF Unauthenticated

\* A request whose user was found enters its handler as the session's owner.
LEMMA AuthenticatedOK ==
    ASSUME SessionInv, NEW t \in Tabs, req[t].pc = "findUser"
    PROVE  /\ Authenticated(req[t]) \in Request
           /\ RequestOK(Authenticated(req[t]), owner, dni, addr)
<1> DEFINE r == req[t]
           n == [r EXCEPT !.pc = "handler", !.user = r.sess.user, !.sess = NoRecord]
<1>1. /\ r \in Request /\ r.cookie.sid \in Sids
      /\ r.sess.user \in Users /\ r.sess.user = owner[r.cookie.sid]
  BY OfRequest DEF RequestOK, Holding
<1>2. n \in Request
  BY <1>1, Blanks DEF Request, Labels
<1>3. RequestOK(n, owner, dni, addr)
  BY <1>1 DEF RequestOK, Holding, Creating, Early, Inside, Request
<1> QED
  BY <1>2, <1>3, Blanks, IdleOK DEF Authenticated

\* A request is sent with nobody in its context.
LEMMA SendInv == ASSUME SessionInv, NEW t \in Tabs, NEW k \in Kinds, Send(t, k)
                 PROVE  SessionInv'
<1> DEFINE n == [Idle EXCEPT !.kind = k, !.pc = "load", !.cookie = jar]
<1>1. n \in Request
  BY Blanks DEF SessionInv, TypeOK, Idle, Request, Labels
<1>2. RequestOK(n, owner, dni, addr)
  BY DEF RequestOK, Idle, Holding, Creating, Early, Inside
<1> QED
  BY <1>1, <1>2, OnlyRequest DEF Send, SessionInv, TypeOK, backend, clock, history

\* An answer replaces the cookie by a well-formed one.
LEMMA RespondInv == ASSUME SessionInv, NEW t \in Tabs, Respond(t) PROVE SessionInv'
BY OfRequest, Blanks, IdleOK, OnlyRequest
   DEF Respond, Answer, SessionInv, TypeOK, backend, clock, history

\* A loaded record is its session's.
LEMMA LoadInv == ASSUME SessionInv, NEW t \in Tabs, Load(t) PROVE SessionInv'
<1> DEFINE r == req[t]
           s == r.cookie.sid
           n == [r EXCEPT !.sess = store[s],
                          !.pc = IF NeedsRefresh(store[s]) THEN "refresh" ELSE "findUser"]
<1>1. r.pc = "load" /\ r.pc \in Early /\ r \in Request /\ r.user = NoUser
  BY OfRequest DEF Load, At, Early, RequestOK
<1>2. UNCHANGED <<form, store, dni, addr, basket, revoked, aged, owner, ended>>
      /\ issued' \in 0 .. MaxTokens /\ jar' \in Cookie
  BY DEF Load, SessionInv, TypeOK, backend, clock, history
<1>3. CASE Live(s) /\ req' = [req EXCEPT ![t] = n]
  <2>1. /\ s \in Sids /\ store[s] \in Record /\ store[s].user \in Users
        /\ owner[s] \in Users /\ store[s].user = owner[s]
        /\ Backed(store[s], dni, addr)
    BY <1>3 DEF Live, SessionInv, TypeOK, RecordOK
  <2>2. n \in Request
    BY <1>1, <2>1 DEF Request, Labels
  <2>3. RequestOK(n, owner, dni, addr)
    BY <1>1, <2>1 DEF RequestOK, Holding, Creating, Early, Inside, Request
  <2> QED
    BY <1>2, <1>3, <2>2, <2>3, OnlyRequest
<1>4. CASE req' = [req EXCEPT ![t] = Unauthenticated(req[t])]
  BY <1>1, <1>2, <1>4, UnauthenticatedOK, OnlyRequest
<1> QED
  BY <1>3, <1>4 DEF Load

\* A refresh changes only the token of the copy.
LEMMA RefreshInv == ASSUME SessionInv, NEW t \in Tabs, Refresh(t) PROVE SessionInv'
<1> DEFINE r == req[t]
           n == [r EXCEPT !.pc = "saveToken", !.sess.tok = issued']
           To(l) == [r EXCEPT !.pc = l]
<1>1. /\ r.pc = "refresh" /\ r \in Request /\ r.sess \in Record
      /\ RequestOK(r, owner, dni, addr)
  BY OfRequest DEF Refresh, At
<1>2. /\ UNCHANGED <<form, store, dni, addr, basket, revoked, aged, owner, ended>>
      /\ issued' \in 0 .. MaxTokens /\ jar' \in Cookie
  BY SessionAssumption DEF Refresh, SessionInv, TypeOK, backend, history
<1>3. CASE req' = [req EXCEPT ![t] = n]
  <2>1. n \in Request /\ n.sess.user = r.sess.user
        /\ n.sess.dni = r.sess.dni /\ n.sess.addr = r.sess.addr
    BY <1>1, <1>2 DEF Request, Record, Labels
  <2>2. RequestOK(n, owner, dni, addr)
    BY <1>1, <2>1 DEF RequestOK, Holding, Creating, Early, Inside, Request, Backed
  <2> QED
    BY <1>2, <1>3, <2>1, <2>2, OnlyRequest
<1>4. ASSUME NEW l \in {"reject", "findUser"}, req' = [req EXCEPT ![t] = To(l)]
      PROVE  SessionInv'
  <2>1. To(l) \in Request
    BY <1>1 DEF Request, Labels
  <2>2. RequestOK(To(l), owner, dni, addr)
    BY <1>1 DEF RequestOK, Holding, Creating, Early, Inside, Request
  <2> QED
    BY <1>2, <1>4, <2>1, <2>2, OnlyRequest
<1> QED
  BY <1>3, <1>4 DEF Refresh, Goto

\* The refreshed copy that is saved still belongs to the session's owner.
LEMMA SaveTokenInv == ASSUME SessionInv, NEW t \in Tabs, SaveToken(t) PROVE SessionInv'
<1> DEFINE r == req[t]
           s == r.cookie.sid
           n == [r EXCEPT !.pc = "findUser"]
<1>1. /\ r.pc = "saveToken" /\ r \in Request /\ r.sess \in Record
      /\ RequestOK(r, owner, dni, addr)
  BY OfRequest DEF SaveToken, At
<1>2. n \in Request
  BY <1>1 DEF Request, Labels
<1>3. RequestOK(n, owner, dni, addr)
  BY <1>1 DEF RequestOK, Holding, Creating, Early, Inside, Request
<1>4. RecordOK(r.sess, s, owner, dni, addr)
  BY <1>1 DEF RequestOK, RecordOK, Holding
<1>5. Grows
  BY DEF SaveToken, Grows, backend, history
<1> QED
  BY <1>1, <1>2, <1>3, <1>4, <1>5, OneRequest
     DEF SaveToken, Goto, SessionInv, TypeOK, backend, clock, history

\* A rejection removes the record and lets nobody in.
LEMMA RejectInv == ASSUME SessionInv, NEW t \in Tabs, Reject(t) PROVE SessionInv'
<1> DEFINE s == req[t].cookie.sid
<1>1. /\ req[t].pc \in Early /\ s \in Sids
  BY OfRequest DEF Reject, At, Early, RequestOK, Holding
<1>2. RecordOK(NoRecord, s, owner, dni, addr) /\ NoRecord \in Record
  BY Blanks DEF RecordOK
<1>3. Grows
  BY DEF Reject, Grows, backend
<1>4. ended' \in SUBSET Sids
  BY <1>1 DEF Reject, SessionInv, TypeOK
<1> QED
  BY <1>1, <1>2, <1>3, <1>4, UnauthenticatedOK, OneRequest
     DEF Reject, SessionInv, TypeOK, backend, clock

\* FindUserByID leads to the handler, to nobody, or to an error page.
LEMMA FindUserInv == ASSUME SessionInv, NEW t \in Tabs, FindUser(t) PROVE SessionInv'
<1>1. req[t].pc = "findUser" /\ req[t].pc \in Early
  BY DEF FindUser, At, Early
<1>2. /\ UNCHANGED <<jar, form, store, dni, addr, basket, revoked, issued, aged, owner, ended>>
      /\ issued' \in 0 .. MaxTokens /\ jar' \in Cookie
      /\ form' \in [Tabs -> {"none", "profile", "address"}]
  BY DEF FindUser, SessionInv, TypeOK, backend, clock, history
<1>3. CASE req' = [req EXCEPT ![t] = Authenticated(req[t])]
  BY <1>1, <1>2, <1>3, AuthenticatedOK, OnlyRequest
<1>4. CASE req' = [req EXCEPT ![t] = Unauthenticated(req[t])]
  BY <1>1, <1>2, <1>4, UnauthenticatedOK, OnlyRequest
<1>5. CASE Answer(t)
  BY <1>2, <1>5, Ends
<1> QED
  BY <1>3, <1>4, <1>5 DEF FindUser

-----------------------------------------------------------------------------
(* Login. *)

\* Login starts a record with what the customers service holds.
LEMMA LoginInv == ASSUME SessionInv, NEW t \in Tabs, Login(t) PROVE SessionInv'
<1> DEFINE r == req[t]
           x(u) == [NoRecord EXCEPT !.user = u, !.dni = dni[u]]
           n(u) == [r EXCEPT !.sess = x(u), !.pc = "hasAddresses"]
<1>1. r.pc = "login" /\ r \in Request /\ r.user = NoUser
  BY OfRequest DEF Login, At, Early, RequestOK
<1>2. /\ UNCHANGED <<jar, form, store, dni, addr, basket, revoked, issued, aged, owner, ended>>
      /\ issued' \in 0 .. MaxTokens /\ jar' \in Cookie
      /\ form' \in [Tabs -> {"none", "profile", "address"}]
  BY DEF Login, SessionInv, TypeOK, backend, clock, history
<1>3. ASSUME NEW u \in Users, req' = [req EXCEPT ![t] = n(u)]
      PROVE  SessionInv'
  <2>4. dni[u] \in BOOLEAN /\ NoRecord \in Record
    BY Blanks DEF SessionInv, TypeOK
  <2>5. ~NoRecord.addr
    BY DEF NoRecord
  <2>6. x(u) \in Record /\ x(u).user = u /\ x(u).dni = dni[u] /\ x(u).addr = NoRecord.addr
    BY <2>4 DEF Record
  <2>1. x(u) \in Record /\ x(u).user = u /\ Backed(x(u), dni, addr)
    BY <2>5, <2>6 DEF Backed
  <2> HIDE DEF x
  <2>2. n(u) \in Request
    BY <1>1, <2>1 DEF Request, Labels
  <2>3. RequestOK(n(u), owner, dni, addr)
    BY <1>1, <2>1 DEF RequestOK, Holding, Creating, Early, Inside, Request
  <2> QED
    BY <1>2, <1>3, <2>2, <2>3, OnlyRequest
<1>4. CASE Answer(t)
  BY <1>2, <1>4, Ends
<1> QED
  BY <1>3, <1>4 DEF Login

\* ... with an address only if the service has one.
LEMMA HasAddressesInv ==
    ASSUME SessionInv, NEW t \in Tabs, HasAddresses(t) PROVE SessionInv'
<1> DEFINE r == req[t]
           n(b) == [r EXCEPT !.sess.addr = b, !.pc = "createSession"]
<1>1. /\ r.pc = "hasAddresses" /\ r \in Request /\ r.user = NoUser
      /\ r.sess \in Record /\ r.sess.user \in Users /\ Backed(r.sess, dni, addr)
      /\ addr[r.sess.user] \in BOOLEAN
  BY OfRequest DEF HasAddresses, At, Early, Creating, RequestOK, SessionInv, TypeOK
<1>2. /\ UNCHANGED <<jar, form, store, dni, addr, basket, revoked, issued, aged, owner, ended>>
      /\ issued' \in 0 .. MaxTokens /\ jar' \in Cookie
      /\ form' \in [Tabs -> {"none", "profile", "address"}]
  BY DEF HasAddresses, SessionInv, TypeOK, backend, clock, history
<1>3. ASSUME NEW b \in {FALSE, addr[r.sess.user]}, req' = [req EXCEPT ![t] = n(b)]
      PROVE  SessionInv'
  <2>1. b \in BOOLEAN /\ (b => addr[r.sess.user])
    BY <1>1
  <2>2. n(b) \in Request
    BY <1>1, <2>1 DEF Request, Record, Labels
  <2>3. /\ n(b).sess.user = r.sess.user /\ n(b).sess.dni = r.sess.dni
        /\ n(b).sess.addr = b /\ n(b).pc = "createSession"
        /\ n(b).user = NoUser
    BY <1>1 DEF Request, Record
  <2> HIDE DEF n
  <2>4. RequestOK(n(b), owner, dni, addr)
    BY <1>1, <2>1, <2>3 DEF RequestOK, Holding, Creating, Early, Inside, Backed
  <2> QED
    BY <1>2, <1>3, <2>2, <2>4, OnlyRequest
<1>4. CASE Answer(t)
  BY <1>2, <1>4, Ends
<1> QED
  BY <1>3, <1>4 DEF HasAddresses

\* A new session id was nobody's, so nobody's session changes its owner.
LEMMA CreateSessionInv ==
    ASSUME SessionInv, NEW t \in Tabs, CreateSession(t) PROVE SessionInv'
<1> DEFINE r == req[t]
           x == [r.sess EXCEPT !.tok = issued']
           n(s) == [r EXCEPT !.cookie.sid = s, !.sess.tok = issued', !.pc = "findBasket"]
<1>1. /\ r.pc = "createSession" /\ r \in Request /\ r.user = NoUser
      /\ r.sess \in Record /\ r.sess.user \in Users /\ Backed(r.sess, dni, addr)
      /\ r.cookie \in Cookie
  BY OfRequest DEF CreateSession, At, Early, Creating, RequestOK
<1>2. /\ UNCHANGED <<jar, form, dni, addr, basket, revoked, aged, ended>>
      /\ jar' \in Cookie /\ form' \in [Tabs -> {"none", "profile", "address"}]
  BY DEF CreateSession, SessionInv, TypeOK, backend
<1>3. ASSUME issued < MaxTokens, issued' = issued + 1,
             NEW s \in FreshSid(t),
             store' = [store EXCEPT ![s] = x],
             owner' = [owner EXCEPT ![s] = r.sess.user],
             req' = [req EXCEPT ![t] = n(s)]
      PROVE  SessionInv'
  <2>1. s \in Sids /\ owner[s] = NoUser
    BY <1>3 DEF FreshSid
  <2>2. issued' \in 0 .. MaxTokens
    BY <1>3, SessionAssumption DEF SessionInv, TypeOK
  <2>3. /\ owner' \in [Sids -> Users \cup {NoUser}]
        /\ owner'[s] = r.sess.user
    BY <1>1, <1>3, <2>1 DEF SessionInv, TypeOK
  <2>4. Grows
    BY <1>2, <1>3, <2>1, Blanks DEF Grows, SessionInv, TypeOK
  <2>5. x \in Record /\ x.user = r.sess.user /\ Backed(x, dni, addr)
    BY <1>1, <2>2 DEF Record, Backed
  <2>6. RecordOK(x, s, owner', dni', addr')
    BY <1>1, <1>2, <2>3, <2>5 DEF RecordOK
  <2>7. n(s) \in Request
    BY <1>1, <2>1, <2>2 DEF Request, Record, Cookie, Labels
  <2>8. /\ n(s).sess = x /\ n(s).cookie.sid = s /\ n(s).pc = "findBasket"
        /\ n(s).user = NoUser
    BY <1>1 DEF Request, Cookie
  <2> HIDE DEF n, x
  <2>9. RequestOK(n(s), owner', dni', addr')
    BY <1>1, <1>2, <2>1, <2>3, <2>5, <2>8
       DEF RequestOK, Holding, Creating, Early, Inside
  <2> QED
    BY <1>2, <1>3, <2>2, <2>3, <2>4, <2>5, <2>6, <2>7, <2>9, OneRequest
       DEF SessionInv, TypeOK
<1>4. CASE Answer(t) /\ UNCHANGED <<store, issued, owner>>
  BY <1>2, <1>4, Ends
<1> QED
  BY <1>3, <1>4 DEF CreateSession

\* The basket of the cookie is no concern of the session.
LEMMA FindBasketInv ==
    ASSUME SessionInv, NEW t \in Tabs, FindBasket(t) PROVE SessionInv'
<1> DEFINE r == req[t]
           n(b) == [r EXCEPT !.cookie.basket = b, !.pc = "respond"]
<1>1. /\ r.pc = "findBasket" /\ r \in Request /\ r.user = NoUser
      /\ r.cookie \in Cookie /\ r.sess.user \in Users \cup {NoUser}
  BY OfRequest DEF FindBasket, At, Early, RequestOK
<1>2. PICK b \in {r.cookie.basket, NoUser} \cup {u \in {r.sess.user} : basket[u]} :
         req' = [req EXCEPT ![t] = n(b)]
  BY DEF FindBasket
<1>5. b \in Users \cup {NoUser}
  BY <1>1 DEF Cookie
<1>3. n(b) \in Request
  BY <1>5, <1>1 DEF Request, Cookie, Labels
<1>4. RequestOK(n(b), owner, dni, addr)
  BY <1>1 DEF RequestOK, Holding, Creating, Early, Inside, Request, Cookie
<1> QED
  BY <1>2, <1>3, <1>4, OnlyRequest
     DEF FindBasket, SessionInv, TypeOK, backend, clock, history

-----------------------------------------------------------------------------
(* Logout and the wizard. *)

\* Logout removes the record and blanks the cookie.
LEMMA LogoutInv == ASSUME SessionInv, NEW t \in Tabs, Logout(t) PROVE SessionInv'
<1> DEFINE r == req[t]
           s == r.cookie.sid
           n == [r EXCEPT !.cookie = BlankCookie, !.pc = "respond"]
<1>1. r \in Request /\ s \in Sids
  BY OfRequest DEF Logout, At, RequestOK, Inside
<1>2. n \in Request
  BY <1>1, Blanks DEF Request, Labels
<1>3. RequestOK(n, owner, dni, addr)
  BY <1>1 DEF RequestOK, Holding, Creating, Early, Inside, Request, BlankCookie
<1>4. RecordOK(NoRecord, s, owner, dni, addr) /\ NoRecord \in Record
  BY Blanks DEF RecordOK
<1>5. Grows
  BY DEF Logout, Grows, backend
<1>6. ended' \in SUBSET Sids
  BY <1>1 DEF Logout, SessionInv, TypeOK
<1> QED
  BY <1>2, <1>3, <1>4, <1>5, <1>6, OneRequest
     DEF Logout, SessionInv, TypeOK, backend, clock

\* Loading the record again gives the handler a copy that it may rely on.
LEMMA ReloadInv == ASSUME SessionInv, NEW t \in Tabs, Reload(t) PROVE SessionInv'
<1> DEFINE r == req[t]
           s == r.cookie.sid
           n == [r EXCEPT !.sess = store[s], !.pc = FirstCall(r.kind)]
<1>1. r \in Request /\ r.pc = "handler" /\ RequestOK(r, owner, dni, addr)
  BY OfRequest DEF Reload, At
<1>2. /\ UNCHANGED <<jar, store, dni, addr, basket, revoked, issued, aged, owner, ended>>
      /\ issued' \in 0 .. MaxTokens /\ jar' \in Cookie
  BY DEF Reload, SessionInv, TypeOK, backend, clock, history
<1>3. CASE form' = [form EXCEPT ![t] = FormOf(r.kind, store[s], form[t])] /\ Answer(t)
  <2>1. form' \in [Tabs -> {"none", "profile", "address"}]
    BY <1>3 DEF SessionInv, TypeOK, FormOf
  <2> QED
    BY <1>2, <1>3, <2>1, Ends
<1>4. CASE Live(s) /\ req' = [req EXCEPT ![t] = n] /\ UNCHANGED form
  <2>1. /\ s \in Sids /\ store[s] \in Record
        /\ owner[s] \in Users /\ store[s].user = owner[s]
        /\ Backed(store[s], dni, addr)
    BY <1>4 DEF Live, SessionInv, TypeOK, RecordOK
  <2>2. FirstCall(r.kind) \in {"update", "insert"}
    BY DEF FirstCall
  <2>3. n \in Request
    BY <1>1, <2>1, <2>2 DEF Request, Labels
  <2>4. /\ n.sess = store[s] /\ n.cookie = r.cookie /\ n.user = r.user
        /\ n.pc \in {"update", "insert"}
    BY <1>1, <2>2 DEF Request
  <2> HIDE DEF n
  <2>5. RequestOK(n, owner, dni, addr)
    BY <1>1, <2>1, <2>4 DEF RequestOK, Holding, Creating, Early, Inside
  <2> QED
    BY <1>2, <1>4, <2>3, <2>5, OnlyRequest
<1>5. CASE Answer(t) /\ UNCHANGED form
  BY <1>2, <1>5, Ends DEF SessionInv, TypeOK
<1> QED
  BY <1>3, <1>4, <1>5 DEF Reload

\* The profile is saved only once the service has the DNI.
LEMMA UpdateProfileInv ==
    ASSUME SessionInv, NEW t \in Tabs, UpdateProfile(t) PROVE SessionInv'
<1> DEFINE r == req[t]
           To(l) == [r EXCEPT !.pc = l]
<1>1. /\ r \in Request /\ r.pc = "update" /\ RequestOK(r, owner, dni, addr)
      /\ r.user \in Users
  BY OfRequest DEF UpdateProfile, At, RequestOK, Inside
<1>2. /\ UNCHANGED <<jar, form, store, addr, basket, revoked, issued, aged, owner, ended>>
      /\ dni' = dni \/ dni' = [dni EXCEPT ![r.user] = TRUE]
  BY DEF UpdateProfile, clock, history
<1>3. Grows /\ dni' \in [Users -> BOOLEAN]
  BY <1>1, <1>2 DEF Grows, SessionInv, TypeOK
<1>4. RequestOK(r, owner', dni', addr')
  BY <1>3, RequestKept
<1>5. RecordOK(NoRecord, NoSid, owner', dni', addr') /\ NoRecord \in Record
  BY Blanks DEF RecordOK
<1>6. PICK n \in {Idle, To("saveProfile"), To("createBasket")} :
         /\ req' = [req EXCEPT ![t] = n]
         /\ n = To("saveProfile") => dni' = [dni EXCEPT ![r.user] = TRUE]
  BY <1>1 DEF UpdateProfile, Goto, Answer, Idle, Request
<1>7. n \in Request /\ RequestOK(n, owner', dni', addr')
  <2>1. CASE n = Idle
    BY <2>1, Blanks, IdleOK
  <2>2. CASE n = To("createBasket")
    <3>1. n \in Request
      BY <1>1, <2>2 DEF Request, Labels
    <3>2. RequestOK(n, owner', dni', addr')
      BY <1>1, <1>4, <2>2 DEF RequestOK, Holding, Creating, Early, Inside, Request
    <3> QED
      BY <3>1, <3>2
  <2>3. CASE n = To("saveProfile")
    <3>1. n \in Request
      BY <1>1, <2>3 DEF Request, Labels
    <3>2. dni'[r.user]
      BY <1>1, <1>6, <2>3 DEF SessionInv, TypeOK
    <3>3. RequestOK(n, owner', dni', addr')
      BY <1>1, <1>4, <2>3, <3>2 DEF RequestOK, Holding, Creating, Early, Inside, Request
    <3> QED
      BY <3>1, <3>3
  <2> QED
    BY <2>1, <2>2, <2>3
<1> QED
  BY <1>2, <1>3, <1>5, <1>6, <1>7, OneRequest DEF SessionInv, TypeOK

\* A wizard saves the record it loaded, with the one field that the service has
\* by now: that record is still its owner's, and backed.
LEMMA SaveProfileInv ==
    ASSUME SessionInv, NEW t \in Tabs, SaveProfile(t) PROVE SessionInv'
<1> DEFINE r == req[t]
           s == r.cookie.sid
           x == [r.sess EXCEPT !.dni = TRUE]
           n == [r EXCEPT !.pc = "createBasket"]
<1>1. /\ r \in Request /\ r.pc = "saveProfile" /\ RequestOK(r, owner, dni, addr)
      /\ r.sess \in Record
  BY OfRequest DEF SaveProfile, At
<1>2. /\ s \in Sids /\ owner[s] \in Users /\ r.sess.user = owner[s]
      /\ r.user = owner[s] /\ dni[r.user] /\ Backed(r.sess, dni, addr)
  BY <1>1, Blanks DEF RequestOK, Holding, Inside
<1>3. x \in Record /\ x.user = r.sess.user /\ x.addr = r.sess.addr
  BY <1>1 DEF Record
<1>4. RecordOK(x, s, owner, dni, addr)
  BY <1>2, <1>3 DEF RecordOK, Backed
<1>5. n \in Request
  BY <1>1 DEF Request, Labels
<1>6. RequestOK(n, owner, dni, addr)
  BY <1>1 DEF RequestOK, Holding, Creating, Early, Inside, Request
<1>7. Grows
  BY DEF SaveProfile, Grows, backend, history
<1>8. CASE store' = [store EXCEPT ![s] = x] /\ Goto(t, "createBasket")
  BY <1>3, <1>4, <1>5, <1>6, <1>7, <1>8, OneRequest
     DEF SaveProfile, Goto, SessionInv, TypeOK, backend, clock, history
<1>9. CASE UNCHANGED store /\ Answer(t)
  BY <1>9, Ends DEF SaveProfile, SessionInv, TypeOK, backend, clock, history
<1> QED
  BY <1>8, <1>9 DEF SaveProfile

\* Creating the basket leaves the record alone.
LEMMA CreateBasketInv ==
    ASSUME SessionInv, NEW t \in Tabs, CreateBasket(t) PROVE SessionInv'
<1> DEFINE r == req[t]
           n(b) == [r EXCEPT !.cookie.basket = b, !.pc = "respond"]
<1>1. /\ r \in Request /\ r.pc = "createBasket" /\ RequestOK(r, owner, dni, addr)
      /\ r.user \in Users /\ r.cookie \in Cookie
  BY OfRequest DEF CreateBasket, At, RequestOK, Inside
<1>2. basket' \in [Users -> BOOLEAN]
  BY DEF CreateBasket, SessionInv, TypeOK
<1>3. Grows
  BY DEF CreateBasket, Grows, history
<1>4. RecordOK(NoRecord, NoSid, owner', dni', addr') /\ NoRecord \in Record
  BY Blanks DEF RecordOK
<1>5. ASSUME NEW b \in {r.user, NoUser}
      PROVE  n(b) \in Request /\ RequestOK(n(b), owner', dni', addr')
  <2>1. n(b) \in Request
    BY <1>1 DEF Request, Cookie, Labels
  <2>2. n(b).cookie.sid = r.cookie.sid /\ n(b).user = r.user /\ n(b).pc = "respond"
    BY <1>1 DEF Request, Cookie
  <2> HIDE DEF n
  <2>3. RequestOK(r, owner', dni', addr')
    BY <1>3, RequestKept
  <2> QED
    BY <2>1, <2>2, <2>3 DEF RequestOK, Holding, Creating, Early, Inside
<1>6. \E m \in Request : req' = [req EXCEPT ![t] = m] /\ RequestOK(m, owner', dni', addr')
  <2>1. Answer(t) \/ \E b \in {r.user, NoUser} : req' = [req EXCEPT ![t] = n(b)]
    BY DEF CreateBasket
  <2>2. CASE Answer(t)
    BY <2>2, Blanks, IdleOK DEF Answer
  <2> HIDE DEF n
  <2>3. CASE \E b \in {r.user, NoUser} : req' = [req EXCEPT ![t] = n(b)]
    BY <2>3, <1>5
  <2> QED
    BY <2>1, <2>2, <2>3
<1> QED
  BY <1>2, <1>3, <1>4, <1>6, OneRequest
     DEF CreateBasket, SessionInv, TypeOK, clock, history

\* The address is saved only once the service has it.
LEMMA InsertAddressInv ==
    ASSUME SessionInv, NEW t \in Tabs, InsertAddress(t) PROVE SessionInv'
<1> DEFINE r == req[t]
           n == [r EXCEPT !.pc = "saveAddress"]
<1>1. /\ r \in Request /\ r.pc = "insert" /\ RequestOK(r, owner, dni, addr)
      /\ r.sess.user \in Users
  BY OfRequest DEF InsertAddress, At, RequestOK, Holding
<1>2. PICK inserted \in BOOLEAN :
         /\ addr' = [addr EXCEPT ![r.sess.user] = @ \/ inserted]
         /\ \E pc \in AfterInsert(r.kind, inserted) :
               IF pc = "idle" THEN Answer(t) ELSE Goto(t, pc)
  BY DEF InsertAddress
<1>3. addr' \in [Users -> BOOLEAN] /\ (inserted => addr'[r.sess.user])
  BY <1>1, <1>2 DEF SessionInv, TypeOK
<1>4. Grows
  BY <1>1, <1>2 DEF InsertAddress, Grows, history, SessionInv, TypeOK
<1>5. RecordOK(NoRecord, NoSid, owner', dni', addr') /\ NoRecord \in Record
  BY Blanks DEF RecordOK
<1>6. RequestOK(r, owner', dni', addr')
  BY <1>4, RequestKept
<1>7. inserted => n \in Request /\ RequestOK(n, owner', dni', addr')
  <2>1. n \in Request
    BY <1>1 DEF Request, Labels
  <2> QED
    BY <1>1, <1>3, <1>6, <2>1 DEF RequestOK, Holding, Creating, Early, Inside, Request
<1>8. Answer(t) \/ (inserted /\ Goto(t, "saveAddress"))
  BY <1>2 DEF AfterInsert
<1>9. \E m \in Request : req' = [req EXCEPT ![t] = m] /\ RequestOK(m, owner', dni', addr')
  BY <1>7, <1>8, Blanks, IdleOK DEF Answer, Goto
<1> QED
  BY <1>3, <1>4, <1>5, <1>9, OneRequest
     DEF InsertAddress, SessionInv, TypeOK, clock, history

\* The same of the address.
LEMMA SaveAddressInv ==
    ASSUME SessionInv, NEW t \in Tabs, SaveAddress(t) PROVE SessionInv'
<1> DEFINE r == req[t]
           s == r.cookie.sid
           x == [r.sess EXCEPT !.addr = TRUE]
<1>1. /\ r \in Request /\ r.pc = "saveAddress" /\ RequestOK(r, owner, dni, addr)
      /\ r.sess \in Record
  BY OfRequest DEF SaveAddress, At
<1>2. /\ s \in Sids /\ owner[s] \in Users /\ r.sess.user = owner[s]
      /\ addr[r.sess.user] /\ Backed(r.sess, dni, addr)
  BY <1>1 DEF RequestOK, Holding
<1>3. x \in Record /\ x.user = r.sess.user /\ x.dni = r.sess.dni
  BY <1>1 DEF Record
<1>4. RecordOK(x, s, owner, dni, addr)
  BY <1>2, <1>3 DEF RecordOK, Backed
<1>5. Grows
  BY DEF SaveAddress, Grows, backend, history
<1> QED
  BY <1>3, <1>4, <1>5, Blanks, IdleOK, OneRequest
     DEF SaveAddress, Answer, SessionInv, TypeOK, backend, clock, history

-----------------------------------------------------------------------------
\* Time, expiry and revocation touch no request.
LEMMA OutsideInv ==
    ASSUME SessionInv, Age \/ \E s \in Sids : Expire(s) \/ Revoke(s)
    PROVE  SessionInv'
<1>1. CASE Age
  <2>1. aged' \in 0 .. MaxTokens
    BY <1>1, SessionAssumption DEF Age, SessionInv, TypeOK
  <2> QED
    BY <1>1, <2>1 DEF Age, SessionInv, TypeOK, backend, history
<1>2. ASSUME NEW s \in Sids, Expire(s)
      PROVE  SessionInv'
  <2>1. store' \in [Sids -> Record]
    BY <1>2, Blanks DEF Expire, SessionInv, TypeOK
  <2>2. \A y \in Sids : RecordOK(store'[y], y, owner, dni, addr)
    BY <1>2 DEF Expire, SessionInv, TypeOK, RecordOK
  <2> QED
    BY <1>2, <2>1, <2>2 DEF Expire, SessionInv, TypeOK, backend, clock, history
<1>3. ASSUME NEW s \in Sids, Revoke(s)
      PROVE  SessionInv'
  BY <1>3 DEF Revoke, SessionInv, TypeOK, backend, history
<1> QED
  BY <1>1, <1>2, <1>3

\* Nobody is logged in at first.
LEMMA InitInv == Init => SessionInv
<1> HAVE Init
<1>1. TypeOK
  BY Blanks, SessionAssumption DEF Init, TypeOK
<1>2. \A s \in Sids : RecordOK(store[s], s, owner, dni, addr)
  BY DEF Init, RecordOK
<1>3. \A t \in Tabs : RequestOK(req[t], owner, dni, addr)
  BY IdleOK DEF Init
<1> QED
  BY <1>1, <1>2, <1>3 DEF SessionInv

\* Every step keeps the invariant.
LEMMA NextInv == SessionInv /\ [Next]_vars => SessionInv'
<1> SUFFICES ASSUME SessionInv, [Next]_vars
             PROVE  SessionInv'
  OBVIOUS
<1>1. ASSUME NEW t \in Tabs, Step(t)
      PROVE  SessionInv'
  BY <1>1, LoadInv, RefreshInv, SaveTokenInv, RejectInv, FindUserInv, LoginInv,
     HasAddressesInv, CreateSessionInv, FindBasketInv, LogoutInv, ReloadInv,
     UpdateProfileInv, SaveProfileInv, CreateBasketInv, InsertAddressInv,
     SaveAddressInv, RespondInv
     DEF Step
<1>2. CASE UNCHANGED vars
  BY <1>2 DEF vars, SessionInv, TypeOK
<1> QED
  BY <1>1, <1>2, SendInv, OutsideInv DEF Next

\* The invariant holds of every behaviour.
THEOREM SessionInvariant == Spec => []SessionInv
BY InitInv, NextInv, PTL DEF Spec

\* Every variable keeps its type (session.go, middleware.go, auth.go, user.go,
\* address.go).
THEOREM SessionTypes == Spec => []TypeOK
<1>1. SessionInv => TypeOK
  BY DEF SessionInv
<1> QED
  BY <1>1, SessionInvariant, PTL

\* However the requests of any number of tabs and logins interleave, a session
\* id serves the user whose login created it and nobody else (session.go,
\* middleware.go, auth.go Login).
THEOREM SessionServesOwner == Spec => []ServesOwner
<1>1. SessionInv => ServesOwner
  <2> HAVE SessionInv
  <2>1. \A s \in Sids : Live(s) => owner[s] # NoUser /\ store[s].user = owner[s]
    BY Blanks DEF SessionInv, RecordOK, Live
  <2>2. \A t \in Tabs :
           /\ req[t].pc \in Holding =>
                 req[t].cookie.sid \in Sids /\ req[t].sess.user = owner[req[t].cookie.sid]
           /\ req[t].user # NoUser /\ req[t].cookie.sid # NoSid =>
                 req[t].user = owner[req[t].cookie.sid]
    BY DEF SessionInv, RequestOK
  <2> QED
    BY <2>1, <2>2 DEF ServesOwner
<1> QED
  BY <1>1, SessionInvariant, PTL

\* A session record never claims more of its user's onboarding than the
\* customers service holds, whatever fails and whatever interleaves (user.go
\* UpdateWizard, address.go CreateAddressWizard, auth/service.go Login).
THEOREM SessionRecordBacked == Spec => []RecordBacked
<1>1. SessionInv => RecordBacked
  BY DEF SessionInv, RecordOK, RecordBacked, Backed, Live
<1> QED
  BY <1>1, SessionInvariant, PTL

-----------------------------------------------------------------------------
(* One tab.  With one request at a time nobody saves the record between the *)
(* Load of a request and its Save, so its copy is the record, and its       *)
(* session is not one that has ended.  The record may still expire.         *)

OneTab == \A t, u \in Tabs : t = u

\* What the request of the only tab knows of the record under its session id.
CopyOK(t) ==
    LET r == req[t]
        s == r.cookie.sid
    IN
    /\ r.pc \in Holding => s \notin ended
    /\ r.sess.tok <= issued
    /\ Live(s) =>
          /\ r.pc = "refresh" => r.sess = store[s] /\ r.sess.tok <= aged
          /\ r.pc = "saveToken" => /\ r.sess.dni = store[s].dni
                                   /\ r.sess.addr = store[s].addr
                                   /\ store[s].tok <= aged
                                   /\ store[s].tok < r.sess.tok
          /\ r.pc \in {"update", "saveProfile", "insert", "saveAddress"} =>
                r.sess = store[s]

\* No token is from the future, and a session that has ended is gone.
StoreOK ==
    \A s \in Sids :
       /\ store[s].tok <= issued
       /\ s \in ended => ~Live(s) /\ owner[s] # NoUser

OneTabInv == StoreOK /\ \A t \in Tabs : CopyOK(t)

\* What a step may do to a record x that becomes y when the tokens up to n are due.
MayBecome(x, y, n) ==
    /\ y.tok # x.tok => x.tok <= n /\ y.tok > x.tok
    /\ x.dni => y.dni
    /\ x.addr => y.addr

RecordsKept ==
    \A s \in Sids : Live(s) /\ Live(s)' => MayBecome(store[s], store'[s], aged)

\* A step that saves and removes no record.
LEMMA NoSave ==
    ASSUME OneTab, SessionInv, OneTabInv, NEW t \in Tabs,
           UNCHANGED <<store, owner, ended>>,
           issued' \in Nat, issued <= issued', CopyOK(t)'
    PROVE  OneTabInv' /\ RecordsKept
<1>1. StoreOK'
  BY SessionAssumption DEF OneTabInv, StoreOK, SessionInv, TypeOK, Record, Live
<1>2. \A u \in Tabs : CopyOK(u)'
  BY DEF OneTab
<1>3. RecordsKept
  BY DEF RecordsKept, MayBecome
<1> QED
  BY <1>1, <1>2, <1>3 DEF OneTabInv

\* A request at a label that holds no record knows nothing of it.
LEMMA HoldsNone ==
    ASSUME NEW t \in Tabs, req'[t].pc \notin Holding, req'[t].sess.tok <= issued'
    PROVE  CopyOK(t)'
BY DEF CopyOK, Holding

\* A request that has been answered.
LEMMA IdleCopyOK ==
    ASSUME SessionInv, NEW t \in Tabs, req' = [req EXCEPT ![t] = Idle],
           issued' \in Nat
    PROVE  CopyOK(t)'
<1>1. req'[t] = Idle
  BY DEF SessionInv, TypeOK
<1>2. Idle.pc = "idle" /\ Idle.sess.tok = 0
  BY DEF Idle, NoRecord
<1> QED
  BY <1>1, <1>2, HoldsNone DEF Holding

\* One for which the middleware found nobody.
LEMMA UnauthenticatedCopyOK ==
    ASSUME SessionInv, NEW t \in Tabs, issued' \in Nat,
           req' = [req EXCEPT ![t] = Unauthenticated(req[t])]
    PROVE  CopyOK(t)'
<1> DEFINE r == req[t]
           ToLogin == [r EXCEPT !.pc = "login", !.sess = NoRecord]
           Again == [r EXCEPT !.pc = "load", !.pass = 2, !.sess = NoRecord]
<1>1. r \in Request /\ req'[t] = Unauthenticated(r)
  BY DEF SessionInv, TypeOK
<1>2. /\ ToLogin.pc = "login" /\ ToLogin.sess = NoRecord
      /\ Again.pc = "load" /\ Again.sess = NoRecord
      /\ Idle.pc = "idle" /\ Idle.sess = NoRecord
  BY <1>1 DEF Request, Idle
<1>3. Unauthenticated(r) \in {ToLogin, Again, Idle}
  BY DEF Unauthenticated
<1>4. /\ req'[t].pc \in {"login", "load", "idle"}
      /\ req'[t].sess = NoRecord
  BY <1>1, <1>2, <1>3
<1> QED
  BY <1>4, HoldsNone DEF Holding, NoRecord

\* A request is sent with no copy of a record.
LEMMA SendOneTab ==
    ASSUME OneTab, SessionInv, OneTabInv, NEW t \in Tabs, NEW k \in Kinds, Send(t, k)
    PROVE  OneTabInv' /\ RecordsKept
<1> DEFINE n == [Idle EXCEPT !.kind = k, !.pc = "load", !.cookie = jar]
<1>1. n.pc = "load" /\ n.sess.tok = 0
  BY DEF Idle, NoRecord
<1>2. req'[t] = n /\ issued' = issued /\ issued \in Nat
  BY DEF Send, SessionInv, TypeOK, clock
<1>3. UNCHANGED <<store, owner, ended>>
  BY DEF Send, history
<1> HIDE DEF n
<1>4. CopyOK(t)'
  BY <1>1, <1>2, HoldsNone DEF Holding
<1> QED
  BY <1>2, <1>3, <1>4, NoSave

\* The answer of a handler leaves the records alone.
LEMMA RespondOneTab ==
    ASSUME OneTab, SessionInv, OneTabInv, NEW t \in Tabs, Respond(t)
    PROVE  OneTabInv' /\ RecordsKept
<1>1. /\ issued' \in Nat /\ issued <= issued'
      /\ UNCHANGED <<store, owner, ended>>
  BY DEF Respond, SessionInv, TypeOK, clock, history
<1>2. CopyOK(t)'
  BY <1>1, IdleCopyOK DEF Respond, Answer
<1> QED
  BY <1>1, <1>2, NoSave

\* A loaded copy is the record; it is refreshed only when its token is due.
LEMMA LoadOneTab ==
    ASSUME OneTab, SessionInv, OneTabInv, NEW t \in Tabs, Load(t)
    PROVE  OneTabInv' /\ RecordsKept
<1> DEFINE r == req[t]
           s == r.cookie.sid
           n == [r EXCEPT !.sess = store[s],
                          !.pc = IF NeedsRefresh(store[s]) THEN "refresh" ELSE "findUser"]
<1>1. r \in Request /\ issued' = issued /\ issued \in Nat /\ aged' = aged
      /\ UNCHANGED <<store, owner, ended>>
  BY DEF Load, SessionInv, TypeOK, clock, history
<1>2. CASE Live(s) /\ req' = [req EXCEPT ![t] = n]
  <2>1. req'[t] = n /\ s \in Sids /\ s \notin ended /\ store[s].tok <= issued
    BY <1>2 DEF SessionInv, TypeOK, OneTabInv, StoreOK, Live
  <2>2. /\ n.sess = store[s] /\ n.cookie = r.cookie
        /\ n.pc = IF NeedsRefresh(store[s]) THEN "refresh" ELSE "findUser"
    BY <1>1 DEF Request
  <2> HIDE DEF n
  <2>3. CopyOK(t)'
    BY <1>1, <2>1, <2>2 DEF CopyOK, NeedsRefresh
  <2> QED
    BY <1>1, <2>3, NoSave
<1>3. CASE req' = [req EXCEPT ![t] = Unauthenticated(req[t])]
  <2>1. CopyOK(t)'
    BY <1>1, <1>3, UnauthenticatedCopyOK
  <2> QED
    BY <1>1, <2>1, NoSave
<1> QED
  BY <1>2, <1>3 DEF Load

\* A new token is newer than every other.
LEMMA RefreshOneTab ==
    ASSUME OneTab, SessionInv, OneTabInv, NEW t \in Tabs, Refresh(t)
    PROVE  OneTabInv' /\ RecordsKept
<1> DEFINE r == req[t]
           s == r.cookie.sid
           n == [r EXCEPT !.pc = "saveToken", !.sess.tok = issued']
<1>1. /\ r \in Request /\ r.sess \in Record /\ r.pc = "refresh" /\ CopyOK(t)
      /\ issued \in Nat /\ issued' \in Nat /\ issued <= issued' /\ aged' = aged
      /\ UNCHANGED <<store, owner, ended>>
  BY OfRequest, SessionAssumption
     DEF Refresh, At, SessionInv, TypeOK, OneTabInv, history
<1>2. CASE issued' = issued + 1 /\ req' = [req EXCEPT ![t] = n]
  <2>1. req'[t] = n
    BY <1>2 DEF SessionInv, TypeOK
  <2>2. /\ n.pc = "saveToken" /\ n.cookie = r.cookie /\ n.sess.tok = issued'
        /\ n.sess.dni = r.sess.dni /\ n.sess.addr = r.sess.addr
    BY <1>1 DEF Request, Record
  <2> HIDE DEF n
  <2>3. s \notin ended
    BY <1>1 DEF CopyOK, Holding
  <2>4. Live(s) => r.sess = store[s] /\ store[s].tok <= aged /\ store[s].tok <= issued
    BY <1>1 DEF CopyOK
  <2>5. r.sess.tok \in Nat
    BY <1>1, SessionAssumption DEF Record
  <2>6. CopyOK(t)'
    BY <1>1, <1>2, <2>1, <2>2, <2>3, <2>4, <2>5 DEF CopyOK, Live
  <2> QED
    BY <1>1, <2>6, NoSave
<1>3. ASSUME NEW l \in {"reject", "findUser"}, Goto(t, l)
      PROVE  OneTabInv' /\ RecordsKept
  <2>1. req'[t].pc = l /\ req'[t].cookie = r.cookie /\ req'[t].sess = r.sess
    BY <1>1, <1>3 DEF Goto, SessionInv, TypeOK, Request
  <2>2. CopyOK(t)'
    BY <1>1, <2>1, SessionAssumption DEF CopyOK, Holding, Record
  <2> QED
    BY <1>1, <2>2, NoSave
<1> QED
  BY <1>2, <1>3 DEF Refresh

\* A request that goes on with the copy and the session id it has, to a label
\* that relies on nothing more.
LEMMA GoesOn ==
    ASSUME OneTab, SessionInv, OneTabInv, NEW t \in Tabs,
           UNCHANGED <<store, owner, ended>>, issued' = issued,
           req[t].pc \in Holding,
           req'[t].sess = req[t].sess, req'[t].cookie.sid = req[t].cookie.sid,
           req'[t].pc \notin {"refresh", "saveToken"},
           req'[t].pc \in {"update", "saveProfile", "insert", "saveAddress"} =>
              req[t].pc \in {"update", "saveProfile", "insert", "saveAddress"}
    PROVE  OneTabInv' /\ RecordsKept
<1>1. issued \in Nat
  BY SessionAssumption DEF SessionInv, TypeOK
<1>2. CopyOK(t)'
  BY DEF OneTabInv, CopyOK, Live
<1> QED
  BY <1>1, <1>2, NoSave

\* A step that may save one record, of a session that has not ended, over one
\* that may become it.
LEMMA OneSave ==
    ASSUME OneTab, SessionInv, OneTabInv, NEW t \in Tabs,
           NEW s \in Sids, NEW x \in Record,
           store' = store \/ store' = [store EXCEPT ![s] = x],
           UNCHANGED ended, s \notin ended,
           \A y \in Sids \ {s} : owner'[y] = owner[y],
           issued' \in Nat, issued <= issued', x.tok <= issued',
           Live(s) => MayBecome(store[s], x, aged),
           CopyOK(t)'
    PROVE  OneTabInv' /\ RecordsKept
<1>1. /\ store \in [Sids -> Record] /\ issued \in Nat
      /\ \A y \in Sids : store[y].tok \in Nat
  BY SessionAssumption DEF SessionInv, TypeOK, Record
<1>2. \A y \in Sids : store'[y] = store[y] \/ (y = s /\ store'[y] = x)
  BY <1>1
<1>3. StoreOK'
  BY <1>1, <1>2, SessionAssumption DEF OneTabInv, StoreOK, Live, Record
<1>4. RecordsKept
  <2> SUFFICES ASSUME NEW y \in Sids, Live(y)
               PROVE  MayBecome(store[y], store'[y], aged)
    BY DEF RecordsKept
  <2>1. CASE store'[y] = store[y]
    BY <2>1 DEF MayBecome
  <2>2. CASE y = s /\ store'[y] = x
    BY <2>2
  <2> QED
    BY <1>2, <2>1, <2>2
<1>5. \A u \in Tabs : CopyOK(u)'
  BY DEF OneTab
<1> QED
  BY <1>3, <1>4, <1>5 DEF OneTabInv

\* A step that may end a session.
LEMMA MayEnd ==
    ASSUME OneTab, SessionInv, OneTabInv, NEW t \in Tabs,
           NEW s \in Sids, owner[s] # NoUser,
           \/ UNCHANGED <<store, ended>>
           \/ store' = [store EXCEPT ![s] = NoRecord] /\ ended' = ended \cup {s},
           UNCHANGED <<owner, issued>>, CopyOK(t)'
    PROVE  OneTabInv' /\ RecordsKept
<1>1. store \in [Sids -> Record] /\ issued \in Nat
  BY DEF SessionInv, TypeOK
<1>2. CASE UNCHANGED <<store, ended>>
  BY <1>1, <1>2, NoSave
<1>3. CASE store' = [store EXCEPT ![s] = NoRecord] /\ ended' = ended \cup {s}
  <2>1. \A y \in Sids : store'[y] = IF y = s THEN NoRecord ELSE store[y]
    BY <1>1, <1>3
  <2>2. NoRecord.tok = 0
    BY DEF NoRecord
  <2>3. StoreOK'
    BY <1>1, <1>3, <2>1, <2>2 DEF OneTabInv, StoreOK, Live
  <2>4. RecordsKept
    BY <2>1 DEF RecordsKept, Live, MayBecome
  <2>5. \A u \in Tabs : CopyOK(u)'
    BY DEF OneTab
  <2> QED
    BY <2>3, <2>4, <2>5 DEF OneTabInv
<1> QED
  BY <1>2, <1>3

\* The refreshed copy differs from the record it replaces in a newer token.
LEMMA SaveTokenOneTab ==
    ASSUME OneTab, SessionInv, OneTabInv, NEW t \in Tabs, SaveToken(t)
    PROVE  OneTabInv' /\ RecordsKept
<1> DEFINE r == req[t]
           s == r.cookie.sid
<1>1. /\ r.pc = "saveToken" /\ r \in Request /\ r.sess \in Record /\ s \in Sids
      /\ s \notin ended /\ CopyOK(t)
  BY OfRequest DEF SaveToken, At, RequestOK, OneTabInv, CopyOK, Holding
<1>2. /\ issued' \in Nat /\ issued <= issued' /\ UNCHANGED <<owner, ended>>
      /\ issued' = issued
  BY DEF SaveToken, SessionInv, TypeOK, clock, history
<1>3. Live(s) => MayBecome(store[s], r.sess, aged)
  BY <1>1 DEF CopyOK, MayBecome
<1>4. req'[t].pc = "findUser" /\ req'[t].cookie = r.cookie /\ req'[t].sess = r.sess
  BY <1>1 DEF SaveToken, Goto, SessionInv, TypeOK, Request
<1>5. r.sess.tok <= issued'
  BY <1>1, <1>2 DEF CopyOK
<1>6. CopyOK(t)'
  BY <1>1, <1>2, <1>4, <1>5 DEF CopyOK
<1> QED
  BY <1>1, <1>2, <1>3, <1>5, <1>6, OneSave DEF SaveToken

\* Once the backend's rejection has ended the session nobody holds its record.
LEMMA RejectOneTab ==
    ASSUME OneTab, SessionInv, OneTabInv, NEW t \in Tabs, Reject(t)
    PROVE  OneTabInv' /\ RecordsKept
<1> DEFINE s == req[t].cookie.sid
<1>1. s \in Sids /\ owner[s] # NoUser
  BY OfRequest, Blanks DEF Reject, At, RequestOK, Holding
<1>2. UNCHANGED <<owner, issued>> /\ issued' \in Nat
  BY DEF Reject, SessionInv, TypeOK, clock
<1>3. CopyOK(t)'
  BY <1>2, UnauthenticatedCopyOK DEF Reject
<1> QED
  BY <1>1, <1>2, <1>3, MayEnd DEF Reject

\* The middleware puts the user of the copy into the context.
LEMMA FindUserOneTab ==
    ASSUME OneTab, SessionInv, OneTabInv, NEW t \in Tabs, FindUser(t)
    PROVE  OneTabInv' /\ RecordsKept
<1> DEFINE r == req[t]
           n == [r EXCEPT !.pc = "handler", !.user = r.sess.user, !.sess = NoRecord]
<1>1. /\ issued' \in Nat /\ issued <= issued' /\ UNCHANGED <<store, owner, ended>>
      /\ req \in [Tabs -> Request] /\ r \in Request
  BY DEF FindUser, SessionInv, TypeOK, clock, history
<1>2. CopyOK(t)'
  <2>1. CASE req' = [req EXCEPT ![t] = n]
    <3>1. req'[t] = n /\ n.pc = "handler" /\ n.sess = NoRecord
      BY <1>1, <2>1 DEF Request
    <3>2. req'[t].pc = "handler" /\ req'[t].sess.tok = 0
      BY <3>1 DEF NoRecord
    <3> QED
      BY <1>1, <3>2, HoldsNone DEF Holding
  <2>2. CASE req' = [req EXCEPT ![t] = Idle]
    BY <1>1, <2>2, IdleCopyOK
  <2>3. CASE req' = [req EXCEPT ![t] = Unauthenticated(req[t])]
    BY <1>1, <2>3, UnauthenticatedCopyOK
  <2> QED
    BY <2>1, <2>2, <2>3 DEF FindUser, Authenticated, Answer
<1> QED
  BY <1>1, <1>2, NoSave

\* Login holds no record yet.
LEMMA LoginOneTab ==
    ASSUME OneTab, SessionInv, OneTabInv, NEW t \in Tabs, Login(t) \/ HasAddresses(t)
    PROVE  OneTabInv' /\ RecordsKept
<1> DEFINE r == req[t]
<1>0. UNCHANGED <<store, owner, ended, issued>>
  BY DEF Login, HasAddresses, clock, history
<1>1. /\ issued' \in Nat /\ issued <= issued' /\ issued' = issued
      /\ UNCHANGED <<store, owner, ended>>
      /\ req \in [Tabs -> Request] /\ r \in Request /\ r.sess \in Record /\ CopyOK(t)
  BY <1>0, OfRequest DEF SessionInv, TypeOK, OneTabInv
<1>2. CASE Answer(t)
  BY <1>1, <1>2, IdleCopyOK, NoSave DEF Answer
<1>3. ASSUME NEW u \in Users,
             req' = [req EXCEPT ![t].sess = [NoRecord EXCEPT !.user = u,
                                                             !.dni = dni[u]],
                                ![t].pc = "hasAddresses"]
      PROVE  OneTabInv' /\ RecordsKept
  <2>1. req'[t].pc = "hasAddresses" /\ req'[t].sess.tok = 0
    BY <1>1, <1>3 DEF Request, NoRecord
  <2>2. CopyOK(t)'
    BY <1>1, <2>1, HoldsNone DEF Holding
  <2> QED
    BY <1>1, <2>2, NoSave
<1>4. ASSUME NEW b, req' = [req EXCEPT ![t].sess.addr = b, ![t].pc = "createSession"]
      PROVE  OneTabInv' /\ RecordsKept
  <2>1. req'[t].pc = "createSession" /\ req'[t].sess.tok = r.sess.tok
    BY <1>1, <1>4 DEF Request, Record
  <2>2. CopyOK(t)'
    BY <1>1, <2>1, HoldsNone DEF Holding, CopyOK
  <2> QED
    BY <1>1, <2>2, NoSave
<1> QED
  BY <1>2, <1>3, <1>4 DEF Login, HasAddresses

\* A fresh session id had no record and has not ended.
LEMMA CreateSessionOneTab ==
    ASSUME OneTab, SessionInv, OneTabInv, NEW t \in Tabs, CreateSession(t)
    PROVE  OneTabInv' /\ RecordsKept
<1> DEFINE r == req[t]
           x == [r.sess EXCEPT !.tok = issued']
           n(s) == [r EXCEPT !.cookie.sid = s, !.sess.tok = issued', !.pc = "findBasket"]
<1>1. /\ r \in Request /\ r.sess \in Record /\ r.cookie \in Cookie
      /\ issued \in Nat /\ ended' = ended /\ owner \in [Sids -> Users \cup {NoUser}]
  <2>1. ended' = ended
    BY DEF CreateSession
  <2> QED
    BY <2>1, OfRequest DEF SessionInv, TypeOK
<1>2. ASSUME issued < MaxTokens, issued' = issued + 1, NEW s \in FreshSid(t),
             store' = [store EXCEPT ![s] = x],
             owner' = [owner EXCEPT ![s] = r.sess.user],
             req' = [req EXCEPT ![t] = n(s)]
      PROVE  OneTabInv' /\ RecordsKept
  <2>1. s \in Sids /\ owner[s] = NoUser
    BY <1>2 DEF FreshSid
  <2>2. ~Live(s) /\ s \notin ended
    BY <2>1, Blanks DEF Live, SessionInv, RecordOK, OneTabInv, StoreOK
  <2>3. issued' \in Nat /\ issued <= issued' /\ issued' \in 0 .. MaxTokens
    BY <1>1, <1>2, SessionAssumption
  <2>4. x \in Record /\ x.tok = issued'
    BY <1>1, <2>3 DEF Record
  <2>5. n(s).sess = x /\ n(s).cookie.sid = s /\ n(s).pc = "findBasket"
    BY <1>1 DEF Request, Cookie
  <2>6. req'[t] = n(s) /\ \A y \in Sids \ {s} : owner'[y] = owner[y]
    BY <1>1, <1>2 DEF SessionInv, TypeOK
  <2> HIDE DEF n, x
  <2>7. CopyOK(t)'
    BY <1>1, <2>2, <2>3, <2>4, <2>5, <2>6 DEF CopyOK
  <2>8. Live(s) => MayBecome(store[s], x, aged)
    BY <2>2
  <2>9. x.tok <= issued'
    BY <2>3, <2>4
  <2> QED
    BY <1>1, <1>2, <2>1, <2>2, <2>3, <2>4, <2>6, <2>7, <2>8, <2>9, OneSave
<1>3. CASE Answer(t) /\ UNCHANGED <<store, issued, owner>>
  <2>1. CopyOK(t)'
    BY <1>1, <1>3, IdleCopyOK DEF Answer
  <2> QED
    BY <1>1, <1>3, <2>1, NoSave
<1> QED
  BY <1>2, <1>3 DEF CreateSession

\* The ends of login and of the wizard's first page.
LEMMA BasketsOneTab ==
    ASSUME OneTab, SessionInv, OneTabInv, NEW t \in Tabs, FindBasket(t) \/ CreateBasket(t)
    PROVE  OneTabInv' /\ RecordsKept
<1> DEFINE r == req[t]
<1>0. UNCHANGED <<store, owner, ended, issued>>
  BY DEF FindBasket, CreateBasket, clock, history
<1>1. /\ r \in Request /\ r.cookie \in Cookie /\ CopyOK(t)
      /\ issued' \in Nat /\ issued <= issued' /\ issued' = issued
      /\ UNCHANGED <<store, owner, ended>>
  BY <1>0, OfRequest DEF SessionInv, TypeOK, OneTabInv
<1>2. CASE Answer(t)
  BY <1>1, <1>2, IdleCopyOK, NoSave DEF Answer
<1>3. ASSUME NEW b, req' = [req EXCEPT ![t].cookie.basket = b, ![t].pc = "respond"]
      PROVE  OneTabInv' /\ RecordsKept
  <2>1. req'[t].pc = "respond" /\ req'[t].sess = r.sess
    BY <1>1, <1>3 DEF SessionInv, TypeOK, Request
  <2>2. CopyOK(t)'
    BY <1>1, <2>1, HoldsNone DEF Holding, CopyOK
  <2> QED
    BY <1>1, <2>2, NoSave
<1> QED
  BY <1>2, <1>3 DEF FindBasket, CreateBasket

\* Logout ends the session and holds nothing of it any more.
LEMMA LogoutOneTab ==
    ASSUME OneTab, SessionInv, OneTabInv, NEW t \in Tabs, Logout(t)
    PROVE  OneTabInv' /\ RecordsKept
<1> DEFINE r == req[t]
           s == r.cookie.sid
<1>1. /\ r \in Request /\ s \in Sids /\ owner[s] # NoUser /\ CopyOK(t)
  BY OfRequest, Blanks DEF Logout, At, RequestOK, Inside, OneTabInv
<1>2. UNCHANGED <<owner, issued>>
  BY DEF Logout, clock
<1>3. req'[t].pc = "respond" /\ req'[t].sess = r.sess
  BY <1>1 DEF Logout, SessionInv, TypeOK, Request
<1>4. CopyOK(t)'
  BY <1>1, <1>2, <1>3, HoldsNone DEF Holding, CopyOK
<1> QED
  BY <1>1, <1>2, <1>4, MayEnd DEF Logout

\* The handler's copy is the record again.
LEMMA ReloadOneTab ==
    ASSUME OneTab, SessionInv, OneTabInv, NEW t \in Tabs, Reload(t)
    PROVE  OneTabInv' /\ RecordsKept
<1> DEFINE r == req[t]
           s == r.cookie.sid
           n == [r EXCEPT !.sess = store[s], !.pc = FirstCall(r.kind)]
<1>0. UNCHANGED <<store, owner, ended, issued>>
  BY DEF Reload, clock, history
<1>1. r \in Request /\ issued' \in Nat /\ issued <= issued'
  BY <1>0 DEF SessionInv, TypeOK
<1>2. CASE Live(s) /\ req' = [req EXCEPT ![t] = n]
  <2>1. req'[t] = n /\ s \in Sids /\ s \notin ended /\ store[s].tok <= issued
    BY <1>2 DEF SessionInv, TypeOK, OneTabInv, StoreOK, Live
  <2>2. n.sess = store[s] /\ n.cookie = r.cookie /\ n.pc \in {"update", "insert"}
    BY <1>1 DEF Request, FirstCall
  <2> HIDE DEF n
  <2>3. CopyOK(t)'
    BY <1>0, <2>1, <2>2 DEF CopyOK
  <2> QED
    BY <1>0, <1>1, <2>3, NoSave
<1>3. CASE Answer(t)
  <2>1. CopyOK(t)'
    BY <1>1, <1>3, IdleCopyOK DEF Answer
  <2> QED
    BY <1>0, <1>1, <2>1, NoSave
<1> QED
  BY <1>2, <1>3 DEF Reload

\* A remote call of the wizard leaves the copy as it is.
LEMMA CallOneTab ==
    ASSUME OneTab, SessionInv, OneTabInv, NEW t \in Tabs,
           UpdateProfile(t) \/ InsertAddress(t)
    PROVE  OneTabInv' /\ RecordsKept
<1> DEFINE r == req[t]
<1>0. UNCHANGED <<store, owner, ended, issued>>
  BY DEF UpdateProfile, InsertAddress, clock, history
<1>1. r \in Request /\ issued' \in Nat /\ issued <= issued'
  BY <1>0 DEF SessionInv, TypeOK
<1>2. CASE Answer(t)
  <2>1. CopyOK(t)'
    BY <1>1, <1>2, IdleCopyOK DEF Answer
  <2> QED
    BY <1>0, <1>1, <2>1, NoSave
<1>3. ASSUME NEW l \in {"saveProfile", "createBasket", "saveAddress"}, Goto(t, l),
             r.pc \in {"update", "insert"}
      PROVE  OneTabInv' /\ RecordsKept
  <2>1. req'[t].pc = l /\ req'[t].cookie = r.cookie /\ req'[t].sess = r.sess
    BY <1>1, <1>3 DEF Goto, SessionInv, TypeOK, Request
  <2> QED
    BY <1>0, <1>3, <2>1, GoesOn DEF Holding
<1> QED
  BY <1>2, <1>3 DEF UpdateProfile, InsertAddress, AfterInsert, At

\* The wizard saves the record it loaded with one field more.
LEMMA SaveProfileOneTab ==
    ASSUME OneTab, SessionInv, OneTabInv, NEW t \in Tabs, SaveProfile(t)
    PROVE  OneTabInv' /\ RecordsKept
<1> DEFINE r == req[t]
           s == r.cookie.sid
           x == [r.sess EXCEPT !.dni = TRUE]
<1>0. UNCHANGED <<owner, ended, issued>>
  BY DEF SaveProfile, clock, history
<1>1. /\ r \in Request /\ r.sess \in Record /\ r.pc = "saveProfile" /\ s \in Sids
      /\ issued' \in Nat /\ issued <= issued' /\ CopyOK(t) /\ s \notin ended
  BY <1>0, OfRequest
     DEF SaveProfile, At, RequestOK, Holding, CopyOK, OneTabInv, SessionInv, TypeOK
<1>2. /\ x \in Record /\ x.tok = r.sess.tok /\ x.dni /\ x.addr = r.sess.addr
      /\ x.tok <= issued'
  BY <1>0, <1>1 DEF Record, CopyOK
<1> HIDE DEF x
<1>3. Live(s) => MayBecome(store[s], x, aged)
  BY <1>1, <1>2 DEF CopyOK, MayBecome
<1>4. CopyOK(t)'
  <2>1. CASE Goto(t, "createBasket")
    <3>1. /\ req'[t].pc = "createBasket" /\ req'[t].cookie = r.cookie
          /\ req'[t].sess = r.sess
      BY <1>1, <2>1 DEF Goto, SessionInv, TypeOK, Request
    <3> QED
      BY <1>0, <1>1, <3>1 DEF CopyOK
  <2>2. CASE Answer(t)
    BY <1>1, <2>2, IdleCopyOK DEF Answer
  <2> QED
    BY <2>1, <2>2 DEF SaveProfile
<1> QED
  BY <1>0, <1>1, <1>2, <1>3, <1>4, OneSave DEF SaveProfile, x

\* The same of the address.
LEMMA SaveAddressOneTab ==
    ASSUME OneTab, SessionInv, OneTabInv, NEW t \in Tabs, SaveAddress(t)
    PROVE  OneTabInv' /\ RecordsKept
<1> DEFINE r == req[t]
           s == r.cookie.sid
           x == [r.sess EXCEPT !.addr = TRUE]
<1>0. UNCHANGED <<owner, ended, issued>>
  BY DEF SaveAddress, clock, history
<1>1. /\ r \in Request /\ r.sess \in Record /\ r.pc = "saveAddress" /\ s \in Sids
      /\ issued' \in Nat /\ issued <= issued' /\ CopyOK(t) /\ s \notin ended
  BY <1>0, OfRequest
     DEF SaveAddress, At, RequestOK, Holding, CopyOK, OneTabInv, SessionInv, TypeOK
<1>2. /\ x \in Record /\ x.tok = r.sess.tok /\ x.addr /\ x.dni = r.sess.dni
      /\ x.tok <= issued'
  BY <1>0, <1>1 DEF Record, CopyOK
<1> HIDE DEF x
<1>3. Live(s) => MayBecome(store[s], x, aged)
  BY <1>1, <1>2 DEF CopyOK, MayBecome
<1>4. CopyOK(t)'
  BY <1>1, IdleCopyOK DEF SaveAddress, Answer
<1> QED
  BY <1>0, <1>1, <1>2, <1>3, <1>4, OneSave DEF SaveAddress, x

\* Time only makes more tokens due, and a record that expires is gone.
LEMMA OutsideOneTab ==
    ASSUME SessionInv, OneTabInv, Age \/ \E s \in Sids : Expire(s) \/ Revoke(s)
    PROVE  OneTabInv' /\ RecordsKept
<1>0. /\ store \in [Sids -> Record] /\ issued \in Nat /\ aged \in Nat
      /\ \A t \in Tabs : req[t].sess.tok \in Nat
      /\ \A s \in Sids : store[s].tok \in Nat
  BY SessionAssumption DEF SessionInv, TypeOK, Request, Record
<1>1. CASE Age
  <2>1. /\ UNCHANGED <<store, issued, req, owner, ended>>
        /\ aged' \in Nat /\ aged <= aged'
    BY <1>0, <1>1 DEF Age, history
  <2>2. StoreOK'
    BY <2>1 DEF OneTabInv, StoreOK, Live
  <2>3. ASSUME NEW t \in Tabs PROVE CopyOK(t)'
    <3>1. CopyOK(t)
      BY DEF OneTabInv
    <3>2. \A y : Live(y)' => Live(y) /\ y \in Sids
      BY <2>1 DEF Live
    <3> QED
      BY <1>0, <2>1, <3>1, <3>2 DEF CopyOK
  <2> QED
    BY <2>1, <2>2, <2>3 DEF OneTabInv, RecordsKept, MayBecome
<1>2. ASSUME NEW s \in Sids, Expire(s)
      PROVE  OneTabInv' /\ RecordsKept
  <2>1. /\ UNCHANGED <<issued, aged, req, owner, ended>>
        /\ \A y \in Sids : store'[y] = IF y = s THEN NoRecord ELSE store[y]
    BY <1>0, <1>2 DEF Expire, clock, history
  <2>2. \A y : Live(y)' => Live(y) /\ store'[y] = store[y]
    BY <2>1 DEF Live
  <2>3. NoRecord.tok = 0
    BY DEF NoRecord
  <2>4. \A y \in Sids : store'[y].tok <= issued
    BY <1>0, <2>1, <2>3 DEF OneTabInv, StoreOK
  <2>5. StoreOK'
    BY <2>1, <2>2, <2>4 DEF OneTabInv, StoreOK
  <2>6. \A t \in Tabs : CopyOK(t)'
    BY <2>1, <2>2 DEF OneTabInv, CopyOK
  <2> QED
    BY <2>2, <2>5, <2>6 DEF OneTabInv, RecordsKept, MayBecome
<1>3. ASSUME NEW s \in Sids, Revoke(s)
      PROVE  OneTabInv' /\ RecordsKept
  <2>1. UNCHANGED <<store, issued, aged, req, owner, ended>>
    BY <1>3 DEF Revoke, history
  <2> QED
    BY <2>1 DEF OneTabInv, StoreOK, CopyOK, Live, RecordsKept, MayBecome
<1> QED
  BY <1>1, <1>2, <1>3

\* At first there is no session, no token and no request.
LEMMA InitOneTab == Init => OneTabInv
<1> HAVE Init
<1>1. \A s \in Sids : store[s].tok = 0 /\ s \notin ended
  BY DEF Init, NoRecord
<1>2. \A t \in Tabs : req[t].pc = "idle" /\ req[t].sess.tok = 0
  BY DEF Init, Idle, NoRecord
<1>3. issued = 0
  BY DEF Init
<1> QED
  BY <1>1, <1>2, <1>3 DEF OneTabInv, StoreOK, CopyOK, Holding

\* Every step of a single tab keeps the invariant and the records.
LEMMA NextOneTab ==
    ASSUME OneTab, SessionInv, OneTabInv, Next
    PROVE  OneTabInv' /\ RecordsKept
<1>1. ASSUME NEW t \in Tabs, Step(t)
      PROVE  OneTabInv' /\ RecordsKept
  BY <1>1, LoadOneTab, RefreshOneTab, SaveTokenOneTab, RejectOneTab, FindUserOneTab,
     LoginOneTab, CreateSessionOneTab, BasketsOneTab, LogoutOneTab, ReloadOneTab,
     CallOneTab, SaveProfileOneTab, SaveAddressOneTab, RespondOneTab
     DEF Step
<1> QED
  BY <1>1, SendOneTab, OutsideOneTab DEF Next

\* Nothing happens.
LEMMA StutterOneTab == OneTabInv /\ UNCHANGED vars => OneTabInv'
BY DEF vars, OneTabInv, StoreOK, CopyOK, Live

\* The invariant holds of every behaviour of a single tab.
THEOREM OneTabInvariant == ASSUME OneTab PROVE Spec => []OneTabInv
<1>1. SessionInv /\ OneTabInv /\ [Next]_vars => OneTabInv'
  BY NextOneTab, StutterOneTab
<1> QED
  BY <1>1, InitOneTab, SessionInvariant, PTL DEF Spec

\* With one request at a time, a session that a logout or a rejected refresh has
\* removed from Redis stays removed (home.go logout, session.go).
THEOREM SessionStaysEnded == ASSUME OneTab PROVE Spec => []EndedStaysEnded
<1>1. SessionInv /\ OneTabInv => EndedStaysEnded
  BY DEF SessionInv, TypeOK, OneTabInv, StoreOK, EndedStaysEnded
<1> QED
  BY <1>1, OneTabInvariant, SessionInvariant, PTL

\* With one request at a time, the token of a session is exchanged only when it
\* is close to expiry, and never for an older one (session.go refreshIfNeeded).
THEOREM SessionTokenWhenDue == ASSUME OneTab PROVE Spec => TokenReplacedWhenDue
<1>1. SessionInv /\ OneTabInv /\ [Next]_vars =>
         [\A s \in Sids :
             Live(s) /\ Live(s)' /\ store'[s].tok # store[s].tok
                => store[s].tok <= aged /\ store'[s].tok > store[s].tok]_vars
  BY NextOneTab DEF RecordsKept, MayBecome
<1> QED
  BY <1>1, OneTabInvariant, SessionInvariant, PTL DEF Spec, TokenReplacedWhenDue

\* With one request at a time, no Save of the record takes away what the wizard
\* has written into it (user.go, address.go, session.go).
THEOREM SessionOnboardingKept == ASSUME OneTab PROVE Spec => OnboardingKept
<1>1. SessionInv /\ OneTabInv /\ [Next]_vars =>
         [\A s \in Sids :
             Live(s) /\ Live(s)' =>
                /\ store[s].dni => store'[s].dni
                /\ store[s].addr => store'[s].addr]_vars
  BY NextOneTab DEF RecordsKept, MayBecome
<1> QED
  BY <1>1, OneTabInvariant, SessionInvariant, PTL DEF Spec, OnboardingKept
=============================================================================
