------------------------------ MODULE Session -------------------------------
(***************************************************************************)
(* Who is logged in.  The browser's cookie holds an opaque session id (and *)
(* the basket id); the session record it points at lives in Redis and is   *)
(* only ever read and written WHOLE.  Every request first runs the session *)
(* middleware, which may exchange the access token for a new one and save  *)
(* the record, or delete it when the backend rejects the refresh; login,   *)
(* logout and the onboarding wizard then read and write the same record.   *)
(*                                                                         *)
(* A request is a process: every call to Redis and to a remote service is  *)
(* a step of its own, so the requests of several tabs interleave between   *)
(* the Load of a record and the Save of its changed copy.                  *)
(*                                                                         *)
(* Tokens are numbered in the order the backend issues them.  They all     *)
(* live equally long, so "close to expiry" holds of the tokens up to some  *)
(* number (aged) and time passing means that the number grows.             *)
(***************************************************************************)
EXTENDS Naturals

CONSTANTS
    Tabs,       \* requests that may be in flight together
    Users,      \* shoppers who log in with this browser
    NoUser,     \* nobody
    Kinds,      \* the kinds of request that are made
    MaxLogins,  \* bound: sessions created
    MaxTokens   \* bound: access tokens issued

ASSUME SessionAssumption ==
    /\ NoUser \notin Users
    /\ Kinds \subseteq {"login", "logout", "getProfile", "getAddress",
                        "profile", "address", "newAddress"}
    /\ MaxLogins \in Nat
    /\ MaxTokens \in Nat

VARIABLES
    \* the browser
    jar,       \* its cookie: a session id and a basket id
    form,      \* per tab: the wizard form it shows
    \* Redis
    store,     \* per session id: the record, NoRecord if there is none
    \* the remote services
    dni,       \* per user: has a DNI on file
    addr,      \* per user: has a saved address
    basket,    \* per user: has an open basket
    revoked,   \* the sessions whose refresh token the backend rejects
    issued,    \* access tokens issued so far
    aged,      \* the tokens up to this number are close to expiry
    \* the application
    req,       \* per tab: the request being handled
    \* history
    owner,     \* per session id: the user whose login created it
    ended      \* session ids a logout or a rejection has deleted

backend == <<dni, addr, basket>>
clock   == <<revoked, issued, aged>>
history == <<owner, ended>>
vars    == <<jar, form, store, dni, addr, basket, revoked, issued, aged, req,
             owner, ended>>

-----------------------------------------------------------------------------
(* Values.  As in Storefront, a definition whose name extends that of the    *)
(* one below it is a faulty variant which no action uses.                    *)

Sids  == 1 .. MaxLogins
NoSid == 0

\* domain.Session.  The DNI and the address matter only as present or absent.
Record == [user : Users \cup {NoUser}, dni : BOOLEAN, addr : BOOLEAN,
           tok : 0 .. MaxTokens]

NoRecord == [user |-> NoUser, dni |-> FALSE, addr |-> FALSE, tok |-> 0]

\* A basket id stands for the user whose basket it is.
Cookie == [sid : Sids \cup {NoSid}, basket : Users \cup {NoUser}]

BlankCookie == [sid |-> NoSid, basket |-> NoUser]

Labels == {"idle", "load", "refresh", "saveToken", "reject", "findUser",
           "handler", "login", "hasAddresses", "createSession", "findBasket",
           "update", "saveProfile", "createBasket", "insert", "saveAddress",
           "respond"}

\* A request: what it asks for (kind), its next call (pc), whether authenticate
\* or requireAuthenticatedUser is resolving the session (pass), its copy of the
\* cookie, its copy of the record (sess) and the user put into its context.
Request == [kind : Kinds \cup {"none"}, pc : Labels, pass : {1, 2},
            cookie : Cookie, sess : Record, user : Users \cup {NoUser}]

Idle == [kind |-> "none", pc |-> "idle", pass |-> 1, cookie |-> BlankCookie,
         sess |-> NoRecord, user |-> NoUser]

Live(s) == s \in Sids /\ store[s] # NoRecord

\* needsRefresh, of the token of a record; the variant is off by one.
NeedsRefreshEarly(r) == r.tok <= aged + 1

NeedsRefresh(r) == r.tok <= aged

Init ==
    /\ jar = BlankCookie
    /\ form = [t \in Tabs |-> "none"]
    /\ store = [s \in Sids |-> NoRecord]
    /\ dni = [u \in Users |-> FALSE]
    /\ addr = [u \in Users |-> FALSE]
    /\ basket = [u \in Users |-> FALSE]
    /\ revoked = {}
    /\ issued = 0
    /\ aged = 0
    /\ req = [t \in Tabs |-> Idle]
    /\ owner = [s \in Sids |-> NoUser]
    /\ ended = {}

-----------------------------------------------------------------------------
(* How a request goes on. *)

At(t, pc) == req[t].pc = pc

Goto(t, pc) == req' = [req EXCEPT ![t].pc = pc]

\* The answer leaves the cookie alone: an error page or a redirect.
Answer(t) == req' = [req EXCEPT ![t] = Idle]

\* The session middleware has resolved no user: requireAnonymousUser lets the
\* request through, requireAuthenticatedUser resolves the session once more
\* and then redirects (the variant never does).
UnauthenticatedAgain(r) ==
    IF r.kind = "login" THEN [r EXCEPT !.pc = "login", !.sess = NoRecord]
    ELSE [r EXCEPT !.pc = "load", !.sess = NoRecord]

Unauthenticated(r) ==
    IF r.kind = "login" THEN [r EXCEPT !.pc = "login", !.sess = NoRecord]
    ELSE IF r.pass = 1
         THEN [r EXCEPT !.pc = "load", !.pass = 2, !.sess = NoRecord]
         ELSE Idle

\* The middleware has put the record's user into the context:
\* requireAnonymousUser redirects, requireAuthenticatedUser lets it through.
\* The variant mistakes the session id for the user's.
AuthenticatedBySid(r) ==
    IF r.kind = "login" THEN Idle
    ELSE [r EXCEPT !.pc = "handler", !.user = r.cookie.sid, !.sess = NoRecord]

Authenticated(r) ==
    IF r.kind = "login" THEN Idle
    ELSE [r EXCEPT !.pc = "handler", !.user = r.sess.user, !.sess = NoRecord]

\* A request leaves the browser with the cookie; the wizard's POSTs come from
\* the form the tab shows.
Send(t, k) ==
    /\ At(t, "idle")
    /\ k \in {"profile", "address"} => form[t] = k
    /\ req' = [req EXCEPT ![t] = [Idle EXCEPT !.kind = k, !.pc = "load",
                                              !.cookie = jar]]
    /\ UNCHANGED <<jar, form, store, backend, clock, history>>

\* The answer carries the request's copy of the cookie, whole.
Respond(t) ==
    /\ At(t, "respond")
    /\ jar' = req[t].cookie
    /\ Answer(t)
    /\ UNCHANGED <<form, store, backend, clock, history>>

-----------------------------------------------------------------------------
(* currentSession and refreshIfNeeded. *)

\* Load the record; no session id, no record or an error of Redis mean "not
\* logged in".
Load(t) ==
    LET s == req[t].cookie.sid IN
    /\ At(t, "load")
    /\ \/ /\ Live(s)
          /\ req' = [req EXCEPT ![t].sess = store[s],
                                ![t].pc = IF NeedsRefresh(store[s])
                                          THEN "refresh" ELSE "findUser"]
       \/ req' = [req EXCEPT ![t] = Unauthenticated(@)]
    /\ UNCHANGED <<jar, form, store, backend, clock, history>>

\* RefreshUserToken.  A failure other than a rejection, and an answer without
\* a token, leave the session as it is and let the request go on.
Refresh(t) ==
    /\ At(t, "refresh")
    /\ \/ /\ req[t].cookie.sid \notin revoked
          /\ issued < MaxTokens
          /\ issued' = issued + 1
          /\ req' = [req EXCEPT ![t].pc = "saveToken", ![t].sess.tok = issued']
       \/ /\ req[t].cookie.sid \in revoked
          /\ Goto(t, "reject")
          /\ UNCHANGED issued
       \/ Goto(t, "findUser") /\ UNCHANGED issued
    /\ UNCHANGED <<jar, form, store, backend, revoked, aged, history>>

\* The Save of the refreshed record.  If it fails the request goes on.
SaveToken(t) ==
    /\ At(t, "saveToken")
    /\ \/ store' = [store EXCEPT ![req[t].cookie.sid] = req[t].sess]
       \/ UNCHANGED store
    /\ Goto(t, "findUser")
    /\ UNCHANGED <<jar, form, backend, clock, history>>

\* The faulty variant goes on to the Save after deleting the record.
RejectAndGoOn(t) ==
    /\ At(t, "reject")
    /\ store' = [store EXCEPT ![req[t].cookie.sid] = NoRecord]
    /\ ended' = ended \cup {req[t].cookie.sid}
    /\ Goto(t, "saveToken")
    /\ UNCHANGED <<jar, form, backend, clock, owner>>

\* The backend rejected the refresh: delete the record; "not logged in".
Reject(t) ==
    /\ At(t, "reject")
    /\ \/ /\ store' = [store EXCEPT ![req[t].cookie.sid] = NoRecord]
          /\ ended' = ended \cup {req[t].cookie.sid}
       \/ UNCHANGED <<store, ended>>
    /\ req' = [req EXCEPT ![t] = Unauthenticated(@)]
    /\ UNCHANGED <<jar, form, backend, clock, owner>>

\* FindUserByID: the user, an empty user, or an error page.
FindUser(t) ==
    /\ At(t, "findUser")
    /\ \/ req' = [req EXCEPT ![t] = Authenticated(@)]
       \/ req' = [req EXCEPT ![t] = Unauthenticated(@)]
       \/ Answer(t)
    /\ UNCHANGED <<jar, form, store, backend, clock, history>>

-----------------------------------------------------------------------------
(* Login. *)

\* FindUserByEmailAndPassword; otherwise the form is shown again or an error.
Login(t) ==
    /\ At(t, "login")
    /\ \/ \E u \in Users :
             req' = [req EXCEPT ![t].sess = [NoRecord EXCEPT !.user = u,
                                                             !.dni = dni[u]],
                                ![t].pc = "hasAddresses"]
       \/ Answer(t)
    /\ UNCHANGED <<jar, form, store, backend, clock, history>>

\* HasAddresses.  An error of the service with a readable body counts as "no
\* addresses".
HasAddresses(t) ==
    /\ At(t, "hasAddresses")
    /\ \/ \E b \in {FALSE, addr[req[t].sess.user]} :
             req' = [req EXCEPT ![t].sess.addr = b, ![t].pc = "createSession"]
       \/ Answer(t)
    /\ UNCHANGED <<jar, form, store, backend, clock, history>>

\* token.New never hands out an id twice (ids are numbered as they are handed
\* out); the variant keeps the id the cookie came with.
FreshSidKept(t) == {s \in Sids : s = req[t].cookie.sid \/ owner[s] = NoUser}

FreshSid(t) ==
    {s \in Sids : owner[s] = NoUser /\ \A r \in Sids : r < s => owner[r] # NoUser}

\* The user's own token, a fresh session id, and the Save of the new record.
CreateSession(t) ==
    /\ At(t, "createSession")
    /\ \/ /\ issued < MaxTokens
          /\ issued' = issued + 1
          /\ \E s \in FreshSid(t) :
                /\ store' = [store EXCEPT ![s] =
                                [req[t].sess EXCEPT !.tok = issued']]
                /\ owner' = [owner EXCEPT ![s] = req[t].sess.user]
                /\ req' = [req EXCEPT ![t].cookie.sid = s,
                                      ![t].sess.tok = issued',
                                      ![t].pc = "findBasket"]
       \/ Answer(t) /\ UNCHANGED <<store, issued, owner>>
    /\ UNCHANGED <<jar, form, backend, revoked, aged, ended>>

\* BasketService.FindByUserID: the open basket's id, an empty id, or an error
\* that is swallowed and leaves the basket id the cookie came with.  The cookie
\* is saved before the late look at the basket, so the answer carries it
\* whether the login ends in a redirect or in an error page.
FindBasket(t) ==
    /\ At(t, "findBasket")
    /\ \E b \in {req[t].cookie.basket, NoUser}
                   \cup {u \in {req[t].sess.user} : basket[u]} :
          req' = [req EXCEPT ![t].cookie.basket = b, ![t].pc = "respond"]
    /\ UNCHANGED <<jar, form, store, backend, clock, history>>

-----------------------------------------------------------------------------
(* Logout, the wizard and the addresses. *)

\* Logout deletes the record (a failure is only logged) and clears the cookie.
Logout(t) ==
    /\ At(t, "handler") /\ req[t].kind = "logout"
    /\ LET s == req[t].cookie.sid IN
       \/ /\ store' = [store EXCEPT ![s] = NoRecord]
          /\ ended' = ended \cup {s}
       \/ UNCHANGED <<store, ended>>
    /\ req' = [req EXCEPT ![t].cookie = BlankCookie, ![t].pc = "respond"]
    /\ UNCHANGED <<jar, form, backend, clock, owner>>

\* What a handler does once it has loaded the record r: the GETs answer with
\* the form or a redirect, the POSTs go on to their first remote call.
FormOf(kind, r, old) ==
    CASE kind = "getProfile" -> "profile"
      [] kind = "getAddress" /\ r.dni /\ ~r.addr -> "address"
      [] OTHER -> old

FirstCall(kind) == IF kind = "profile" THEN "update" ELSE "insert"

\* The handler's own currentSession: it loads the record again, without a
\* refresh.  A form that does not validate is shown again.
Reload(t) ==
    LET s == req[t].cookie.sid
        k == req[t].kind
    IN
    /\ At(t, "handler") /\ k # "logout"
    /\ \/ /\ Live(s)
          /\ k \in {"getProfile", "getAddress"}
          /\ form' = [form EXCEPT ![t] = FormOf(k, store[s], @)]
          /\ Answer(t)
       \/ /\ Live(s)
          /\ k \in {"profile", "address", "newAddress"}
          /\ req' = [req EXCEPT ![t].sess = store[s], ![t].pc = FirstCall(k)]
          /\ UNCHANGED form
       \/ Answer(t) /\ UNCHANGED form
    /\ UNCHANGED <<jar, store, backend, clock, history>>

\* UpdateProfile: done; done, but the answer is lost; "user not found", which
\* skips the Save; or an error.
UpdateProfile(t) ==
    /\ At(t, "update")
    /\ \/ /\ dni' = [dni EXCEPT ![req[t].user] = TRUE]
          /\ Goto(t, "saveProfile") \/ Answer(t)
       \/ /\ Goto(t, "createBasket") \/ Answer(t)
          /\ UNCHANGED dni
    /\ UNCHANGED <<jar, form, store, addr, basket, clock, history>>

\* The Save of the record with its DNI; the variant forgets the address.
SaveProfileAfresh(t) ==
    /\ At(t, "saveProfile")
    /\ store' = [store EXCEPT ![req[t].cookie.sid] =
                    [req[t].sess EXCEPT !.dni = TRUE, !.addr = FALSE]]
    /\ Goto(t, "createBasket")
    /\ UNCHANGED <<jar, form, backend, clock, history>>

SaveProfile(t) ==
    /\ At(t, "saveProfile")
    /\ \/ /\ store' = [store EXCEPT ![req[t].cookie.sid] =
                          [req[t].sess EXCEPT !.dni = TRUE]]
          /\ Goto(t, "createBasket")
       \/ UNCHANGED store /\ Answer(t)
    /\ UNCHANGED <<jar, form, backend, clock, history>>

\* CreateBasket: created, and the cookie gets its id (or an empty id, from an
\* empty body); created, but the answer is lost; or an error.
CreateBasket(t) ==
    /\ At(t, "createBasket")
    /\ \/ /\ basket' = [basket EXCEPT ![req[t].user] = TRUE]
          /\ \/ \E b \in {req[t].user, NoUser} :
                   req' = [req EXCEPT ![t].cookie.basket = b,
                                      ![t].pc = "respond"]
             \/ Answer(t)
       \/ UNCHANGED basket /\ Answer(t)
    /\ UNCHANGED <<jar, form, store, dni, addr, clock, history>>

\* The variant saves the address whatever the service answered.
AfterInsertAlways(k, inserted) ==
    IF k = "address" THEN {"saveAddress"} ELSE {"idle"}

\* Where InsertAddress leads: only the wizard saves the id it was answered
\* with; an empty id, a lost answer and an error save nothing.
AfterInsert(k, inserted) ==
    {"idle"} \cup (IF k = "address" /\ inserted THEN {"saveAddress"} ELSE {})

InsertAddress(t) ==
    /\ At(t, "insert")
    /\ \E inserted \in BOOLEAN :
          /\ addr' = [addr EXCEPT ![req[t].sess.user] = @ \/ inserted]
          /\ \E pc \in AfterInsert(req[t].kind, inserted) :
                IF pc = "idle" THEN Answer(t) ELSE Goto(t, pc)
    /\ UNCHANGED <<jar, form, store, dni, basket, clock, history>>

SaveAddress(t) ==
    /\ At(t, "saveAddress")
    /\ \/ store' = [store EXCEPT ![req[t].cookie.sid] =
                       [req[t].sess EXCEPT !.addr = TRUE]]
       \/ UNCHANGED store
    /\ Answer(t)
    /\ UNCHANGED <<jar, form, backend, clock, history>>

-----------------------------------------------------------------------------
(* What happens to sessions by themselves. *)

\* Time passes: more tokens come close to expiry.
Age ==
    /\ aged' \in (aged + 1) .. issued
    /\ UNCHANGED <<jar, form, store, backend, revoked, issued, req, history>>

\* The record's time to live runs out.
Expire(s) ==
    /\ Live(s)
    /\ store' = [store EXCEPT ![s] = NoRecord]
    /\ UNCHANGED <<jar, form, backend, clock, req, history>>

\* The backend stops accepting a session's refresh token.
Revoke(s) ==
    /\ owner[s] # NoUser /\ s \notin revoked
    /\ revoked' = revoked \cup {s}
    /\ UNCHANGED <<jar, form, store, backend, issued, aged, req, history>>

-----------------------------------------------------------------------------
Step(t) ==
    \/ Load(t) \/ Refresh(t) \/ SaveToken(t) \/ Reject(t) \/ FindUser(t)
    \/ Login(t) \/ HasAddresses(t) \/ CreateSession(t) \/ FindBasket(t)
    \/ Logout(t) \/ Reload(t) \/ UpdateProfile(t) \/ SaveProfile(t)
    \/ CreateBasket(t) \/ InsertAddress(t) \/ SaveAddress(t) \/ Respond(t)

Next ==
    \/ \E t \in Tabs : Step(t) \/ \E k \in Kinds : Send(t, k)
    \/ Age
    \/ \E s \in Sids : Expire(s) \/ Revoke(s)

\* A request that has been sent is carried through: every call has a deadline
\* and every branch of a handler answers.  Nobody has to send one.
Fairness == \A t \in Tabs : WF_vars(Step(t))

Spec == Init /\ [][Next]_vars /\ Fairness

-----------------------------------------------------------------------------
(* Properties. *)

TypeOK ==
    /\ jar \in Cookie
    /\ form \in [Tabs -> {"none", "profile", "address"}]
    /\ store \in [Sids -> Record]
    /\ dni \in [Users -> BOOLEAN]
    /\ addr \in [Users -> BOOLEAN]
    /\ basket \in [Users -> BOOLEAN]
    /\ revoked \in SUBSET Sids
    /\ issued \in 0 .. MaxTokens
    /\ aged \in 0 .. MaxTokens
    /\ req \in [Tabs -> Request]
    /\ owner \in [Sids -> Users \cup {NoUser}]
    /\ ended \in SUBSET Sids

\* The labels at which a request holds a record loaded under its session id.
Holding == {"refresh", "saveToken", "reject", "findUser", "findBasket",
            "update", "saveProfile", "createBasket", "insert", "saveAddress"}

\* However the requests of several tabs and several logins interleave, a
\* session id serves the user whose login created it and nobody else: the
\* record under it, the copies of the record that requests hold to save later,
\* and the user the middleware put into the context of a request (session.go,
\* middleware.go, auth.go Login).
ServesOwner ==
    /\ \A s \in Sids :
          Live(s) => owner[s] # NoUser /\ store[s].user = owner[s]
    /\ \A t \in Tabs :
          LET s == req[t].cookie.sid IN
          /\ req[t].pc \in Holding =>
                s \in Sids /\ req[t].sess.user = owner[s]
          /\ req[t].user # NoUser /\ s # NoSid => req[t].user = owner[s]

\* A session record never claims more of its user's onboarding than the
\* customers service holds: the wizard saves the DNI and the address only once
\* the service has them, whatever fails in between (user.go UpdateWizard,
\* address.go CreateAddressWizard, auth/service.go Login).
RecordBacked ==
    \A s \in Sids : Live(s) =>
        /\ store[s].dni => dni[store[s].user]
        /\ store[s].addr => addr[store[s].user]

\* A session that a logout or a rejected refresh has removed from Redis is not
\* there again later (home.go logout: "a stolen/cached cookie is rejected
\* immediately").
EndedStaysEnded == \A s \in ended : ~Live(s)

\* The access token of a session is exchanged only when it is close to expiry,
\* and never for an older one (session.go refreshIfNeeded: "at most one extra
\* request, at most once per refresh_interval, only when needed").
TokenReplacedWhenDue ==
    [][\A s \in Sids :
          Live(s) /\ Live(s)' /\ store'[s].tok # store[s].tok
             => store[s].tok <= aged /\ store'[s].tok > store[s].tok]_vars

\* What the wizard has written into the session record stays in it: no later
\* Save of the record takes the DNI or the address away (user.go and address.go
\* save the record they loaded, session.go saves it on every refresh).
OnboardingKept ==
    [][\A s \in Sids :
          Live(s) /\ Live(s)' =>
             /\ store[s].dni => store'[s].dni
             /\ store[s].addr => store'[s].addr]_vars

\* Every request is answered, the second look of requireAuthenticatedUser at
\* the session included (middleware.go).
RequestsAnswered == \A t \in Tabs : ~At(t, "idle") ~> At(t, "idle")

\* The basket in the cookie of a logged-in browser is that user's (auth.go
\* Login: where the lookup of the basket fails, "a user simply doesn't have a
\* basket cookie yet in that case").
BasketOfTheUser ==
    Live(jar.sid) /\ jar.basket # NoUser => jar.basket = store[jar.sid].user
=============================================================================
