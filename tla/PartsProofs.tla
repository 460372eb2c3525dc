---------------------------- MODULE PartsProofs -----------------------------
(***************************************************************************)
(* Theorems about Server, ProductSearch and the Session of one tab, as     *)
(* MCParts instantiates them, for any number of connections, tabs, terms   *)
(* and users and any size of a page; and, from these and those about the   *)
(* pages and the amounts, theorems about PartsSpec, in which the parts are *)
(* explored side by side.                                                  *)
(***************************************************************************)
EXTENDS PagesProofs, AmountsProofs

-----------------------------------------------------------------------------
(* Server. *)

\* Once Shutdown has begun nothing new is accepted; the result is there before
\* main acts on it; and a result that says "ok" was reported when nothing was
\* open any more, while only the end of the process cuts anything off.
ServerInv ==
    /\ conn \in [Conns -> {"none", "open", "active", "answered", "cut"}]
    /\ watcher \in {"draining", "sent"} => ~listening
    /\ watcher = "sent" => result # "none"
    /\ main = "waiting" => watcher \in {"draining", "sent"}
    /\ main \in {"leaving", "closed", "exited"} => result # "none"
    /\ main # "exited" => \A c \in Conns : conn[c] # "cut"
    /\ result = "ok" =>
          /\ watcher = "sent"
          /\ \A c \in Conns : conn[c] \notin {"open", "active", "cut"}

\* The requests: none begins once the result is "ok".
LEMMA ServerRequest ==
    ASSUME ServerInv, NEW c \in Conns,
           \/ WebServer!Accept(c) \/ WebServer!Begin(c)
           \/ WebServer!Answer(c) \/ WebServer!CloseIdle(c)
    PROVE  ServerInv'
<1>1. /\ UNCHANGED <<main, watcher, result, listening>> /\ main # "exited"
      /\ \E v \in {"none", "open", "active", "answered"} :
            conn' = [conn EXCEPT ![c] = v]
  BY DEF WebServer!Accept, WebServer!Begin, WebServer!Answer, WebServer!CloseIdle,
         WebServer!Running
<1>2. result # "ok"
  BY DEF WebServer!Accept, WebServer!Begin, WebServer!Answer, WebServer!CloseIdle,
         ServerInv
<1> QED
  BY <1>1, <1>2 DEF ServerInv

\* Every step of the two goroutines and of the connections keeps it.
LEMMA ServerStep == ServerInv /\ [WebServer!Next]_serverVars => ServerInv'
<1> SUFFICES ASSUME ServerInv, [WebServer!Next]_serverVars
             PROVE  ServerInv'
  OBVIOUS
<1> USE DEF ServerInv
<1>1. CASE WebServer!Signal
  BY <1>1 DEF WebServer!Signal, WebServer!End, WebServer!Running
<1>2. CASE WebServer!Watch
  BY <1>2 DEF WebServer!Watch
<1>3. CASE WebServer!Shutdown
  BY <1>3 DEF WebServer!Shutdown
<1>4. CASE WebServer!Drained
  BY <1>4 DEF WebServer!Drained, WebServer!Quiet, WebServer!Running
<1>5. CASE WebServer!Deadline
  BY <1>5 DEF WebServer!Deadline
<1>6. CASE WebServer!ListenReturns \/ WebServer!Result \/ WebServer!CloseAllClients
  BY <1>6 DEF WebServer!ListenReturns, WebServer!Result, WebServer!CloseAllClients
<1>7. CASE WebServer!ListenFails
  BY <1>7 DEF WebServer!ListenFails
<1>8. CASE WebServer!Exit
  BY <1>8 DEF WebServer!Exit, WebServer!End
<1>9. CASE UNCHANGED serverVars
  BY <1>9 DEF serverVars
<1> QED
  BY <1>1, <1>2, <1>3, <1>4, <1>5, <1>6, <1>7, <1>8, <1>9, ServerRequest
     DEF WebServer!Next, WebServer!Watcher, WebServer!Main

\* Every step of them keeps the kinds of the values; ServerInv has those of the
\* connections.
LEMMA ServerTypeStep ==
    /\ WebServer!TypeOK
    /\ ServerInv
    /\ [WebServer!Next]_serverVars
    => WebServer!TypeOK'
<1> SUFFICES ASSUME WebServer!TypeOK, ServerInv, [WebServer!Next]_serverVars
             PROVE  WebServer!TypeOK'
  OBVIOUS
<1>1. conn' \in [Conns -> {"none", "open", "active", "answered", "cut"}]
  BY ServerStep DEF ServerInv
<1>2. ASSUME NEW c \in Conns,
             \/ WebServer!Accept(c) \/ WebServer!Begin(c)
             \/ WebServer!Answer(c) \/ WebServer!CloseIdle(c)
      PROVE  UNCHANGED <<main, watcher, result, signal, listening>>
  BY <1>2 DEF WebServer!Accept, WebServer!Begin, WebServer!Answer, WebServer!CloseIdle
<1>3. CASE WebServer!Signal \/ WebServer!ListenFails \/ WebServer!Watcher \/ WebServer!Main
  BY <1>1, <1>3
     DEF WebServer!TypeOK, WebServer!Signal, WebServer!ListenFails, WebServer!Watcher,
         WebServer!Watch, WebServer!Shutdown, WebServer!Drained, WebServer!Deadline,
         WebServer!Main, WebServer!ListenReturns, WebServer!Result,
         WebServer!CloseAllClients, WebServer!Exit
<1>4. CASE UNCHANGED serverVars
  BY <1>4 DEF serverVars, WebServer!TypeOK
<1> QED
  BY <1>1, <1>2, <1>3, <1>4 DEF WebServer!Next, WebServer!TypeOK

\* A shutdown that reports success cut no request off, and nothing is handled
\* while the clients of the other services are closed (server.go serveHTTP,
\* cmd/web/main.go run).
THEOREM ServerCleanShutdown == WebServer!Spec => []CleanShutdown
<1>1. WebServer!Init => ServerInv
  BY DEF WebServer!Init, ServerInv
<1>2. ServerInv => CleanShutdown
  BY DEF ServerInv, CleanShutdown, WebServer!CleanShutdown
<1>3. ServerInv /\ [WebServer!Next]_WebServer!vars => ServerInv'
  BY ServerStep DEF WebServer!vars, serverVars
<1> QED
  BY <1>1, <1>2, <1>3, PTL DEF WebServer!Spec

-----------------------------------------------------------------------------
(* ProductSearch, in any number of tabs over a changing catalogue. *)

\* What is searched has a term and a page, and so has what is remembered.
RaceInv ==
    /\ DOMAIN search = Tabs
    /\ searchCookie.page # 0 <=> searchCookie.term # Nothing
    /\ \A t \in Tabs : search[t].busy =>
          search[t].search.term # Nothing /\ search[t].search.page # 0

\* A request begins with a term or not at all.
LEMMA RaceBegin ==
    ASSUME RaceInv, NEW t \in Tabs, NEW s, NEW link, SearchRace!Begin(t, s, link),
           s.term # Nothing => s.page # 0, UNCHANGED searchCookie
    PROVE  RaceInv'
<1>1. CASE s.term = Nothing
  BY <1>1 DEF RaceInv, SearchRace!Begin
<1>2. CASE s.term # Nothing
  BY <1>2 DEF RaceInv, SearchRace!Begin
<1> QED
  BY <1>1, <1>2

\* Every request keeps it: the page the cookie remembers,
LEMMA RaceGet ==
    ASSUME RaceInv, NEW t \in Tabs, SearchRace!Get(t)
    PROVE  RaceInv'
BY RaceBegin DEF SearchRace!Get, RaceInv

\* ... a new search,
LEMMA RacePost ==
    ASSUME RaceInv, NEW t \in Tabs, NEW q, SearchRace!Post(t, q)
    PROVE  RaceInv'
<1> DEFINE s == [term |-> q, page |-> 1]
<1>1. s.page # 0
  OBVIOUS
<1>2. SearchRace!Begin(t, s, FALSE) /\ UNCHANGED searchCookie
  BY DEF SearchRace!Post
<1> HIDE DEF s
<1> QED
  BY <1>1, <1>2, RaceBegin

\* ... a page of the one remembered,
LEMMA RaceGetPage ==
    ASSUME RaceInv, NEW t \in Tabs, NEW p, p # 0, SearchRace!GetPage(t, p)
    PROVE  RaceInv'
BY RaceBegin DEF SearchRace!GetPage

\* ... and an answer.
LEMMA RaceAnswer ==
    ASSUME RaceInv, NEW t \in Tabs, SearchRace!Answer(t)
    PROVE  RaceInv'
BY DEF SearchRace!Answer, SearchRace!Idle, RaceInv

\* A change of the catalogue keeps it too.
LEMMA RaceStep == RaceInv /\ [SearchRace!Next]_searchVars => RaceInv'
<1> SUFFICES ASSUME RaceInv, [SearchRace!Next]_searchVars
             PROVE  RaceInv'
  OBVIOUS
<1>1. ASSUME NEW q \in Terms, SearchRace!Catalogue(q)
      PROVE  RaceInv'
  BY <1>1 DEF SearchRace!Catalogue, RaceInv
<1>2. CASE UNCHANGED searchVars
  BY <1>2 DEF searchVars, RaceInv
<1> QED
  BY <1>1, <1>2, RaceGet, RacePost, RaceGetPage, RaceAnswer DEF SearchRace!Next

\* A page of results is remembered only together with its term (product.go
\* FindProducts, renderProductSearch).
THEOREM SearchRememberedTogether == SearchRace!Spec => []RememberedTogether
<1>1. SearchRace!Init => RaceInv
  BY DEF SearchRace!Init, SearchRace!NoSearch, SearchRace!Idle, RaceInv
<1>2. RaceInv => RememberedTogether
  BY DEF RaceInv, RememberedTogether, SearchRace!RememberedTogether
<1>3. RaceInv /\ [SearchRace!Next]_SearchRace!vars => RaceInv'
  BY RaceStep DEF SearchRace!vars, searchVars
<1> QED
  BY <1>1, <1>2, <1>3, PTL DEF SearchRace!Spec

-----------------------------------------------------------------------------
(* ProductSearch, in one tab at a time over a catalogue that does not change. *)

\* A page among those of a number of results begins within them.
LEMMA PageBegins ==
    ASSUME NEW n \in Nat, NEW p \in Nat \ {0}, p <= SearchCalm!NumberOfPages(n)
    PROVE  (p - 1) * PageSize < n
<1> DEFINE q == n \div PageSize
           r == n % PageSize
<1>1. /\ PageSize \in Nat \ {0} /\ q \in Nat /\ r \in 0 .. PageSize - 1
      /\ n = PageSize * q + r
  BY PartsAssumption, Quotient
<1>2. p <= q + (IF r > 0 THEN 1 ELSE 0)
  BY DEF SearchCalm!NumberOfPages
<1> HIDE DEF q, r
<1>3. (p - 1) * PageSize = PageSize * (p - 1)
  BY <1>1
<1>4. CASE r > 0
  <2>1. PageSize * (p - 1) <= PageSize * q
    BY <1>1, <1>2, <1>4, TimesGrows
  <2> QED
    BY <1>1, <1>3, <1>4, <2>1
<1>5. CASE ~(r > 0)
  <2>1. PageSize * p <= PageSize * q
    BY <1>1, <1>2, <1>5, TimesGrows
  <2>2. PageSize * (p - 1) = PageSize * p - PageSize
    BY <1>1
  <2> QED
    BY <1>1, <1>3, <1>5, <2>1, <2>2
<1> QED
  BY <1>4, <1>5

\* Searches and views, whatever the number of pages.
Searches == [term : Terms \cup {Nothing}, page : Nat]
Views == [term : Terms \cup {Nothing}, page : Nat, pages : Nat]

\* A page after the first has results on it.
Within(s) ==
    s.page > 1 => s.term \in Terms /\ (s.page - 1) * PageSize < results[s.term]

\* What tab t shows is what the cookie remembers, and its search is within the
\* results; where it came from a link, it is of the search that is shown.
TabCalm(t) ==
    /\ view[t] # SearchCalm!Blank =>
          /\ view[t].term \in Terms
          /\ view[t].term = searchCookie.term /\ view[t].page = searchCookie.page
          /\ view[t].pages = SearchCalm!NumberOfPages(results[view[t].term])
    /\ search[t].busy => search[t].search.term \in Terms /\ Within(search[t].search)
    /\ search[t].busy /\ search[t].link =>
          /\ search[t].search.term = view[t].term
          /\ search[t].search.page \in SearchCalm!Links(view[t])

\* Only one tab at a time shows results or waits for them.
Alone(t) == \A u \in Tabs \ {t} : ~search[u].busy /\ view[u] = SearchCalm!Blank

CalmInv ==
    /\ results \in [Terms -> Nat]
    /\ searchCookie \in Searches /\ Within(searchCookie)
    /\ view \in [Tabs -> Views]
    /\ search \in [Tabs -> [busy : BOOLEAN, search : Searches, link : BOOLEAN]]
    /\ \A t \in Tabs : TabCalm(t)
    /\ \A t \in Tabs : Alone(t) \/ (~search[t].busy /\ view[t] = SearchCalm!Blank)

\* A link leads to a page of the search that is shown, within its results.
LEMMA LinkWithin ==
    ASSUME CalmInv, NEW t \in Tabs, NEW p \in Nat, p \in SearchCalm!Links(view[t])
    PROVE  /\ p # 0 /\ view[t].term = searchCookie.term /\ searchCookie.term \in Terms
           /\ Within([term |-> searchCookie.term, page |-> p])
<1> DEFINE v == view[t]
           n == results[v.term]
<1>1. v # SearchCalm!Blank /\ v \in Views /\ p # 0
  BY DEF SearchCalm!Links, SearchCalm!Blank, CalmInv, Views
<1>2. /\ v.term \in Terms /\ v.term = searchCookie.term /\ v.page = searchCookie.page
      /\ v.pages = SearchCalm!NumberOfPages(n) /\ v.page \in Nat /\ n \in Nat
  BY <1>1 DEF CalmInv, TabCalm, Views
<1>3. CASE p = v.page + 1
  <2>1. p <= SearchCalm!NumberOfPages(n)
    BY <1>2, <1>3 DEF SearchCalm!Links
  <2>2. (p - 1) * PageSize < n
    BY <1>1, <1>2, <2>1, PageBegins
  <2> QED
    BY <1>1, <1>2, <2>2 DEF Within
<1>4. CASE p = v.page - 1 /\ p > 1
  <2>1. (v.page - 1) * PageSize < n
    BY <1>2, <1>4 DEF CalmInv, Within
  <2>2. PageSize * (p - 1) <= PageSize * (v.page - 1)
    BY <1>2, <1>4, TimesGrows, PartsAssumption
  <2>3. /\ PageSize * (p - 1) = (p - 1) * PageSize
        /\ PageSize * (v.page - 1) = (v.page - 1) * PageSize
        /\ (p - 1) * PageSize \in Int /\ (v.page - 1) * PageSize \in Int
    BY <1>2, PartsAssumption
  <2>4. (p - 1) * PageSize < n
    BY <1>2, <2>1, <2>2, <2>3
  <2> QED
    BY <1>1, <1>2, <2>4 DEF Within
<1>5. CASE p <= 1
  BY <1>1, <1>2, <1>5 DEF Within
<1> QED
  BY <1>2, <1>3, <1>4, <1>5 DEF SearchCalm!Links

\* A request begins in a tab that is alone, with a search within the results.
LEMMA CalmBegin ==
    ASSUME CalmInv, NEW t \in Tabs, NEW s \in Searches, NEW link \in BOOLEAN,
           SearchCalm!Begin(t, s, link), UNCHANGED <<searchCookie, results>>,
           s.term # Nothing => Within(s),
           link /\ s.term # Nothing =>
               s.term = view[t].term /\ s.page \in SearchCalm!Links(view[t])
    PROVE  CalmInv'
<1>1. \A u \in Tabs \ {t} : ~search[u].busy /\ view[u] = SearchCalm!Blank
  BY DEF SearchCalm!Begin
<1>2. ~search[t].busy
  BY DEF SearchCalm!Begin
<1>3. CASE s.term = Nothing
  <2>1. view' = [view EXCEPT ![t] = SearchCalm!Blank] /\ UNCHANGED search
    BY <1>3 DEF SearchCalm!Begin
  <2>2. SearchCalm!Blank \in Views
    BY DEF SearchCalm!Blank, Views
  <2>3. view' \in [Tabs -> Views] /\ \A u \in Tabs : view'[u] = SearchCalm!Blank
    BY <1>1, <2>1, <2>2 DEF CalmInv
  <2>4. \A u \in Tabs : ~search'[u].busy
    BY <1>1, <1>2, <2>1
  <2>5. \A u \in Tabs : TabCalm(u)' /\ Alone(u)'
    BY <2>3, <2>4 DEF TabCalm, Alone, SearchCalm!Blank
  <2> QED
    BY <2>1, <2>3, <2>5 DEF CalmInv, Within
<1>4. CASE s.term # Nothing
  <2> DEFINE r == [busy |-> TRUE, search |-> s, link |-> link]
  <2>1. search' = [search EXCEPT ![t] = r] /\ UNCHANGED view
    BY <1>4 DEF SearchCalm!Begin
  <2>2. /\ search' \in [Tabs -> [busy : BOOLEAN, search : Searches, link : BOOLEAN]]
        /\ search'[t] = r
        /\ \A u \in Tabs \ {t} : search'[u] = search[u]
    BY <2>1 DEF CalmInv
  <2>3. s.term \in Terms /\ Within(s)
    BY <1>4 DEF Searches
  <2>4. TabCalm(t)'
    BY <1>4, <2>1, <2>2, <2>3 DEF CalmInv, TabCalm, Within
  <2>5. \A u \in Tabs \ {t} : TabCalm(u)'
    BY <1>1, <2>1, <2>2 DEF TabCalm
  <2>6. \A u \in Tabs : Alone(u)' \/ (~search'[u].busy /\ view'[u] = SearchCalm!Blank)
    <3>1. Alone(t)'
      BY <1>1, <2>1, <2>2 DEF Alone, SearchCalm!Blank
    <3> QED
      BY <1>1, <2>1, <2>2, <3>1
  <2> QED
    BY <2>1, <2>2, <2>4, <2>5, <2>6 DEF CalmInv, Within, SearchCalm!Blank
<1> QED
  BY <1>3, <1>4

\* The answer of a search is remembered and shown, or an error page is.
LEMMA CalmAnswer ==
    ASSUME CalmInv, NEW t \in Tabs, SearchCalm!Answer(t)
    PROVE  CalmInv'
<1> DEFINE s == search[t].search
<1>1. /\ search[t].busy /\ Alone(t) /\ s \in Searches /\ s.term \in Terms /\ Within(s)
      /\ UNCHANGED results /\ results[s.term] \in Nat
  BY DEF SearchCalm!Answer, CalmInv, TabCalm
<1>2. /\ search' = [search EXCEPT ![t] = SearchCalm!Idle]
      /\ SearchCalm!Idle \in [busy : BOOLEAN, search : Searches, link : BOOLEAN]
      /\ ~SearchCalm!Idle.busy
  BY DEF SearchCalm!Answer, SearchCalm!Idle, SearchCalm!NoSearch, Searches
<1>3. /\ search' \in [Tabs -> [busy : BOOLEAN, search : Searches, link : BOOLEAN]]
      /\ \A u \in Tabs : ~search'[u].busy
  BY <1>1, <1>2 DEF CalmInv, Alone
<1>4. searchCookie' \in Searches /\ Within(searchCookie)'
  <2>1. searchCookie' = searchCookie \/ searchCookie' = s
    BY DEF SearchCalm!Answer
  <2> QED
    BY <1>1, <2>1 DEF CalmInv, Within
<1>5. PICK v : /\ view' = [view EXCEPT ![t] = v]
               /\ v \in Views
               /\ \/ v = SearchCalm!Blank
                  \/ /\ searchCookie' = s /\ v.term = s.term /\ v.page = s.page
                     /\ v.pages = SearchCalm!NumberOfPages(results[s.term])
  <2> DEFINE w == [term |-> s.term, page |-> s.page,
                   pages |-> SearchCalm!NumberOfPages(results[s.term])]
  <2>1. SearchCalm!NumberOfPages(results[s.term]) \in Nat
    <3> DEFINE n == results[s.term]
    <3>1. n \div PageSize \in Nat /\ n % PageSize \in Nat
      <4>1. n \in Nat /\ PageSize \in Nat \ {0}
        BY <1>1, PartsAssumption
      <4> HIDE DEF n
      <4> QED
        BY <4>1, Quotient
    <3> HIDE DEF n
    <3>2. n \div PageSize + (IF n % PageSize > 0 THEN 1 ELSE 0) \in Nat
      BY <3>1
    <3> QED
      BY <3>2 DEF SearchCalm!NumberOfPages, n
  <2>2. w \in Views /\ SearchCalm!Blank \in Views
    BY <1>1, <2>1 DEF Views, Searches, SearchCalm!Blank
  <2>3. \/ view' = [view EXCEPT ![t] = w] /\ searchCookie' = s
        \/ view' = [view EXCEPT ![t] = SearchCalm!Blank]
    BY DEF SearchCalm!Answer
  <2> QED
    BY <2>2, <2>3
<1>6. /\ view' \in [Tabs -> Views] /\ view'[t] = v
      /\ \A u \in Tabs \ {t} : view'[u] = SearchCalm!Blank
  BY <1>1, <1>5 DEF CalmInv, Alone
<1>7. \A u \in Tabs : TabCalm(u)'
  <2>1. TabCalm(t)'
    BY <1>1, <1>3, <1>5, <1>6 DEF TabCalm, SearchCalm!Blank, SearchCalm!NumberOfPages
  <2>2. \A u \in Tabs \ {t} : TabCalm(u)'
    BY <1>3, <1>6 DEF TabCalm, SearchCalm!Blank
  <2> QED
    BY <2>1, <2>2
<1>8. \A u \in Tabs : Alone(u)' \/ (~search'[u].busy /\ view'[u] = SearchCalm!Blank)
  BY <1>3, <1>6 DEF Alone, SearchCalm!Blank
<1> QED
  BY <1>1, <1>3, <1>4, <1>6, <1>7, <1>8 DEF CalmInv, SearchCalm!Blank

\* Every request and answer of the shopper with one tab keeps it.
LEMMA CalmStep == CalmInv /\ [SearchCalm!Next]_searchVars => CalmInv'
<1> SUFFICES ASSUME CalmInv, [SearchCalm!Next]_searchVars
             PROVE  CalmInv'
  OBVIOUS
<1>1. ASSUME NEW t \in Tabs, SearchCalm!Get(t)
      PROVE  CalmInv'
  BY <1>1, CalmBegin DEF SearchCalm!Get, CalmInv
<1>2. ASSUME NEW t \in Tabs, NEW q \in Terms \cup {Nothing}, SearchCalm!Post(t, q)
      PROVE  CalmInv'
  <2> DEFINE s == [term |-> q, page |-> 1]
  <2>1. s \in Searches /\ Within(s)
    BY DEF Searches, Within
  <2>2. SearchCalm!Begin(t, s, FALSE) /\ UNCHANGED <<searchCookie, results>>
    BY <1>2 DEF SearchCalm!Post
  <2> HIDE DEF s
  <2> QED
    BY <2>1, <2>2, CalmBegin
<1>3. ASSUME NEW t \in Tabs, NEW p \in SearchCalm!Pages \ {0}, SearchCalm!GetPage(t, p)
      PROVE  CalmInv'
  <2> DEFINE s == [term |-> searchCookie.term, page |-> p]
             link == p \in SearchCalm!Links(view[t])
  <2>1. link /\ p \in Nat
    BY <1>3 DEF SearchCalm!GetPage, SearchCalm!Pages
  <2>2. Within(s) /\ s.term = view[t].term /\ s.page = p
    BY <2>1, LinkWithin
  <2>3. s \in Searches
    BY <2>1 DEF CalmInv, Searches
  <2>4. SearchCalm!Begin(t, s, link) /\ UNCHANGED <<searchCookie, results>>
    BY <1>3 DEF SearchCalm!GetPage
  <2>5. link \in BOOLEAN
    OBVIOUS
  <2>6. s.page \in SearchCalm!Links(view[t])
    BY <2>1
  <2> HIDE DEF s, link
  <2> QED
    BY <2>2, <2>3, <2>4, <2>5, <2>6, CalmBegin
<1>4. ASSUME NEW t \in Tabs, SearchCalm!Answer(t)
      PROVE  CalmInv'
  BY <1>4, CalmAnswer
<1>5. ASSUME NEW q \in Terms, SearchCalm!Catalogue(q)
      PROVE  CalmInv'
  BY <1>5 DEF SearchCalm!Catalogue
<1>6. CASE UNCHANGED searchVars
  BY <1>6 DEF searchVars, CalmInv, TabCalm, Alone, Within, SearchCalm!Links,
              SearchCalm!Blank, SearchCalm!NumberOfPages
<1> QED
  BY <1>1, <1>2, <1>3, <1>4, <1>5, <1>6 DEF SearchCalm!Next

\* Nothing is shown at first.
LEMMA CalmBegins == SearchCalm!Init => CalmInv
<1> SUFFICES ASSUME SearchCalm!Init
             PROVE  CalmInv
  OBVIOUS
<1>1. \A t \in Tabs : /\ search[t] = SearchCalm!Idle /\ ~search[t].busy
                      /\ view[t] = SearchCalm!Blank
  BY DEF SearchCalm!Init, SearchCalm!Idle
<1>2. results \in [Terms -> Nat] /\ searchCookie = SearchCalm!NoSearch
  BY DEF SearchCalm!Init
<1>3. SearchCalm!Idle \in [busy : BOOLEAN, search : Searches, link : BOOLEAN]
  BY DEF SearchCalm!Idle, SearchCalm!NoSearch, Searches
<1>4. SearchCalm!Blank \in Views
  BY DEF SearchCalm!Blank, Views
<1>5. searchCookie \in Searches /\ Within(searchCookie)
  BY <1>2 DEF SearchCalm!NoSearch, Searches, Within
<1>6. /\ view \in [Tabs -> Views]
      /\ search \in [Tabs -> [busy : BOOLEAN, search : Searches, link : BOOLEAN]]
  BY <1>3, <1>4 DEF SearchCalm!Init
<1>7. \A t \in Tabs : TabCalm(t) /\ Alone(t)
  BY <1>1 DEF TabCalm, Alone
<1> QED
  BY <1>2, <1>5, <1>6, <1>7 DEF CalmInv

\* What the tab shows and waits for is of one search, within its results.
LEMMA CalmLinks == CalmInv => LinksStayInSearch
<1> SUFFICES ASSUME CalmInv, NEW t \in Tabs
             PROVE  /\ search[t].busy /\ search[t].link =>
                          /\ search[t].search.term = view[t].term
                          /\ search[t].search.page \in SearchCalm!Links(view[t])
                    /\ view[t].page > 1 =>
                          (view[t].page - 1) * PageSize < results[view[t].term]
  BY DEF LinksStayInSearch, SearchCalm!LinksStayInSearch
<1>1. TabCalm(t)
  BY DEF CalmInv
<1>2. CASE view[t] = SearchCalm!Blank
  BY <1>1, <1>2 DEF TabCalm, SearchCalm!Blank
<1>3. CASE view[t] # SearchCalm!Blank
  BY <1>1, <1>3 DEF TabCalm, CalmInv, Within
<1> QED
  BY <1>2, <1>3

\* With results in one tab at a time over a catalogue that does not change, a
\* link leads to a page of the search that the tab shows, within its results
\* (product.go renderProductSearch).
THEOREM SearchLinksStay == SearchCalm!Spec => []LinksStayInSearch
<1>1. CalmInv /\ [SearchCalm!Next]_SearchCalm!vars => CalmInv'
  BY CalmStep DEF SearchCalm!vars, searchVars
<1> QED
  BY CalmBegins, CalmLinks, <1>1, PTL DEF SearchCalm!Spec

-----------------------------------------------------------------------------
(* ProductSearch: the kinds of its values, for both shoppers. *)

\* What both shoppers do in a tab; the bound on the results of a term, in which the
\* instances differ, is the larger one.
Asks(t) ==
    \/ SearchRace!Get(t) \/ SearchRace!Answer(t)
    \/ \E p \in SearchCalm!Pages \ {0} : SearchRace!GetPage(t, p)
    \/ \E q \in Terms \cup {Nothing} : SearchRace!Post(t, q)

\* With more results there are more pages.
LEMMA MorePages ==
    ASSUME NEW m \in Nat, NEW n \in Nat, m <= n
    PROVE  /\ (m + PageSize - 1) \div PageSize \in Nat
           /\ (m + PageSize - 1) \div PageSize <= (n + PageSize - 1) \div PageSize
           /\ SearchCalm!NumberOfPages(m) \in Nat
           /\ SearchCalm!NumberOfPages(m) <= (n + PageSize - 1) \div PageSize
<1> DEFINE k(x) == x + PageSize - 1
           up(x) == k(x) \div PageSize
           q == m \div PageSize
           r == m % PageSize
<1>1. PageSize \in Nat \ {0}
  BY PartsAssumption
<1>2. ASSUME NEW x \in Nat
      PROVE  /\ k(x) \in Nat /\ up(x) \in Nat
             /\ k(x) % PageSize \in 0 .. PageSize - 1
             /\ k(x) = PageSize * up(x) + (k(x) % PageSize)
  <2>1. k(x) \in Nat
    BY <1>1
  <2> HIDE DEF k
  <2> QED
    BY <1>1, <2>1, Quotient
<1>3. q \in Nat /\ r \in 0 .. PageSize - 1 /\ m = PageSize * q + r
  BY <1>1, Quotient
\* p pages are not more than those of n if all but the last are within n.
<1>4. ASSUME NEW p \in Nat, PageSize * p <= k(n)
      PROVE  p <= up(n)
  <2>1. p >= up(n) + 1 => PageSize * p >= PageSize * up(n) + PageSize
    BY <1>1, <1>2, TimesGrows, PageSize * (up(n) + 1) = PageSize * up(n) + PageSize
  <2>2. /\ k(n) \in Nat /\ up(n) \in Nat /\ k(n) % PageSize \in 0 .. PageSize - 1
        /\ k(n) = PageSize * up(n) + (k(n) % PageSize)
    BY <1>2
  <2> HIDE DEF k, up
  <2> QED
    BY <1>1, <1>4, <2>1, <2>2
<1>5. up(m) <= up(n)
  <2>1. /\ k(m) \in Nat /\ up(m) \in Nat /\ k(m) % PageSize \in 0 .. PageSize - 1
        /\ k(m) = PageSize * up(m) + (k(m) % PageSize)
    BY <1>2
  <2>2. k(m) <= k(n) /\ k(n) \in Nat
    BY <1>1
  <2> HIDE DEF k, up
  <2>3. PageSize * up(m) <= k(n)
    BY <1>1, <2>1, <2>2
  <2> QED
    BY <1>4, <2>1, <2>3
<1>6. q + (IF r > 0 THEN 1 ELSE 0) \in Nat /\ q + (IF r > 0 THEN 1 ELSE 0) <= up(n)
  <2> DEFINE p == q + (IF r > 0 THEN 1 ELSE 0)
  <2> HIDE DEF q, r
  <2>1. p \in Nat
    BY <1>3
  <2>2. PageSize * p = PageSize * q + (IF r > 0 THEN PageSize ELSE 0)
    BY <1>1, <1>3
  <2>3. PageSize * p <= n + PageSize - 1
    BY <1>1, <1>3, <2>2
  <2> QED
    BY <1>4, <2>1, <2>3
<1> QED
  BY <1>2, <1>5, <1>6 DEF SearchCalm!NumberOfPages

\* The pages of the smaller bound are among those of the larger one.
LEMMA PagesOfBoth ==
    /\ SearchCalm!LastPage \in Nat
    /\ SearchRace!Pages \subseteq SearchCalm!Pages
    /\ 0 \in SearchCalm!Pages /\ 1 \in SearchCalm!Pages
<1>1. MaxRaceTotal \in Nat /\ MaxTotal \in Nat /\ MaxRaceTotal <= MaxTotal
  BY PartsAssumption
<1>2. /\ SearchRace!LastPage \in Nat /\ SearchCalm!LastPage \in Nat
      /\ SearchRace!LastPage <= SearchCalm!LastPage
  BY <1>1, MorePages DEF SearchRace!LastPage, SearchCalm!LastPage
<1> QED
  BY <1>2 DEF SearchRace!Pages, SearchCalm!Pages

\* A step of either shopper is made in a tab, or the catalogue changes.
LEMMA EitherAsks ==
    ASSUME SearchCalm!TypeOK, [SearchRace!Next]_searchVars \/ [SearchCalm!Next]_searchVars
    PROVE  \/ \E t \in Tabs : Asks(t)
           \/ /\ results' \in [Terms -> 0 .. MaxTotal]
              /\ UNCHANGED <<searchCookie, view, search>>
<1>1. results \in [Terms -> 0 .. MaxTotal]
  BY DEF SearchCalm!TypeOK
<1>2. CASE SearchRace!Next
  <2>1. ASSUME NEW q \in Terms, SearchRace!Catalogue(q)
        PROVE  /\ results' \in [Terms -> 0 .. MaxTotal]
               /\ UNCHANGED <<searchCookie, view, search>>
    <3>1. PICK n \in 0 .. MaxRaceTotal : results' = [results EXCEPT ![q] = n]
      BY <2>1 DEF SearchRace!Catalogue
    <3>2. n \in 0 .. MaxTotal
      BY PartsAssumption
    <3> QED
      BY <1>1, <2>1, <3>1, <3>2 DEF SearchRace!Catalogue
  <2> QED
    BY <1>2, <2>1, PagesOfBoth DEF SearchRace!Next, Asks
<1>3. CASE SearchCalm!Next
  <2>1. ASSUME NEW t \in Tabs, NEW s, NEW link, SearchCalm!Begin(t, s, link)
        PROVE  SearchRace!Begin(t, s, link)
    BY <2>1 DEF SearchCalm!Begin, SearchRace!Begin, SearchCalm!Blank, SearchRace!Blank
  <2>2. ASSUME NEW t \in Tabs
        PROVE  /\ SearchCalm!Get(t) => SearchRace!Get(t)
               /\ SearchCalm!Answer(t) => SearchRace!Answer(t)
    BY <2>1 DEF SearchCalm!Get, SearchRace!Get, SearchCalm!Answer, SearchRace!Answer,
                SearchCalm!Blank, SearchRace!Blank, SearchCalm!Idle, SearchRace!Idle,
                SearchCalm!NoSearch, SearchRace!NoSearch, SearchCalm!NumberOfPages,
                SearchRace!NumberOfPages
  <2>3. ASSUME NEW t \in Tabs, NEW p, SearchCalm!GetPage(t, p)
        PROVE  SearchRace!GetPage(t, p)
    BY <2>1, <2>3 DEF SearchCalm!GetPage, SearchRace!GetPage, SearchCalm!Links,
                      SearchRace!Links
  <2>4. ASSUME NEW t \in Tabs, NEW q, SearchCalm!Post(t, q)
        PROVE  SearchRace!Post(t, q)
    BY <2>1, <2>4 DEF SearchCalm!Post, SearchRace!Post
  <2>5. ASSUME NEW q \in Terms, SearchCalm!Catalogue(q)
        PROVE  FALSE
    BY <2>5 DEF SearchCalm!Catalogue
  <2> QED
    BY <1>3, <2>2, <2>3, <2>4, <2>5 DEF SearchCalm!Next, Asks
<1>4. CASE UNCHANGED searchVars
  BY <1>1, <1>4 DEF searchVars
<1> QED
  BY <1>2, <1>3, <1>4

\* A request begins with a search.
LEMMA BeginTyped ==
    ASSUME SearchCalm!TypeOK, NEW t \in Tabs, NEW s \in SearchCalm!Search,
           NEW link \in BOOLEAN, SearchRace!Begin(t, s, link),
           UNCHANGED <<searchCookie, results>>
    PROVE  SearchCalm!TypeOK'
<1>1. SearchRace!Blank \in SearchCalm!View
  BY PagesOfBoth DEF SearchRace!Blank, SearchCalm!View
<1>2. [busy |-> TRUE, search |-> s, link |-> link] \in SearchCalm!Request
  BY DEF SearchCalm!Request
<1> QED
  BY <1>1, <1>2 DEF SearchRace!Begin, SearchCalm!TypeOK

\* Both shoppers keep the kinds of the values, and what RaceInv says.
LEMMA SearchTypeStep ==
    /\ SearchCalm!TypeOK
    /\ RaceInv
    /\ [SearchRace!Next]_searchVars \/ [SearchCalm!Next]_searchVars
    => SearchCalm!TypeOK' /\ RaceInv'
<1> SUFFICES ASSUME SearchCalm!TypeOK, RaceInv,
                    [SearchRace!Next]_searchVars \/ [SearchCalm!Next]_searchVars
             PROVE  SearchCalm!TypeOK' /\ RaceInv'
  OBVIOUS
<1>1. ASSUME NEW t \in Tabs, SearchRace!Get(t)
      PROVE  SearchCalm!TypeOK' /\ RaceInv'
  BY <1>1, BeginTyped, RaceGet DEF SearchRace!Get, SearchCalm!TypeOK
<1>2. ASSUME NEW t \in Tabs, NEW q \in Terms \cup {Nothing}, SearchRace!Post(t, q)
      PROVE  SearchCalm!TypeOK' /\ RaceInv'
  <2> DEFINE s == [term |-> q, page |-> 1]
  <2>1. s \in SearchCalm!Search
    BY PagesOfBoth DEF SearchCalm!Search
  <2>2. SearchRace!Begin(t, s, FALSE) /\ UNCHANGED <<searchCookie, results>>
    BY <1>2 DEF SearchRace!Post
  <2> HIDE DEF s
  <2> QED
    BY <1>2, <2>1, <2>2, BeginTyped, RacePost
<1>3. ASSUME NEW t \in Tabs, NEW p \in SearchCalm!Pages \ {0}, SearchRace!GetPage(t, p)
      PROVE  SearchCalm!TypeOK' /\ RaceInv'
  <2> DEFINE s == [term |-> searchCookie.term, page |-> p]
             link == p \in SearchRace!Links(view[t])
  <2>1. s \in SearchCalm!Search
    BY DEF SearchCalm!Search, SearchCalm!TypeOK
  <2>2. SearchRace!Begin(t, s, link) /\ UNCHANGED <<searchCookie, results>>
    BY <1>3 DEF SearchRace!GetPage
  <2>3. link \in BOOLEAN
    OBVIOUS
  <2> HIDE DEF s, link
  <2> QED
    BY <1>3, <2>1, <2>2, <2>3, BeginTyped, RaceGetPage
<1>4. ASSUME NEW t \in Tabs, SearchRace!Answer(t)
      PROVE  SearchCalm!TypeOK' /\ RaceInv'
  <2> DEFINE s == search[t].search
             w == [term |-> s.term, page |-> s.page,
                   pages |-> SearchRace!NumberOfPages(results[s.term])]
  <2>1. s \in SearchCalm!Search /\ s.term \in Terms
    BY <1>4 DEF SearchCalm!TypeOK, SearchCalm!Request, SearchCalm!Search,
                SearchRace!Answer, RaceInv
  <2>2. results[s.term] \in 0 .. MaxTotal
    BY <2>1 DEF SearchCalm!TypeOK
  <2>3. SearchCalm!NumberOfPages(results[s.term]) \in 0 .. SearchCalm!LastPage
    <3> DEFINE n == results[s.term]
    <3>1. n \in Nat /\ MaxTotal \in Nat /\ n <= MaxTotal
      BY <2>2, PartsAssumption
    <3> HIDE DEF n
    <3>2. /\ SearchCalm!NumberOfPages(n) \in Nat
          /\ SearchCalm!NumberOfPages(n) <= SearchCalm!LastPage
      BY <3>1, MorePages DEF SearchCalm!LastPage
    <3> QED
      BY <3>2, PagesOfBoth DEF n
  <2>4. w \in SearchCalm!View /\ SearchRace!Blank \in SearchCalm!View
    <3>1. SearchRace!NumberOfPages(results[s.term]) \in 0 .. SearchCalm!LastPage
      BY <2>3 DEF SearchRace!NumberOfPages, SearchCalm!NumberOfPages
    <3> QED
      BY <2>1, <3>1, PagesOfBoth
         DEF SearchCalm!View, SearchCalm!Search, SearchRace!Blank
  <2>5. SearchRace!Idle \in SearchCalm!Request
    BY PagesOfBoth DEF SearchRace!Idle, SearchRace!NoSearch, SearchCalm!Request,
                       SearchCalm!Search
  <2>6. /\ view' = [view EXCEPT ![t] = w] \/ view' = [view EXCEPT ![t] = SearchRace!Blank]
        /\ searchCookie' \in {searchCookie, s}
        /\ search' = [search EXCEPT ![t] = SearchRace!Idle]
        /\ UNCHANGED results
    BY <1>4 DEF SearchRace!Answer
  <2> HIDE DEF w
  <2>7. SearchCalm!TypeOK'
    BY <2>1, <2>4, <2>5, <2>6 DEF SearchCalm!TypeOK
  <2> QED
    BY <1>4, <2>7, RaceAnswer
<1>5. CASE /\ results' \in [Terms -> 0 .. MaxTotal]
           /\ UNCHANGED <<searchCookie, view, search>>
  BY <1>5 DEF SearchCalm!TypeOK, RaceInv
<1> QED
  BY <1>1, <1>2, <1>3, <1>4, <1>5, EitherAsks DEF Asks

-----------------------------------------------------------------------------
(* Session, in one tab: MCParts' instance of it does what SessionProofs is  *)
(* about, so its theorems hold of that instance too.                        *)

Sessions == INSTANCE SessionProofs WITH Tabs <- OneTab

\* A request takes the same step in both instances.
LEMMA SameStep ==
    ASSUME NEW t \in OneTab, OneTabSession!Step(t)
    PROVE  Sessions!Step(t)
<1> USE DEF OneTabSession!backend, Sessions!backend, OneTabSession!clock,
           Sessions!clock, OneTabSession!history, Sessions!history,
           OneTabSession!Sids, Sessions!Sids, OneTabSession!NoSid,
           Sessions!NoSid, OneTabSession!NoRecord, Sessions!NoRecord,
           OneTabSession!BlankCookie, Sessions!BlankCookie, OneTabSession!Idle,
           Sessions!Idle, OneTabSession!Live, Sessions!Live, OneTabSession!At,
           Sessions!At, OneTabSession!Goto, Sessions!Goto, OneTabSession!Answer,
           Sessions!Answer
<1>1. OneTabSession!Load(t) => Sessions!Load(t)
  BY DEF OneTabSession!Load, Sessions!Load, OneTabSession!NeedsRefresh,
         Sessions!NeedsRefresh, OneTabSession!Unauthenticated,
         Sessions!Unauthenticated
<1>2. OneTabSession!Refresh(t) => Sessions!Refresh(t)
  BY DEF OneTabSession!Refresh, Sessions!Refresh
<1>3. OneTabSession!SaveToken(t) => Sessions!SaveToken(t)
  BY DEF OneTabSession!SaveToken, Sessions!SaveToken
<1>4. OneTabSession!Reject(t) => Sessions!Reject(t)
  BY DEF OneTabSession!Reject, Sessions!Reject, OneTabSession!Unauthenticated,
         Sessions!Unauthenticated
<1>5. OneTabSession!FindUser(t) => Sessions!FindUser(t)
  BY DEF OneTabSession!FindUser, Sessions!FindUser, OneTabSession!Authenticated,
         Sessions!Authenticated, OneTabSession!Unauthenticated,
         Sessions!Unauthenticated
<1>6. OneTabSession!Login(t) => Sessions!Login(t)
  BY DEF OneTabSession!Login, Sessions!Login
<1>7. OneTabSession!HasAddresses(t) => Sessions!HasAddresses(t)
  BY DEF OneTabSession!HasAddresses, Sessions!HasAddresses
<1>8. OneTabSession!CreateSession(t) => Sessions!CreateSession(t)
  BY DEF OneTabSession!CreateSession, Sessions!CreateSession,
         OneTabSession!FreshSid, Sessions!FreshSid
<1>9. OneTabSession!FindBasket(t) => Sessions!FindBasket(t)
  BY DEF OneTabSession!FindBasket, Sessions!FindBasket
<1>10. OneTabSession!Logout(t) => Sessions!Logout(t)
  BY DEF OneTabSession!Logout, Sessions!Logout
<1>11. OneTabSession!Reload(t) => Sessions!Reload(t)
  BY DEF OneTabSession!Reload, Sessions!Reload, OneTabSession!FormOf,
         Sessions!FormOf, OneTabSession!FirstCall, Sessions!FirstCall
<1>12. OneTabSession!UpdateProfile(t) => Sessions!UpdateProfile(t)
  BY DEF OneTabSession!UpdateProfile, Sessions!UpdateProfile
<1>13. OneTabSession!SaveProfile(t) => Sessions!SaveProfile(t)
  BY DEF OneTabSession!SaveProfile, Sessions!SaveProfile
<1>14. OneTabSession!CreateBasket(t) => Sessions!CreateBasket(t)
  BY DEF OneTabSession!CreateBasket, Sessions!CreateBasket
<1>15. OneTabSession!InsertAddress(t) => Sessions!InsertAddress(t)
  BY DEF OneTabSession!InsertAddress, Sessions!InsertAddress,
         OneTabSession!AfterInsert, Sessions!AfterInsert
<1>16. OneTabSession!SaveAddress(t) => Sessions!SaveAddress(t)
  BY DEF OneTabSession!SaveAddress, Sessions!SaveAddress
<1>17. OneTabSession!Respond(t) => Sessions!Respond(t)
  BY DEF OneTabSession!Respond, Sessions!Respond
<1> QED
  BY <1>1, <1>2, <1>3, <1>4, <1>5, <1>6, <1>7, <1>8, <1>9, <1>10, <1>11, <1>12,
     <1>13, <1>14, <1>15, <1>16, <1>17
     DEF OneTabSession!Step, Sessions!Step

\* ... and so does everything else.
LEMMA SameNext == [OneTabSession!Next]_sessionVars => [Sessions!Next]_sessionVars
<1> USE DEF OneTabSession!backend, Sessions!backend, OneTabSession!clock,
           Sessions!clock, OneTabSession!history, Sessions!history,
           OneTabSession!Sids, Sessions!Sids, OneTabSession!NoSid,
           Sessions!NoSid, OneTabSession!NoRecord, Sessions!NoRecord,
           OneTabSession!BlankCookie, Sessions!BlankCookie, OneTabSession!Idle,
           Sessions!Idle, OneTabSession!Live, Sessions!Live, OneTabSession!At,
           Sessions!At
<1>1. ASSUME NEW t \in OneTab, NEW k \in Kinds, OneTabSession!Send(t, k)
      PROVE  Sessions!Send(t, k)
  BY <1>1 DEF OneTabSession!Send, Sessions!Send
<1>2. OneTabSession!Age => Sessions!Age
  BY DEF OneTabSession!Age, Sessions!Age
<1>3. ASSUME NEW s \in OneTabSession!Sids,
             OneTabSession!Expire(s) \/ OneTabSession!Revoke(s)
      PROVE  Sessions!Expire(s) \/ Sessions!Revoke(s)
  BY <1>3 DEF OneTabSession!Expire, Sessions!Expire, OneTabSession!Revoke,
              Sessions!Revoke
<1> QED
  BY <1>1, <1>2, <1>3, SameStep DEF OneTabSession!Next, Sessions!Next

\* The instance begins as SessionProofs says.
LEMMA SameInit == OneTabSession!Init => Sessions!Init
BY DEF OneTabSession!Init, Sessions!Init, OneTabSession!BlankCookie,
       Sessions!BlankCookie, OneTabSession!NoRecord, Sessions!NoRecord,
       OneTabSession!Idle, Sessions!Idle, OneTabSession!Sids, Sessions!Sids,
       OneTabSession!NoSid, Sessions!NoSid

\* Every step of the instance keeps the invariant of SessionProofs.
LEMMA SessionStep ==
    Sessions!SessionInv /\ [OneTabSession!Next]_sessionVars => Sessions!SessionInv'
BY SameNext, PartsAssumption, Sessions!NextInv DEF Sessions!vars, sessionVars

\* With one request at a time every step keeps the records too.
LEMMA SessionOneTabStep ==
    ASSUME \A t, u \in OneTab : t = u
    PROVE  Sessions!SessionInv /\ Sessions!OneTabInv /\ [OneTabSession!Next]_sessionVars
           => Sessions!OneTabInv' /\ [Sessions!RecordsKept]_OneTabSession!vars
<1> USE DEF OneTabSession!vars, Sessions!vars, sessionVars
<1>1. Sessions!OneTab
  BY DEF Sessions!OneTab
<1>2. ASSUME Sessions!SessionInv, Sessions!OneTabInv, Sessions!Next
      PROVE  Sessions!OneTabInv' /\ Sessions!RecordsKept
  BY <1>1, <1>2, PartsAssumption, Sessions!NextOneTab
<1>3. ASSUME Sessions!SessionInv, Sessions!OneTabInv, UNCHANGED sessionVars
      PROVE  Sessions!OneTabInv'
  BY <1>3, PartsAssumption, Sessions!StutterOneTab
<1> QED
  BY <1>2, <1>3, SameNext

\* With one request at a time the invariants of SessionProofs hold, and every step
\* keeps the records.
LEMMA OneTabSessionKept ==
    ASSUME \A t, u \in OneTab : t = u
    PROVE  OneTabSession!Spec =>
             /\ [](Sessions!SessionInv /\ Sessions!OneTabInv)
             /\ [][Sessions!RecordsKept]_OneTabSession!vars
<1>1. OneTabSession!Init => Sessions!SessionInv /\ Sessions!OneTabInv
  BY SameInit, PartsAssumption, Sessions!InitInv, Sessions!InitOneTab
<1>2. Sessions!SessionInv /\ [OneTabSession!Next]_OneTabSession!vars
         => Sessions!SessionInv'
  BY SessionStep DEF OneTabSession!vars, sessionVars
<1>3. Sessions!SessionInv /\ Sessions!OneTabInv /\ [OneTabSession!Next]_OneTabSession!vars
         => Sessions!OneTabInv' /\ [Sessions!RecordsKept]_OneTabSession!vars
  BY SessionOneTabStep DEF OneTabSession!vars, sessionVars
<1> QED
  BY <1>1, <1>2, <1>3, PTL DEF OneTabSession!Spec

\* What has ended has no record.
LEMMA SessionStaysEnded == Sessions!SessionInv /\ Sessions!OneTabInv => EndedStaysEnded
BY DEF Sessions!OneTabInv, Sessions!StoreOK, Sessions!SessionInv, Sessions!TypeOK,
       EndedStaysEnded, OneTabSession!EndedStaysEnded, Sessions!Live,
       OneTabSession!Live, Sessions!NoRecord, OneTabSession!NoRecord,
       Sessions!Sids, OneTabSession!Sids

\* With one request at a time, a session that a logout or a rejected refresh has
\* removed from Redis stays removed (home.go logout, session.go).
THEOREM OneTabSessionStaysEnded ==
    ASSUME \A t, u \in OneTab : t = u
    PROVE  OneTabSession!Spec => []EndedStaysEnded
BY SessionStaysEnded, OneTabSessionKept, PTL

\* No step exchanges a token that is not due, or for an older one.
LEMMA SessionTokenWhenDue ==
    [Sessions!RecordsKept]_OneTabSession!vars
    => [\A s \in OneTabSession!Sids :
          OneTabSession!Live(s) /\ OneTabSession!Live(s)'
             /\ store'[s].tok # store[s].tok =>
             store[s].tok <= aged /\ store'[s].tok > store[s].tok
      ]_OneTabSession!vars
BY DEF Sessions!RecordsKept, Sessions!MayBecome, Sessions!Live, OneTabSession!Live,
       Sessions!NoRecord, OneTabSession!NoRecord, Sessions!Sids, OneTabSession!Sids

\* ... its token is exchanged only when it is close to expiry, and never for an
\* older one (session.go refreshIfNeeded).
THEOREM OneTabSessionTokenWhenDue ==
    ASSUME \A t, u \in OneTab : t = u
    PROVE  OneTabSession!Spec => TokenReplacedWhenDue
BY SessionTokenWhenDue, OneTabSessionKept, PTL
   DEF TokenReplacedWhenDue, OneTabSession!TokenReplacedWhenDue

\* No step takes away what a record says of the onboarding.
LEMMA SessionOnboardingKept ==
    [Sessions!RecordsKept]_OneTabSession!vars
    => [\A s \in OneTabSession!Sids :
          OneTabSession!Live(s) /\ OneTabSession!Live(s)' =>
             /\ store[s].dni => store'[s].dni
             /\ store[s].addr => store'[s].addr]_OneTabSession!vars
BY DEF Sessions!RecordsKept, Sessions!MayBecome, Sessions!Live, OneTabSession!Live,
       Sessions!NoRecord, OneTabSession!NoRecord, Sessions!Sids, OneTabSession!Sids

\* ... and no Save of the record takes away what the wizard has written into it
\* (user.go, address.go, session.go).
THEOREM OneTabSessionOnboardingKept ==
    ASSUME \A t, u \in OneTab : t = u
    PROVE  OneTabSession!Spec => OnboardingKept
BY SessionOnboardingKept, OneTabSessionKept, PTL
   DEF OnboardingKept, OneTabSession!OnboardingKept

-----------------------------------------------------------------------------
(* The parts side by side. *)

\* A step of the whole is, for each part, a step of its own or none; a behaviour
\* stays with the shopper it began with.
LEMMA PartsSteps ==
    ASSUME [PartsNext]_allVars
    PROVE  /\ part' = part
           /\ [Next]_vars
           /\ [AddressRace!Next]_addressVars
           /\ part = "addressPatient" => [AddressPatient!Next]_addressVars
           /\ [CartRace!Next]_cartVars
           /\ part = "cartPatient" => [CartPatient!Next]_cartVars
           /\ [Orders!Next]_ordersVars
           /\ [Theme!Next]_themeVars
           /\ [SearchRace!Next]_searchVars \/ [SearchCalm!Next]_searchVars
           /\ part = "searchCalm" => [SearchCalm!Next]_searchVars
           /\ [WebServer!Next]_serverVars
           /\ [OneTabSession!Next]_sessionVars
<1> USE PatientChoosesToo, PatientIsRace DEF Only
<1>1. CASE Only({"amounts"}) /\ Next
  BY <1>1
<1>2. CASE Only(Address) /\ part = "addressRace" /\ AddressRace!Next
  BY <1>2 DEF Address
<1>3. CASE Only(Address) /\ part = "addressPatient" /\ AddressPatient!Next
  BY <1>3 DEF Address
<1>4. CASE Only(Cart) /\ part = "cartRace" /\ CartRace!Next
  BY <1>4 DEF Cart
<1>5. CASE Only(Cart) /\ part = "cartPatient" /\ CartPatient!Next
  BY <1>5 DEF Cart
<1>6. CASE Only({"orders"}) /\ Orders!Next
  BY <1>6
<1>7. CASE Only({"theme"}) /\ Theme!Next
  BY <1>7
<1>8. CASE Only(Searching) /\ part = "searchRace" /\ SearchRace!Next
  BY <1>8 DEF Searching
<1>9. CASE Only(Searching) /\ part = "searchCalm" /\ SearchCalm!Next
  BY <1>9 DEF Searching
<1>10. CASE Only({"server"}) /\ WebServer!Next
  BY <1>10
<1>11. CASE Only({"session"}) /\ OneTabSession!Next
  BY <1>11
<1>12. CASE UNCHANGED allVars
  BY <1>12 DEF allVars, vars
<1> QED
  BY <1>1, <1>2, <1>3, <1>4, <1>5, <1>6, <1>7, <1>8, <1>9, <1>10, <1>11, <1>12
     DEF PartsNext

\* The invariants of the parts; those of the patient shoppers where they act.
AddressInv ==
    /\ AddressRace!TypeOK /\ ButtonInv
    /\ part = "addressPatient" => PatientInv

CartsInv ==
    /\ CartRace!TypeOK /\ CartInv
    /\ part = "cartPatient" => SettledInv

SearchInv ==
    /\ SearchCalm!TypeOK /\ RaceInv
    /\ part = "searchCalm" => CalmInv

PartsInv ==
    /\ FieldsRounded
    /\ AddressInv
    /\ CartsInv
    /\ Orders!TypeOK /\ OrdersInv
    /\ ThemeInv
    /\ SearchInv
    /\ WebServer!TypeOK /\ ServerInv
    /\ Sessions!SessionInv

\* They hold at first.
LEMMA PartsBegin == PartsInit => PartsInv
<1> SUFFICES ASSUME PartsInit
             PROVE  PartsInv
  OBVIOUS
<1>1. FieldsRounded
  BY DEF PartsInit, Init, FieldsRounded, None
<1>2. AddressInv
  <2>1. AddressRace!Init
    BY DEF PartsInit
  <2>2. /\ DOMAIN calls = {} /\ pageCookie \in AddressRace!Cookie
        /\ pageCookie \in AddressPatient!Cookie /\ loads \in 0 .. MaxLoads
    <3>1. loads \in 0 .. MaxLoads
      BY <2>1, PartsAssumption DEF AddressRace!Init
    <3> QED
      BY <2>1, <3>1 DEF AddressRace!Init, AddressRace!Cookie, AddressPatient!Cookie
  <2>3. AddressRace!TypeOK
    BY <2>1, <2>2 DEF AddressRace!Init, AddressRace!TypeOK, AddressRace!Busy
  <2>4. ButtonInv /\ PatientInv
    BY <2>1, <2>2 DEF AddressRace!Init, ButtonInv, PatientInv
  <2> QED
    BY <2>3, <2>4 DEF AddressInv
<1>3. CartsInv
  <2>1. CartRace!TypeOK
    <3>1. CartRace!Init
      BY DEF PartsInit
    <3>2. cart \in [Items -> Nat] /\ DOMAIN posts = {}
      BY <3>1 DEF CartRace!Init
    <3>3. clicks \in 0 .. MaxClicks
      BY <3>1, PartsAssumption DEF CartRace!Init
    <3>4. late \in [CartRace!BasketCalls -> 0 .. MaxLate] /\ reasons \subseteq CartRace!Reasons
      BY <3>1, PartsAssumption DEF CartRace!Init
    <3> QED
      BY <3>1, <3>2, <3>3, <3>4 DEF CartRace!Init, CartRace!TypeOK, CartRace!Busy
  <2>2. CartInv /\ SettledInv
    BY DEF PartsInit, CartRace!Init, CartInv, SettledInv
  <2> QED
    BY <2>1, <2>2 DEF CartsInv
<1>4. Orders!TypeOK /\ OrdersInv
  BY OrdersBegin, PartsAssumption DEF PartsInit, Orders!Init, Orders!TypeOK, OrdersInv
<1>5. ThemeInv
  BY DEF PartsInit, Theme!Init, ThemeInv, Theme!TypeOK, Theme!Tab, Theme!Looks
<1>6. SearchInv
  <2>1. SearchCalm!Init
    BY DEF PartsInit
  <2>2. SearchCalm!TypeOK
    BY <2>1, PagesOfBoth
       DEF SearchCalm!Init, SearchCalm!TypeOK, SearchCalm!NoSearch, SearchCalm!Idle,
           SearchCalm!Blank, SearchCalm!Search, SearchCalm!View, SearchCalm!Request
  <2>3. RaceInv
    BY <2>1 DEF SearchCalm!Init, SearchCalm!NoSearch, SearchCalm!Idle, RaceInv
  <2> QED
    BY <2>1, <2>2, <2>3, CalmBegins DEF SearchInv
<1>7. WebServer!TypeOK /\ ServerInv
  BY DEF PartsInit, WebServer!Init, WebServer!TypeOK, ServerInv
<1>8. Sessions!SessionInv
  BY SameInit, PartsAssumption, Sessions!InitInv DEF PartsInit
<1> QED
  BY <1>1, <1>2, <1>3, <1>4, <1>5, <1>6, <1>7, <1>8 DEF PartsInv

\* ... and every step keeps them.
LEMMA PartsStep == PartsInv /\ [PartsNext]_allVars => PartsInv'
<1> SUFFICES ASSUME PartsInv, [PartsNext]_allVars
             PROVE  PartsInv'
  OBVIOUS
<1>1. FieldsRounded'
  BY PartsSteps, FieldsStep DEF PartsInv
<1>2. AddressInv'
  BY PartsSteps, AddressTypeStep, ButtonStep, PatientStep DEF PartsInv, AddressInv
<1>3. CartsInv'
  BY PartsSteps, CartTypeStep, CartStep, SettledStep DEF PartsInv, CartsInv
<1>4. Orders!TypeOK' /\ OrdersInv'
  BY PartsSteps, OrdersTypeStep, OrdersStep DEF PartsInv
<1>5. ThemeInv'
  BY PartsSteps, ThemeStep DEF PartsInv
<1>6. SearchInv'
  BY PartsSteps, SearchTypeStep, CalmStep DEF PartsInv, SearchInv
<1>7. WebServer!TypeOK' /\ ServerInv'
  BY PartsSteps, ServerTypeStep, ServerStep DEF PartsInv
<1>8. Sessions!SessionInv'
  BY PartsSteps, SessionStep DEF PartsInv
<1> QED
  BY <1>1, <1>2, <1>3, <1>4, <1>5, <1>6, <1>7, <1>8 DEF PartsInv

\* In every behaviour of the parts, whichever is explored, their invariants hold.
THEOREM PartsInvariant == PartsSpec => []PartsInv
BY PartsBegin, PartsStep, PTL DEF PartsSpec

\* Every variable of every part keeps its type.
THEOREM PartsTypes == PartsSpec => []TypeOK
<1>1. Sessions!TypeOK => OneTabSession!TypeOK
  BY DEF Sessions!TypeOK, OneTabSession!TypeOK, Sessions!Sids, OneTabSession!Sids,
         Sessions!Cookie, OneTabSession!Cookie, Sessions!Record, OneTabSession!Record,
         Sessions!Request, OneTabSession!Request, Sessions!NoSid, OneTabSession!NoSid,
         Sessions!Labels, OneTabSession!Labels
<1>2. PartsInv => TypeOK
  BY <1>1 DEF PartsInv, AddressInv, CartsInv, ThemeInv, SearchInv, Sessions!SessionInv,
              TypeOK
<1> QED
  BY <1>2, PartsInvariant, PTL

\* What the pages guarantee of the checkout, the basket, the pager and the theme,
\* holds in every state that the parts reach (checkout-payphone.js,
\* buttons-operations.js, theme.js, config.js).
THEOREM PartsPages ==
    PartsSpec => [](/\ OneButtonAfterRecord
                    /\ ShipsToOffered /\ PaysRecorded
                    /\ WrongForAReason /\ ShownUnlessFailedOrLate
                    /\ ShowsAPage /\ NoPageCutOff /\ CounterIsPage
                    /\ ShowsTheChoice)
<1>1. AddressInv => OneButtonAfterRecord /\ ShipsToOffered /\ PaysRecorded
  BY DEF AddressInv, ButtonInv, PatientInv, OneButtonAfterRecord, ShipsToOffered,
         PaysRecorded, AddressRace!OneButtonAfterRecord,
         AddressPatient!ShipsToOffered, AddressPatient!PaysRecorded
<1>2. CartsInv => WrongForAReason /\ ShownUnlessFailedOrLate
  BY DEF CartsInv, CartInv, SettledInv, WrongForAReason, ShownUnlessFailedOrLate,
         CartRace!WrongForAReason, CartRace!Settled, CartRace!Busy,
         CartPatient!ShownUnlessFailedOrLate, CartPatient!Settled, CartPatient!Busy
<1>3. OrdersInv => ShowsAPage /\ NoPageCutOff /\ CounterIsPage
  BY OfPage, ReachesAll, CountsRight DEF OrdersInv, ShowsAPage, Orders!ShowsAPage
<1>4. ThemeInv => ShowsTheChoice
  BY DEF ThemeInv, UpToDate, ShowsTheChoice, Theme!ShowsTheChoice, Theme!Agrees,
         Theme!Look, Theme!Looks
<1> QED
  BY <1>1, <1>2, <1>3, <1>4, PartsInvariant, PTL DEF PartsInv

\* ... and so does what the search, the widget's amounts and the server guarantee
\* (product.go, payphoneremote.go, server.go).
THEOREM PartsServices ==
    PartsSpec => [](/\ RememberedTogether /\ LinksStayInSearch
                    /\ DriftBounded /\ WholeCentsExact
                    /\ CleanShutdown)
<1>1. SearchInv => RememberedTogether /\ LinksStayInSearch
  <2>1. RaceInv => RememberedTogether
    BY DEF RaceInv, RememberedTogether, SearchRace!RememberedTogether
  <2> QED
    BY <2>1, CalmLinks DEF SearchInv, LinksStayInSearch
<1>2. ServerInv => CleanShutdown
  BY DEF ServerInv, CleanShutdown, WebServer!CleanShutdown
<1> QED
  BY <1>1, <1>2, FieldsDrift, FieldsWhole, PartsInvariant, PTL DEF PartsInv

\* A torn page mends with the next choice made on it, whatever else the tabs do
\* (theme.js themeControl, changeTheme).
THEOREM PartsMend == PartsSpec => ChoiceMends
<1>1. PartsInv /\ [PartsNext]_allVars => ThemeInv /\ [Theme!Next]_Theme!vars
  BY PartsSteps DEF PartsInv, Theme!vars, themeVars
<1> QED
  BY <1>1, ThemeMends, PartsInvariant, PTL DEF PartsSpec, ChoiceMends, Theme!ChoiceMends

\* With one request at a time what has ended stays ended, a token is exchanged only
\* when due, and the wizard's entries are kept (session.go, home.go, user.go,
\* address.go).
THEOREM PartsSession ==
    ASSUME \A t, u \in OneTab : t = u
    PROVE  PartsSpec =>
             /\ []EndedStaysEnded
             /\ TokenReplacedWhenDue
             /\ OnboardingKept
<1>1. PartsInit => Sessions!OneTabInv
  BY SameInit, PartsAssumption, Sessions!InitOneTab DEF PartsInit
<1>2. PartsInv /\ Sessions!OneTabInv /\ [PartsNext]_allVars
         => Sessions!OneTabInv' /\ [Sessions!RecordsKept]_OneTabSession!vars
  BY PartsSteps, SessionOneTabStep DEF PartsInv
<1>3. PartsInv /\ Sessions!OneTabInv => EndedStaysEnded
  BY SessionStaysEnded DEF PartsInv
<1> QED
  BY <1>1, <1>2, <1>3, SessionTokenWhenDue, SessionOnboardingKept, PartsInvariant, PTL
     DEF PartsSpec, TokenReplacedWhenDue, OneTabSession!TokenReplacedWhenDue,
         OnboardingKept, OneTabSession!OnboardingKept
=============================================================================
