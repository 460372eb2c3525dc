---------------------------- MODULE ProductSearch ---------------------------
(***************************************************************************)
(* Paging through search results.  The links of a result page carry only a *)
(* page number; the search term they belong to is the one in the cookie,   *)
(* which all tabs share and which an answer replaces whole.  A search is   *)
(* answered after two calls to the stores service, so another tab's answer *)
(* may come in between, and the catalogue may change.                      *)
(***************************************************************************)
EXTENDS Integers

CONSTANTS
    Tabs,
    Terms,      \* search terms
    None,       \* no term
    PageSize,   \* results of a page (productPageSize, 10)
    MaxTotal,   \* bound: results of a term
    Calm        \* TRUE: results are open in one tab at a time, pages are
                \* reached by links and the catalogue does not change

VARIABLES
    jar,     \* the cookie: userInput and selfPage (0: absent)
    total,   \* per term: results in the catalogue
    view,    \* per tab: the page it shows
    req      \* per tab: the search under way

vars == <<jar, total, view, req>>

-----------------------------------------------------------------------------
\* A search: a term and a page; page 0 of None is no search.
LastPage == (MaxTotal + PageSize - 1) \div PageSize
Pages == 0 .. LastPage + 1
Search == [term : Terms \cup {None}, page : Pages]
NoSearch == [term |-> None, page |-> 0]

\* What a tab shows: a search and how many pages its results have.
View == [term : Terms \cup {None}, page : Pages, pages : 0 .. LastPage]
Blank == [term |-> None, page |-> 0, pages |-> 0]

\* A request: nothing, or the search it will do and what it came from: a link
\* of the page the tab shows, or anything else.
Request == [busy : BOOLEAN, search : Search, link : BOOLEAN]
Idle == [busy |-> FALSE, search |-> NoSearch, link |-> FALSE]

\* httputils.NumberOfPages.
NumberOfPages(n) == n \div PageSize + (IF n % PageSize > 0 THEN 1 ELSE 0)

\* The links of a page: HasPreviousPage and HasNextPage.
Links(v) ==
    {p \in {v.page - 1} : p >= 1} \cup {p \in {v.page + 1} : p <= v.pages}

Init ==
    /\ jar = NoSearch
    /\ total \in [Terms -> 0 .. MaxTotal]
    /\ view = [t \in Tabs |-> Blank]
    /\ req = [t \in Tabs |-> Idle]

\* What a GET of /search does with the cookie it comes with: a page without a
\* term is answered with nothing, no page at all with the blank form.
Begin(t, s, link) ==
    /\ ~req[t].busy
    /\ Calm => \A u \in Tabs \ {t} : ~req[u].busy /\ view[u] = Blank
    /\ IF s.term = None
       THEN view' = [view EXCEPT ![t] = Blank] /\ UNCHANGED req
       ELSE /\ req' = [req EXCEPT ![t] = [busy |-> TRUE, search |-> s, link |-> link]]
            /\ UNCHANGED view

\* POST /search: a new search starts on its first page, an empty one shows the
\* blank form.  The variant stays on the page of the last one.
PostSamePage(t, q) ==
    /\ Begin(t, [term |-> q, page |-> IF jar.page = 0 THEN 1 ELSE jar.page], FALSE)
    /\ UNCHANGED <<jar, total>>

Post(t, q) ==
    /\ Begin(t, [term |-> q, page |-> 1], FALSE)
    /\ UNCHANGED <<jar, total>>

\* GET /search?page=p, from a link of the page shown or typed; a typed page that
\* is no positive number is left out.
GetPage(t, p) ==
    /\ Calm => p \in Links(view[t])
    /\ Begin(t, [term |-> jar.term, page |-> p], p \in Links(view[t]))
    /\ UNCHANGED <<jar, total>>

\* GET /search: the page the cookie remembers.
Get(t) ==
    /\ Begin(t, jar, FALSE)
    /\ UNCHANGED <<jar, total>>

\* renderProductSearch: the service answers, the cookie is saved with the
\* search, the page rendered; or an error page, without the cookie or, where
\* only the rendering failed, with it.  The variant saves the page
\* before the term is known to be searched.
AnswerPageOnly(t) ==
    /\ req[t].busy
    /\ jar' = [jar EXCEPT !.page = req[t].search.page]
    /\ view' = [view EXCEPT ![t] = Blank]
    /\ req' = [req EXCEPT ![t] = Idle]
    /\ UNCHANGED total

Answer(t) ==
    /\ req[t].busy
    /\ LET s == req[t].search IN
       \/ /\ jar' = s
          /\ view' = [view EXCEPT ![t] = [term |-> s.term, page |-> s.page,
                                          pages |-> NumberOfPages(total[s.term])]]
       \/ /\ view' = [view EXCEPT ![t] = Blank]
          /\ jar' \in {jar, s}
    /\ req' = [req EXCEPT ![t] = Idle]
    /\ UNCHANGED total

\* Products come and go.
Catalogue(q) ==
    /\ ~Calm
    /\ total' \in {[total EXCEPT ![q] = n] : n \in 0 .. MaxTotal}
    /\ UNCHANGED <<jar, view, req>>

Next ==
    \/ \E t \in Tabs : Get(t) \/ Answer(t) \/ \E p \in Pages \ {0} : GetPage(t, p)
    \/ \E t \in Tabs, q \in Terms \cup {None} : Post(t, q)
    \/ \E q \in Terms : Catalogue(q)

Spec == Init /\ [][Next]_vars

-----------------------------------------------------------------------------
TypeOK ==
    /\ jar \in Search
    /\ total \in [Terms -> 0 .. MaxTotal]
    /\ view \in [Tabs -> View]
    /\ req \in [Tabs -> Request]

\* A page is remembered only together with a term: the branch of FindProducts
\* that answers a remembered page without a term with nothing is not reached
\* (product.go FindProducts).
RememberedTogether == jar.page # 0 <=> jar.term # None

\* With results in one tab at a time over a catalogue that does not change, a
\* link leads to a page of the search that the tab shows, within its results
\* (product.go renderProductSearch).
LinksStayInSearch ==
    \A t \in Tabs :
        /\ req[t].busy /\ req[t].link =>
              req[t].search.term = view[t].term /\ req[t].search.page \in Links(view[t])
        /\ view[t].page > 1 => (view[t].page - 1) * PageSize < total[view[t].term]
=============================================================================
