------------------------------- MODULE MCParts ------------------------------
(***************************************************************************)
(* The parts that can be explored on their own, side by side: the amounts  *)
(* of the widget, the scripts of the pages, the search, the server and the *)
(* session of a browser with one tab.  A behaviour belongs to one part,    *)
(* chosen in its first state; the variables of the others keep one of      *)
(* their initial values.  Some parts come twice, once for a shopper who    *)
(* waits for each answer and once for one who does not.                    *)
(***************************************************************************)
EXTENDS PayPhoneAmounts

CONSTANTS
    Nothing,                                      \* no address, term or choice
    Addresses, Calls, MaxLoads,                   \* CheckoutPage
    Items, Lines, MaxClicks, MaxAttempts, MaxLate, \* CartPage
    PerPage, MaxOrders, Window,                   \* OrdersList
    Tabs,                                         \* ThemeControl, ProductSearch
    Terms, PageSize, MaxTotal, MaxRaceTotal,      \* ProductSearch
    Conns,                                        \* Server
    OneTab, Users, NoUser, Kinds, MaxLogins, MaxTokens   \* Session

ASSUME PartsAssumption ==
    /\ Nothing \notin Addresses \cup Tabs \cup Terms
    /\ MaxLoads \in Nat
    /\ MaxClicks \in Nat
    /\ MaxAttempts \in Nat
    /\ MaxLate \in Nat
    /\ PerPage \in Nat \ {0}
    /\ MaxOrders \in Nat
    /\ PageSize \in Nat \ {0}
    /\ MaxTotal \in Nat
    /\ MaxRaceTotal \in 0 .. MaxTotal
    /\ NoUser \notin Users
    /\ Kinds \subseteq {"login", "logout", "getProfile", "getAddress",
                        "profile", "address", "newAddress"}
    /\ MaxLogins \in Nat
    /\ MaxTokens \in Nat

VARIABLES
    part,                                                    \* what is explored
    pageCookie, widget, selected, live, status, calls, buttons, offered, recorded,
    loads,
    cart, shown, open, posts, late, reload, snapshot, clicks, reasons,
    orderCount, firstRow, pageCount, prevOff, nextOff,
    theme, system, tab, outdated,
    searchCookie, results, view, search,
    main, watcher, result, signal, listening, conn,
    jar, form, store, dni, addr, basket, revoked, issued, aged, req, owner, ended

AddressRace ==
    INSTANCE CheckoutPage WITH None <- Nothing, Patient <- FALSE,
                               jar <- pageCookie, config <- widget
AddressPatient ==
    INSTANCE CheckoutPage WITH None <- Nothing, Patient <- TRUE,
                               jar <- pageCookie, config <- widget
CartRace == INSTANCE CartPage WITH Patient <- FALSE, basket <- cart
CartPatient == INSTANCE CartPage WITH Patient <- TRUE, basket <- cart
Orders == INSTANCE OrdersList WITH total <- orderCount, i <- firstRow
Theme == INSTANCE ThemeControl WITH None <- Nothing, store <- theme
SearchRace ==
    INSTANCE ProductSearch WITH None <- Nothing, Calm <- FALSE, MaxTotal <- MaxRaceTotal,
                                jar <- searchCookie, total <- results, req <- search
SearchCalm ==
    INSTANCE ProductSearch WITH None <- Nothing, Calm <- TRUE,
                                jar <- searchCookie, total <- results, req <- search
WebServer == INSTANCE Server
OneTabSession == INSTANCE Session WITH Tabs <- OneTab

addressVars == <<pageCookie, widget, selected, live, status, calls, buttons,
                 offered, recorded, loads>>
cartVars == <<cart, shown, open, posts, late, reload, snapshot, clicks, reasons>>
ordersVars == <<orderCount, firstRow, pageCount, prevOff, nextOff>>
themeVars == <<theme, system, tab, outdated>>
searchVars == <<searchCookie, results, view, search>>
serverVars == <<main, watcher, result, signal, listening, conn>>
sessionVars == <<jar, form, store, dni, addr, basket, revoked, issued, aged, req,
                 owner, ended>>
allVars == <<part, parts, config, addressVars, cartVars, ordersVars, themeVars,
             searchVars, serverVars, sessionVars>>

-----------------------------------------------------------------------------
\* A variable with several initial values has all of them where its part is
\* explored and one of them elsewhere.
Initial(ps, all, one) == IF part \in ps THEN all ELSE {one}

PartsInit ==
    /\ part \in {"amounts", "addressRace", "addressPatient", "cartRace",
                 "cartPatient", "orders", "theme", "searchRace", "searchCalm",
                 "server", "session"}
    /\ parts \in Initial({"amounts"}, Parts, [f \in {"subtotal", "taxes", "shipping"} |-> 0])
    /\ cart \in Initial({"cartRace", "cartPatient"}, [Items -> 0 .. 1], [x \in Items |-> 0])
    /\ orderCount \in Initial({"orders"}, 1 .. MaxOrders, 1)
    /\ system \in Initial({"theme"}, {"light", "dark"}, "light")
    /\ results \in IF part = "searchCalm" THEN [Terms -> 0 .. MaxTotal]
                   ELSE Initial({"searchRace"}, [Terms -> 0 .. MaxRaceTotal],
                                [q \in Terms |-> 0])
    /\ Init
    /\ AddressRace!Init
    /\ CartRace!Init
    /\ Orders!Init
    /\ Theme!Init
    /\ SearchCalm!Init
    /\ WebServer!Init
    /\ OneTabSession!Init

\* The parts other than those of ps stand still.
Only(ps) ==
    /\ part \in ps
    /\ UNCHANGED part
    /\ IF "amounts" \in ps THEN TRUE ELSE UNCHANGED vars
    /\ IF "addressRace" \in ps THEN TRUE ELSE UNCHANGED addressVars
    /\ IF "cartRace" \in ps THEN TRUE ELSE UNCHANGED cartVars
    /\ IF "orders" \in ps THEN TRUE ELSE UNCHANGED ordersVars
    /\ IF "theme" \in ps THEN TRUE ELSE UNCHANGED themeVars
    /\ IF "searchRace" \in ps THEN TRUE ELSE UNCHANGED searchVars
    /\ IF "server" \in ps THEN TRUE ELSE UNCHANGED serverVars
    /\ IF "session" \in ps THEN TRUE ELSE UNCHANGED sessionVars

Address == {"addressRace", "addressPatient"}
Cart == {"cartRace", "cartPatient"}
Searching == {"searchRace", "searchCalm"}

PartsNext ==
    \/ Only({"amounts"}) /\ Next
    \/ Only(Address) /\ part = "addressRace" /\ AddressRace!Next
    \/ Only(Address) /\ part = "addressPatient" /\ AddressPatient!Next
    \/ Only(Cart) /\ part = "cartRace" /\ CartRace!Next
    \/ Only(Cart) /\ part = "cartPatient" /\ CartPatient!Next
    \/ Only({"orders"}) /\ Orders!Next
    \/ Only({"theme"}) /\ Theme!Next
    \/ Only(Searching) /\ part = "searchRace" /\ SearchRace!Next
    \/ Only(Searching) /\ part = "searchCalm" /\ SearchCalm!Next
    \/ Only({"server"}) /\ WebServer!Next
    \/ Only({"session"}) /\ OneTabSession!Next

\* The fairness of each part, where it is explored.
PartsFairness ==
    /\ \A c \in Calls :
          WF_allVars(Only(Address) /\ c \in AddressRace!Busy /\ AddressRace!Answered(c))
    /\ WF_allVars(Only(Cart) /\ (CartRace!Read \/ CartRace!Replace))
    /\ \A l \in Lines :
          WF_allVars(/\ Only(Cart) /\ l \in CartRace!Busy
                     /\ CartRace!Serve(l) \/ CartRace!Done(l))
    /\ WF_allVars(Only({"server"}) /\ WebServer!Watcher)
    /\ WF_allVars(Only({"server"}) /\ WebServer!Main)
    /\ \A t \in OneTab : WF_allVars(Only({"session"}) /\ OneTabSession!Step(t))

PartsSpec == PartsInit /\ [][PartsNext]_allVars /\ PartsFairness

-----------------------------------------------------------------------------
(* Properties; DriftBounded and WholeCentsExact are those of PayPhoneAmounts. *)

TypeOK ==
    /\ AddressRace!TypeOK
    /\ CartRace!TypeOK
    /\ Orders!TypeOK
    /\ Theme!TypeOK
    /\ SearchCalm!TypeOK
    /\ WebServer!TypeOK
    /\ OneTabSession!TypeOK

\* However many posts of the checkout page are under way and in whatever order
\* they are answered, it shows at most one PayPhone button, and only after one
\* of them succeeded (checkout-payphone.js initializePayPhone).
OneButtonAfterRecord == AddressRace!OneButtonAfterRecord

\* A shopper who waits for the answers, and may then choose again, pays with the
\* address that was chosen when the button appeared (checkout-payphone.js
\* validateShippingAddress).
ShipsToOffered == part = "addressPatient" => AddressPatient!ShipsToOffered

\* ... and with the payment id of the attempt in the cookie
\* (checkout-payphone.js createPaymentRecord, initializePayPhone).
PaysRecorded == part = "addressPatient" => AddressPatient!PaysRecorded

\* For that shopper the status line does not say for ever that something is
\* still going on (checkout-payphone.js).
StatusSettles ==
    /\ part = "addressPatient"
    /\ status \in {"creating", "initializing"}
    ~> status \notin {"creating", "initializing"}

\* A settled cart page that shows quantities the basket does not have owes it
\* to a post that failed, to a reload that overtook one, to an attempt that was
\* given up and applied after the page was read, or to another tab, and to
\* nothing else (buttons-operations.js performOperation, basketremote.go).
WrongForAReason == CartRace!WrongForAReason

\* For a shopper with one tab who waits until the page has settled a failed post
\* and an attempt applied after the page was read remain.
ShownUnlessFailedOrLate ==
    part = "cartPatient" => CartPatient!ShownUnlessFailedOrLate

\* For that shopper every click is followed by a settled page that shows the
\* basket as it was read after the click, by a failure, or by an error page
\* (buttons-operations.js performOperation).
ClicksShow ==
    part = "cartPatient" /\ CartPatient!Busy # {}
        ~> \/ CartPatient!Settled /\ (shown = cart \/ "late" \in reasons)
           \/ "failed" \in reasons
           \/ ~open

\* Whatever is clicked on the pager in whatever order, "..." included, the
\* orders table shows a page of the list from its first row on (theme.js
\* listInit).
ShowsAPage == Orders!ShowsAPage

\* No page of orders is out of reach, also when the theme's counter is lost
\* (theme.js updateListControls).
NoPageCutOff == Orders!NoPageCutOff

\* While the theme's counter is a number it is the page that the list library
\* shows (theme.js listInit).
CounterIsPage == Orders!CounterIsPage

\* A page shows the stored theme in attribute, icon and menu unless storage or
\* system changed behind its back (config.js; theme.js themeControl).
ShowsTheChoice == Theme!ShowsTheChoice

\* A page torn by a change during its load agrees with itself again after the
\* next choice made on it (theme.js themeControl, changeTheme).
ChoiceMends == Theme!ChoiceMends

\* A page of results is remembered only together with its term (product.go
\* FindProducts, renderProductSearch).
RememberedTogether == SearchRace!RememberedTogether

\* With results in one tab at a time over a catalogue that does not change, a
\* link leads to a page of the search that the tab shows, within its results
\* (product.go renderProductSearch).
LinksStayInSearch == part = "searchCalm" => SearchCalm!LinksStayInSearch

\* A shutdown that reports success cut no request off, and nothing is handled
\* while the clients of the other services are closed (server.go serveHTTP,
\* cmd/web/main.go run).
CleanShutdown == WebServer!CleanShutdown

\* A signal ends the process, however long its requests take (server.go).
SignalEnds == WebServer!SignalEnds

\* With one request at a time, a session that a logout or a rejected refresh
\* has removed from Redis stays removed (home.go logout, session.go).
EndedStaysEnded == OneTabSession!EndedStaysEnded

\* ... its token is exchanged only when it is due, and never for an older one
\* (session.go refreshIfNeeded).
TokenReplacedWhenDue == OneTabSession!TokenReplacedWhenDue

\* ... no Save takes away what the wizard wrote into the record (user.go,
\* address.go, session.go).
OnboardingKept == OneTabSession!OnboardingKept

\* ... and every request is answered, the second look of
\* requireAuthenticatedUser at the session included (middleware.go).
RequestsAnswered == OneTabSession!RequestsAnswered
=============================================================================
