----------------------------- MODULE Storefront -----------------------------
(***************************************************************************)
(* The shopping core of the storefront: one logged-in shopper whose cart,  *)
(* checkout and payment state lives in ONE browser cookie, several         *)
(* requests of that shopper in flight at once (tabs, double clicks, the    *)
(* checkout page's AJAX call), and the remote services the handlers        *)
(* orchestrate: baskets, orders and the PayPhone gateway.                  *)
(*                                                                         *)
(* A request is a process.  It works on the copy of the cookie that came   *)
(* with it (jar) and, where the handler calls Save, answers with the WHOLE *)
(* copy: concurrent requests are read-modify-write on the cookie.  Every   *)
(* remote call is a step of its own, with the outcomes the HTTP client can *)
(* report: an answer, an error with no effect, an error (a timeout) after  *)
(* the service applied the call, and a timeout of a call that the service  *)
(* will still apply, moments later (late).                                 *)
(*                                                                         *)
(* Left out: what is only displayed, the session record (the shopper stays *)
(* logged in), payphoneConfirmation and orderID (cookie keys that no       *)
(* handler reads) and the paging keys of the search page.                  *)
(***************************************************************************)
EXTENDS Naturals, Sequences, FiniteSets

CONSTANTS
    Tabs,        \* requests of the shopper that may be in flight together
    Baskets,     \* basket ids the baskets service may hand out
    Txs,         \* client transaction ids token.New may mint
    Stores,      \* stores; a product is identified with the store selling it
    Addresses,   \* the shopper's saved shipping addresses
    None,        \* an absent (or empty) value
    Activities,  \* the kinds of request the shopper makes
    MaxQty,      \* stock: units of a store's product one basket can hold
    MaxRetries,  \* retries of the "fast" HTTP profile
    MaxOrders,   \* bound: no confirm starts that could exceed this many orders
    MaxLate,     \* bound: calls given up by the client and still under way
    Revisits,    \* TRUE: the shopper may open an old confirm URL again
    EmptyBodies, \* TRUE: a service may answer a success with an empty body
    EmptyMessages \* TRUE: PayPhone may refuse a payment with message ""

ASSUME ConstantsAssumption ==
    /\ None \notin Baskets \cup Txs \cup Stores \cup Addresses
    /\ None \notin [basket : Baskets, tx : Txs,
                    lines : [Stores -> 0 .. MaxQty], left : SUBSET Stores]
    /\ Activities \subseteq {"checkout", "checkoutPost", "processPayment",
                             "confirm", "addItem", "removeItem", "searchAdd",
                             "search"}
    /\ MaxQty \in Nat \ {0}
    /\ MaxRetries \in Nat
    /\ MaxOrders \in Nat
    /\ MaxLate \in Nat
    /\ Revisits \in BOOLEAN
    /\ EmptyBodies \in BOOLEAN
    /\ EmptyMessages \in BOOLEAN

VARIABLES
    \* the browser
    cookie,   \* the values the handlers keep in the session cookie
    page,     \* per tab: the checkout page and its PayPhone widget
    \* the remote services
    bstate,   \* per basket: "absent", "open" or "checkedOut"
    items,    \* per basket: units per store
    tstatus,  \* per transaction: its life at the gateway
    charged,  \* per transaction: the cart its amount was computed from
    orders,   \* the orders created, in order of creation
    late,     \* calls that timed out and that a service has still to apply
    \* the application
    req       \* per tab: the request being handled

browser == <<cookie, page>>
carts   == <<bstate, items>>
gateway == <<tstatus, charged>>
vars    == <<cookie, page, bstate, items, tstatus, charged, orders, late,
             req>>

-----------------------------------------------------------------------------
(* Values.  A definition whose name extends that of the definition below it  *)
(* (ApprovedUnlessDeclined, Approved) is a faulty variant of it: no action    *)
(* uses it, it shows that the properties can tell the two apart.              *)

Contents == [Stores -> 0 .. MaxQty]
Empty    == [s \in Stores |-> 0]

\* The stores with a line in a financial breakdown (one item per store).
Lines(c) == {s \in Stores : c[s] > 0}

\* sumQuantities, as far as the handlers tell its results apart: they only
\* ever compare the count in the cookie with zero.
SumQuantities(c) == IF Lines(c) = {} THEN "zero" ELSE "some"

Cookie == [basketID : Baskets \cup {None},
           basketItems : {"absent", "zero", "some"},
           shippingAddressID : Addresses \cup {None},
           clientTransactionID : Txs \cup {None},
           paymentID : Txs \cup {None}]

BlankCookie == [basketID |-> None, basketItems |-> "absent",
                shippingAddressID |-> None, clientTransactionID |-> None,
                paymentID |-> None]

\* elsewhere: no checkout page; checkout: the page is shown, its widget not
\* yet rendered; widget: PayPhone's button is live; returning: PayPhone is
\* redirecting the tab to /payphone/confirm.
Page == [at : {"elsewhere", "checkout", "widget", "returning"},
         tx : Txs \cup {None}, shown : Contents]

Elsewhere == [at |-> "elsewhere", tx |-> None, shown |-> Empty]

TxStatus == {"unused", "minted", "paid", "declined", "confirmed", "reversed"}

\* tx is history: the transaction whose approval the order rests on.  The
\* orders service is only told paymentID.
Order == [basket : Baskets, store : Stores, qty : 1 .. MaxQty,
          paymentID : Txs, shippingAddressID : Addresses, tx : Txs]

\* A late CheckoutBasket remembers, as history, what its confirm had read.
LateCall ==
    [call : {"confirm"}, tx : Txs]
      \cup [call : {"createOrder"}, order : Order]
      \cup [call : {"checkoutBasket"}, basket : Baskets, tx : Txs,
            lines : Contents]
      \cup [call : {"addItem", "removeItem"}, basket : Baskets, item : Stores]

\* The same call may be under way more than once: late holds numbered copies.
Copies == 1 .. MaxLate

Labels == {"idle", "checkout", "checkoutConfig", "checkoutPost",
           "processPayment", "confirm", "financials", "createOrder",
           "checkoutBasket", "createBasket", "addItem", "removeItem",
           "findBasket", "searchAdd", "searchCreate", "searchAddAgain",
           "searchFind", "search"}

\* A request: the call it makes next (pc), its copy of the cookie (jar), the
\* service's local basketID (bid), the transaction it mints or confirms (tx),
\* the product it adds or removes (item), the financials it read (seen), the
\* stores whose order is still to be created (todo), the retries used by the
\* call in progress (tries) and, as history, the orders per store it created
\* (made).
Request == [pc : Labels, jar : Cookie, bid : Baskets \cup {None},
            tx : Txs \cup {None}, item : Stores \cup {None},
            seen : Contents, todo : SUBSET Stores, tries : 0 .. MaxRetries,
            made : [Stores -> Nat]]

NoRequest == [pc |-> "idle", jar |-> BlankCookie, bid |-> None, tx |-> None,
              item |-> None, seen |-> Empty, todo |-> {}, tries |-> 0,
              made |-> Empty]

TypeOK ==
    /\ cookie \in Cookie
    /\ page \in [Tabs -> Page]
    /\ bstate \in [Baskets -> {"absent", "open", "checkedOut"}]
    /\ items \in [Baskets -> Contents]
    /\ tstatus \in [Txs -> TxStatus]
    /\ charged \in [Txs -> Contents]
    /\ orders \in Seq(Order)
    /\ late \subseteq Copies \X LateCall
    /\ req \in [Tabs -> Request]

\* A shopper who has just logged in: an open basket with anything in it.
Init ==
    \E b \in Baskets, c \in Contents :
       /\ \E n \in {"absent", SumQuantities(c)} :
             cookie = [BlankCookie EXCEPT !.basketID = b, !.basketItems = n]
       /\ page = [t \in Tabs |-> Elsewhere]
       /\ bstate = [x \in Baskets |-> IF x = b THEN "open" ELSE "absent"]
       /\ items = [x \in Baskets |-> IF x = b THEN c ELSE Empty]
       /\ tstatus = [x \in Txs |-> "unused"]
       /\ charged = [x \in Txs |-> Empty]
       /\ orders = << >>
       /\ late = {}
       /\ req = [t \in Tabs |-> NoRequest]

-----------------------------------------------------------------------------
(* Requests: how one starts, fails and answers *)

Idle(t) == req[t].pc = "idle"

\* The shopper may start a request of this kind in tab t.
MayStart(t, label) == Idle(t) /\ label \in Activities

\* A handler that needs the cart starts with the cookie the browser sends;
\* without a basketID in it the request is refused at once (no effect).
StartAt(t, label) ==
    [NoRequest EXCEPT !.pc = label, !.jar = cookie, !.bid = cookie.basketID]

HasBasket == cookie.basketID # None

\* The tab navigates: the checkout page it showed is gone.
Navigate(t) == page' = [page EXCEPT ![t] = Elsewhere]

Goto(t, label) == req' = [req EXCEPT ![t].pc = label]

End(t) == req' = [req EXCEPT ![t] = NoRequest]

\* serverError: nothing was saved, the cookie is not touched.
Fail(t) == End(t) /\ UNCHANGED browser

\* session.Save and the response: the browser replaces its whole cookie.
Answer(t, values) == End(t) /\ cookie' = values

\* Bounds on the ids the finite sets can supply, so that a request that is
\* started never runs out of them.
CreatesBasket == {"searchAdd", "searchCreate", "confirm", "financials",
                  "createOrder", "checkoutBasket", "createBasket"}
MintsTx       == {"checkout", "processPayment"}
Confirming    == {"confirm", "financials", "createOrder"}

InFlight(labels) == Cardinality({t \in Tabs : req[t].pc \in labels})

BasketIDsLeft ==
    InFlight(CreatesBasket)
        < Cardinality({b \in Baskets : bstate[b] = "absent"})
TxIDsLeft ==
    InFlight(MintsTx) < Cardinality({x \in Txs : tstatus[x] = "unused"})
OrdersLeft ==
    Len(orders) + Cardinality(late)
        + (InFlight(Confirming) + 1) * Cardinality(Stores) <= MaxOrders

\* What a read of basket b (ComputeFinancials, FindBasket) may return: its
\* contents; a success without a body is mapped to an empty result.
Read(b) == {items[b]} \cup (IF EmptyBodies THEN {Empty} ELSE {})

\* The client's deadline passes while the call w is still under way.
TimesOut(w) ==
    /\ Cardinality(late) < MaxLate
    /\ \E n \in Copies :
          /\ <<n, w>> \notin late
          /\ \A m \in 1 .. n - 1 : <<m, w>> \in late
          /\ late' = late \cup {<<n, w>>}

Fresh(x) == tstatus[x] = "unused"
Mint(x)  == tstatus' = [tstatus EXCEPT ![x] = "minted"]

-----------------------------------------------------------------------------
(* GET /checkout *)

StartCheckout(t) ==
    /\ MayStart(t, "checkout") /\ HasBasket /\ TxIDsLeft
    /\ req' = [req EXCEPT ![t] = StartAt(t, "checkout")]
    /\ Navigate(t)
    /\ UNCHANGED <<cookie, carts, gateway, orders, late>>

\* The values a new checkout attempt leaves in the cookie: its own client
\* transaction id, and nothing of the payment before it.
NewAttemptKeepsPayment(c, x) == [c EXCEPT !.clientTransactionID = x]
NewAttempt(c, x) == [c EXCEPT !.clientTransactionID = x, !.paymentID = None]

\* FindByUserID (addresses) and ComputeFinancials.  An empty cart is shown
\* without a widget configuration and without touching the cookie.
CheckoutRead(t) ==
    /\ req[t].pc = "checkout"
    /\ UNCHANGED <<cookie, carts, charged, orders, late>>
    /\ \/ \E c \in Read(req[t].bid), x \in Txs :
             /\ Lines(c) # {}
             /\ Fresh(x)
             /\ Mint(x)
             /\ req' = [req EXCEPT ![t].pc = "checkoutConfig",
                                   ![t].tx = x,
                                   ![t].seen = c,
                                   ![t].jar = NewAttempt(req[t].jar, x)]
             /\ UNCHANGED page
       \/ /\ Empty \in Read(req[t].bid)
          /\ End(t)
          /\ page' = [page EXCEPT ![t] = [Elsewhere EXCEPT !.at = "checkout"]]
          /\ UNCHANGED tstatus
       \/ Fail(t) /\ UNCHANGED tstatus

\* GeneratePayPhoneConfigWithTransactionID (admin token, FindUserByID), then
\* Save and the page with the widget's configuration.
CheckoutConfig(t) ==
    /\ req[t].pc = "checkoutConfig"
    /\ UNCHANGED <<carts, gateway, orders, late>>
    /\ \/ /\ Answer(t, req[t].jar)
          /\ page' = [page EXCEPT ![t] = [at |-> "checkout", tx |-> req[t].tx,
                                          shown |-> req[t].seen]]
       \/ Fail(t)

(* POST /checkout *)

StartCheckoutPost(t) ==
    /\ MayStart(t, "checkoutPost") /\ HasBasket
    /\ req' = [req EXCEPT ![t] = StartAt(t, "checkoutPost")]
    /\ Navigate(t)
    /\ UNCHANGED <<cookie, carts, gateway, orders, late>>

\* An invalid form (no items by the cookie's count, or no address picked) is
\* rendered again around the attempt the cookie holds; a valid one makes that
\* attempt's transaction id the payment id.
CheckoutPost(t) ==
    LET c == req[t].jar IN
    /\ req[t].pc = "checkoutPost"
    /\ UNCHANGED <<carts, gateway, orders, late>>
    /\ \/ Fail(t)
       \/ /\ c.clientTransactionID # None
          /\ \/ /\ End(t) /\ UNCHANGED cookie
                /\ \E r \in Read(req[t].bid) :
                      page' = [page EXCEPT ![t] =
                                 [at |-> "checkout", shown |-> r,
                                  tx |-> c.clientTransactionID]]
             \/ /\ c.basketItems # "zero"
                /\ Answer(t, [c EXCEPT !.paymentID = c.clientTransactionID])
                /\ UNCHANGED page

-----------------------------------------------------------------------------
(* POST /payphone/create-payment, the checkout page's AJAX call once an      *)
(* address is picked: it keeps the page.                                     *)

\* The address is saved before anything else is tried: the Set-Cookie header
\* of that first Save leaves with whatever response follows, an error's too.
StartProcessPayment(t) ==
    /\ MayStart(t, "processPayment") /\ HasBasket /\ TxIDsLeft
    /\ page[t].at = "checkout"
    /\ \E a \in Addresses :
          req' = [req EXCEPT ![t] =
                    [StartAt(t, "processPayment")
                       EXCEPT !.jar.shippingAddressID = a]]
    /\ UNCHANGED <<browser, carts, gateway, orders, late>>

\* PayPhoneRemote.ProcessPayment's checks (products and a positive total; the
\* transaction id is always given).
Payable(c) == Lines(c) # {}

\* The page's initializePayPhone: it renders the widget with the configuration
\* it was loaded with, if it has one.
InitializePayPhone(p) ==
    [p EXCEPT !.at = IF p.tx = None THEN @ ELSE "widget"]

\* ComputeFinancials, a fresh transaction id, the checks, the second Save; the
\* page's callback on success.
ProcessPayment(t) ==
    /\ req[t].pc = "processPayment"
    /\ UNCHANGED <<carts, charged, orders, late>>
    /\ \/ /\ \E c \in Read(req[t].bid) : Payable(c)
          /\ \E x \in Txs :
                /\ Fresh(x)
                /\ Mint(x)
                /\ Answer(t, [req[t].jar EXCEPT !.clientTransactionID = x,
                                                !.paymentID = x])
          /\ page' = [page EXCEPT ![t] = InitializePayPhone(@)]
       \/ /\ Answer(t, req[t].jar)
          /\ UNCHANGED <<page, tstatus>>

-----------------------------------------------------------------------------
(* The shopper and PayPhone (external) *)

\* The shopper pays, or tries to, in the widget; PayPhone then redirects the
\* tab to the confirm URL.
Pay(t) ==
    LET x == page[t].tx IN
    /\ Idle(t)
    /\ page[t].at = "widget"
    /\ tstatus[x] = "minted"
    /\ \E s \in {"paid", "declined"} : tstatus' = [tstatus EXCEPT ![x] = s]
    /\ charged' = [charged EXCEPT ![x] = page[t].shown]
    /\ page' = [page EXCEPT ![t].at = "returning"]
    /\ UNCHANGED <<cookie, carts, orders, late, req>>

\* PayPhone reverses by itself a payment not confirmed within five minutes.
Reverse(x) ==
    /\ tstatus[x] = "paid"
    /\ tstatus' = [tstatus EXCEPT ![x] = "reversed"]
    /\ UNCHANGED <<browser, carts, charged, orders, late, req>>

\* GET /payphone/cancel: CancelPayment is a no-op, the tab goes home.
CancelPayment(t) ==
    /\ Idle(t)
    /\ page[t].at = "widget"
    /\ Navigate(t)
    /\ UNCHANGED <<cookie, carts, gateway, orders, late, req>>

-----------------------------------------------------------------------------
(* GET /payphone/confirm *)

\* PayPhone's redirect, or an old confirm URL opened again.
ReachesConfirm(t, x) ==
    \/ page[t].at = "returning" /\ page[t].tx = x
    \/ Revisits /\ tstatus[x] \notin {"unused", "minted"}

StartConfirm(t, x) ==
    /\ MayStart(t, "confirm") /\ ReachesConfirm(t, x)
    /\ HasBasket /\ cookie.shippingAddressID # None
    /\ BasketIDsLeft /\ OrdersLeft
    /\ req' = [req EXCEPT ![t] = [StartAt(t, "confirm") EXCEPT !.tx = x]]
    /\ Navigate(t)
    /\ UNCHANGED <<cookie, carts, gateway, orders, late>>

\* What the gateway makes of a confirm call (external).
AfterConfirm(s) == IF s = "paid" THEN "confirmed" ELSE s

\* The service goes on when ErrorMessage is empty: on an approval, and on a
\* refusal whose message is present but empty.
ApprovedUnlessDeclined(s) == s # "declined" \/ EmptyMessages
Approved(s) == s = "confirmed" \/ EmptyMessages

\* PayPhoneRemote.ConfirmPayment.  A call that errs may still have confirmed
\* the payment at the gateway.
ConfirmAtGateway(t) ==
    LET x == req[t].tx
        s == AfterConfirm(tstatus[x])
    IN
    /\ req[t].pc = "confirm"
    /\ UNCHANGED <<browser, carts, charged, orders>>
    /\ \/ /\ tstatus' = [tstatus EXCEPT ![x] = s]
          /\ \/ Approved(s) /\ Goto(t, "financials")
             \/ End(t)
          /\ UNCHANGED late
       \/ End(t) /\ UNCHANGED <<tstatus, late>>
       \/ /\ End(t) /\ TimesOut([call |-> "confirm", tx |-> x])
          /\ UNCHANGED tstatus

\* GetAdminToken and ComputeFinancials: the cart as it is now.
ConfirmFinancials(t) ==
    /\ req[t].pc = "financials"
    /\ UNCHANGED <<browser, carts, gateway, orders, late>>
    /\ \/ \E c \in Read(req[t].bid) :
             req' = [req EXCEPT
                       ![t].pc = IF Lines(c) = {} THEN "checkoutBasket"
                                                  ELSE "createOrder",
                       ![t].seen = c,
                       ![t].todo = Lines(c)]
       \/ End(t)

\* The paymentID the handler passes on: the cookie's, or else the transaction
\* id of the URL.
PaymentIDNoFallback(t) == req[t].jar.paymentID
PaymentID(t) == IF req[t].jar.paymentID # None THEN req[t].jar.paymentID
                                               ELSE req[t].tx

NewOrder(t, s) ==
    [basket |-> req[t].bid, store |-> s, qty |-> req[t].seen[s],
     paymentID |-> PaymentID(t),
     shippingAddressID |-> req[t].jar.shippingAddressID, tx |-> req[t].tx]

\* What the loop does once an order call timed out, whether or not the order
\* is persisted: CreateOrder is single-shot, the error ends the request.
AfterLostOrderRetry(t, s) == req' = [req EXCEPT ![t].made[s] = @ + 1]
AfterLostOrder(t, s) == End(t)

\* Where the loop goes once store s has its order.
AfterOrderFirstOnly(t, s) == "checkoutBasket"
AfterOrder(t, s) ==
    IF req[t].todo = {s} THEN "checkoutBasket" ELSE "createOrder"

\* One CreateOrder of the loop over the stores.
CreateOrder(t) ==
    /\ req[t].pc = "createOrder"
    /\ UNCHANGED <<browser, carts, gateway>>
    /\ \E s \in req[t].todo :
          \/ /\ orders' = Append(orders, NewOrder(t, s))
             /\ req' = [req EXCEPT ![t].pc = AfterOrder(t, s),
                                   ![t].todo = @ \ {s},
                                   ![t].made[s] = @ + 1]
             /\ UNCHANGED late
          \/ /\ orders' = Append(orders, NewOrder(t, s))
             /\ AfterLostOrder(t, s)
             /\ UNCHANGED late
          \/ /\ TimesOut([call |-> "createOrder", order |-> NewOrder(t, s)])
             /\ AfterLostOrder(t, s)
             /\ UNCHANGED orders
          \/ End(t) /\ UNCHANGED <<orders, late>>

\* CheckoutBasket, single-shot; a basket already checked out stays so.
CheckoutBasket(t) ==
    /\ req[t].pc = "checkoutBasket"
    /\ UNCHANGED <<browser, items, gateway, orders>>
    /\ \/ /\ bstate' = [bstate EXCEPT ![req[t].bid] = "checkedOut"]
          /\ Goto(t, "createBasket") \/ End(t)
          /\ UNCHANGED late
       \/ End(t) /\ UNCHANGED <<bstate, late>>
       \/ /\ TimesOut([call |-> "checkoutBasket", basket |-> req[t].bid,
                       tx |-> req[t].tx, lines |-> req[t].seen])
          /\ End(t) /\ UNCHANGED bstate

\* CreateBasket at the service: a new, empty, open basket.
OpenBasket(b) ==
    /\ bstate[b] = "absent"
    /\ bstate' = [bstate EXCEPT ![b] = "open"]
    /\ UNCHANGED items

\* The ids CreateBasket may return for the new basket b: an empty body is
\* mapped to "" without an error.
ReturnedID(b) == {b} \cup (IF EmptyBodies THEN {None} ELSE {})

\* The last call, and the handler's Save of the fresh basket's id.  A call
\* that errs may leave an orphaned basket behind.
CreateBasket(t) ==
    /\ req[t].pc = "createBasket"
    /\ UNCHANGED <<page, gateway, orders, late>>
    /\ \/ \E b \in Baskets :
             /\ OpenBasket(b)
             /\ \/ \E id \in ReturnedID(b) :
                      Answer(t, [req[t].jar EXCEPT !.basketID = id,
                                                   !.basketItems = "zero"])
                \/ End(t) /\ UNCHANGED cookie
       \/ End(t) /\ UNCHANGED <<cookie, carts>>

-----------------------------------------------------------------------------
(* The cart *)

\* POST /basket/add-item and /basket/remove-item, GET /search/add.
StartCartRequest(t, label, s) ==
    /\ MayStart(t, label) /\ HasBasket
    /\ label = "searchAdd" => BasketIDsLeft
    /\ req' = [req EXCEPT ![t] = [StartAt(t, label) EXCEPT !.item = s]]
    /\ Navigate(t)
    /\ UNCHANGED <<cookie, carts, gateway, orders, late>>

\* The service's answer to one attempt (external): adding to a basket that
\* was checked out is a conflict; stock and emptiness refuse for good.
CanApply(label, b, s) ==
    /\ bstate[b] = "open"
    /\ IF label = "removeItem" THEN items[b][s] > 0 ELSE items[b][s] < MaxQty

Apply(label, b, s) ==
    items' = [items EXCEPT ![b][s] = IF label = "removeItem" THEN @ - 1
                                                             ELSE @ + 1]

\* DoWithRetry after an attempt that failed in a retryable way.
RetryForever(t) ==
    req' = [req EXCEPT ![t].tries = IF @ < MaxRetries THEN @ + 1 ELSE 0]
Retry(t) ==
    IF req[t].tries < MaxRetries
    THEN req' = [req EXCEPT ![t].tries = @ + 1]
    ELSE End(t)

AfterPut == [addItem |-> "findBasket", removeItem |-> "findBasket",
             searchAdd |-> "searchFind", searchAddAgain |-> "searchFind"]

PutCall == [addItem |-> "addItem", removeItem |-> "removeItem",
            searchAdd |-> "addItem", searchAddAgain |-> "addItem"]

\* One attempt of BasketAddItem or BasketRemoveItem.  The attempt is answered,
\* or it is applied (now or later) and the answer lost, or it fails without
\* effect; these are tried again, and an add already applied is applied twice.
PutItem(t) ==
    LET label == req[t].pc
        b     == req[t].bid
        s     == req[t].item
    IN
    /\ label \in DOMAIN AfterPut
    /\ UNCHANGED <<browser, bstate, gateway, orders>>
    /\ \/ /\ b # None /\ CanApply(label, b, s)
          /\ Apply(label, b, s)
          /\ \/ req' = [req EXCEPT ![t].pc = AfterPut[label], ![t].tries = 0]
             \/ Retry(t)
          /\ UNCHANGED late
       \/ Retry(t) /\ UNCHANGED <<items, late>>
       \/ /\ b # None
          /\ TimesOut([call |-> PutCall[label], basket |-> b, item |-> s])
          /\ Retry(t) /\ UNCHANGED items
       \/ /\ b = None \/ ~CanApply(label, b, s)
          /\ IF label = "searchAdd" /\ bstate[b] = "checkedOut"
             THEN req' = [req EXCEPT ![t].pc = "searchCreate", ![t].tries = 0]
             ELSE End(t)
          /\ UNCHANGED <<items, late>>

\* AddItemFromSearch's recovery from ErrBasketCheckedOut: a fresh basket, and
\* the item is added to it instead.
SearchCreateBasket(t) ==
    /\ req[t].pc = "searchCreate"
    /\ UNCHANGED <<browser, gateway, orders, late>>
    /\ \/ \E b \in Baskets :
             /\ OpenBasket(b)
             /\ \/ \E id \in ReturnedID(b) :
                      req' = [req EXCEPT ![t].pc = "searchAddAgain",
                                         ![t].bid = id]
                \/ End(t)
       \/ End(t) /\ UNCHANGED carts

\* FindBasket, and the handlers' Save of the count (and, from the search
\* page, of the basket's id).  If it errs the cookie keeps its old values,
\* though the cart has changed.
CartAnswerOldBasket(t, c) ==
    [req[t].jar EXCEPT !.basketItems = SumQuantities(c)]
CartAnswer(t, c) == [req[t].jar EXCEPT !.basketID = req[t].bid,
                                       !.basketItems = SumQuantities(c)]

FindBasket(t) ==
    /\ req[t].pc \in {"findBasket", "searchFind"}
    /\ UNCHANGED <<page, carts, gateway, orders, late>>
    /\ \/ \E c \in Read(req[t].bid) : Answer(t, CartAnswer(t, c))
       \/ End(t) /\ UNCHANGED cookie

(* GET and POST /search: renderProductSearch saves the cookie it was sent. *)

StartSearch(t) ==
    /\ MayStart(t, "search")
    /\ req' = [req EXCEPT ![t] = StartAt(t, "search")]
    /\ Navigate(t)
    /\ UNCHANGED <<cookie, carts, gateway, orders, late>>

Search(t) ==
    /\ req[t].pc = "search"
    /\ UNCHANGED <<page, carts, gateway, orders, late>>
    /\ \/ Answer(t, req[t].jar)
       \/ End(t) /\ UNCHANGED cookie

-----------------------------------------------------------------------------
(* The services (external) *)

\* A call the client has given up takes effect after all.
Land(v) ==
    LET w == v[2] IN
    /\ late' = late \ {v}
    /\ UNCHANGED <<browser, charged, req>>
    /\ \/ /\ w.call = "confirm"
          /\ tstatus' = [tstatus EXCEPT ![w.tx] = AfterConfirm(@)]
          /\ UNCHANGED <<carts, orders>>
       \/ /\ w.call = "createOrder"
          /\ orders' = Append(orders, w.order)
          /\ UNCHANGED <<carts, tstatus>>
       \/ /\ w.call = "checkoutBasket"
          /\ bstate' = [bstate EXCEPT ![w.basket] = "checkedOut"]
          /\ UNCHANGED <<items, tstatus, orders>>
       \/ /\ w.call \in {"addItem", "removeItem"}
          /\ IF CanApply(w.call, w.basket, w.item)
             THEN Apply(w.call, w.basket, w.item)
             ELSE UNCHANGED items
          /\ UNCHANGED <<bstate, tstatus, orders>>

-----------------------------------------------------------------------------
(* The specification *)

\* A step of the application on the request of tab t.
Serve(t) ==
    \/ CheckoutRead(t) \/ CheckoutConfig(t) \/ CheckoutPost(t)
    \/ ProcessPayment(t)
    \/ ConfirmAtGateway(t) \/ ConfirmFinancials(t) \/ CreateOrder(t)
    \/ CheckoutBasket(t) \/ CreateBasket(t)
    \/ PutItem(t) \/ SearchCreateBasket(t) \/ FindBasket(t) \/ Search(t)

\* A step of the shopper in tab t.
Shopper(t) ==
    \/ StartCheckout(t) \/ StartCheckoutPost(t) \/ StartProcessPayment(t)
    \/ Pay(t) \/ CancelPayment(t)
    \/ \E x \in Txs : StartConfirm(t, x)
    \/ \E s \in Stores, l \in {"addItem", "removeItem", "searchAdd"} :
          StartCartRequest(t, l, s)
    \/ StartSearch(t)

Next ==
    \/ \E t \in Tabs : Serve(t) \/ Shopper(t)
    \/ \E x \in Txs : Reverse(x)
    \/ \E v \in late : Land(v)

Spec == Init /\ [][Next]_vars

\* Every remote call has a deadline and every retry loop a budget, so the
\* application always takes its next step; the shopper and PayPhone need not.
FairSpec == Spec /\ \A t \in Tabs : WF_vars(Serve(t))

-----------------------------------------------------------------------------
(* Properties *)

Range(s) == {s[i] : i \in DOMAIN s}

\* ConfirmPayment creates orders only on an approval: every order rests on a
\* payment that PayPhone has confirmed and will not reverse, however the
\* confirm races with the reversal and with other confirms.  It needs PayPhone
\* to say why it refuses a payment (~EmptyMessages).
OrdersOnlyForConfirmedPayments ==
    \A o \in Range(orders) : tstatus[o.tx] = "confirmed"

\* CreateOrder is single-shot: one pass through ConfirmPayment never creates
\* two orders for a store, whatever times out.
OneOrderPerStorePerConfirm ==
    \A t \in Tabs, s \in Stores : req[t].made[s] <= 1

\* A basket is only ever checked out by a confirm, perhaps one that has timed
\* out, that had already created an order for every store of the breakdown it
\* read, of that very basket and under a confirmed payment; and while it is in
\* flight, exactly one order per store.
OrderedFor(b, x, c) ==
    /\ tstatus[x] = "confirmed"
    /\ \A s \in Lines(c) :
          \E o \in Range(orders) :
             o.basket = b /\ o.store = s /\ o.qty = c[s] /\ o.tx = x

OrderedBefore(b) ==
    \/ \E t \in Tabs :
          /\ req[t].pc = "checkoutBasket" /\ req[t].bid = b
          /\ OrderedFor(b, req[t].tx, req[t].seen)
          /\ \A s \in Stores :
                req[t].made[s] = IF s \in Lines(req[t].seen) THEN 1 ELSE 0
    \/ \E v \in late :
          /\ v[2].call = "checkoutBasket" /\ v[2].basket = b
          /\ OrderedFor(b, v[2].tx, v[2].lines)

CheckoutOnlyAfterOrders ==
    [][\A b \in Baskets :
          bstate[b] = "open" /\ bstate'[b] = "checkedOut"
             => OrderedBefore(b)]_vars

\* A payment id in the cookie is always the id of the attempt the cookie is
\* at: a new checkout never runs under the payment of an earlier one, even
\* though stale responses may overwrite the cookie.
PaymentIDIsOfCurrentAttempt ==
    cookie.paymentID \in {None, cookie.clientTransactionID}

\* With one tab and no confirm URL opened twice: what a payment's orders
\* contain is what the shopper was charged for, store by store and once.
OrdersMatchCharge ==
    \A i, j \in DOMAIN orders :
       /\ orders[i].qty = charged[orders[i].tx][orders[i].store]
       /\ (orders[i].tx = orders[j].tx /\ orders[i].store = orders[j].store)
             => i = j

\* port/service.Payment.ConfirmPayment "creates one Order per store from
\* basketID's financial breakdown, checks basketID out": a store that sells
\* something in a checked-out basket has an order of it.
CheckedOutStoresHaveOrders ==
    \A b \in Baskets, s \in Stores :
       bstate[b] = "checkedOut" /\ items[b][s] > 0
          => \E o \in Range(orders) : o.basket = b /\ o.store = s

\* With one tab: everything in a checked-out basket was ordered.
CheckedOutBasketHasItsOrders ==
    \A b \in Baskets, s \in Stores :
       bstate[b] = "checkedOut" /\ items[b][s] > 0
          => \E o \in Range(orders) :
                o.basket = b /\ o.store = s /\ o.qty = items[b][s]

\* With one tab: a shopper whose cookie still points at a checked-out basket
\* gets a usable cart back from a successful /search/add.
SearchAddRecovers ==
    [][\A t \in Tabs :
          req[t].pc = "searchFind" /\ req'[t].pc = "idle"
             => \/ UNCHANGED cookie
                \/ bstate[cookie'.basketID] = "open"]_vars

\* What ConfirmPayment promises, whatever else happens to carts and cookies
\* (PaymentSaga): a run of the saga exists from the moment a confirm has read
\* the breakdown until it has checked the basket out or given up.
RunOf(r) ==
    IF r.pc \in {"createOrder", "checkoutBasket"}
    THEN [basket |-> r.bid, tx |-> r.tx, lines |-> r.seen, left |-> r.todo]
    ELSE None

Saga == INSTANCE PaymentSaga
           WITH Runs <- Tabs, NoRun <- None,
                confirmed <- {x \in Txs : tstatus[x] = "confirmed"},
                late <- {v \in late : v[2].call \in {"createOrder",
                                                    "checkoutBasket"}},
                closed <- {b \in Baskets : bstate[b] = "checkedOut"},
                run <- [t \in Tabs |-> RunOf(req[t])]

ImplementsSaga == Saga!Spec

\* orderremote.CreateOrder: no "second, fully persisted order for the same
\* checkout".
NoSecondOrderForCheckout ==
    \A i, j \in DOMAIN orders :
       (orders[i].basket = orders[j].basket /\ orders[i].store = orders[j].store)
          => i = j

\* PaymentHandler.ConfirmPayment points the session at the fresh basket so
\* that the cart does not show the order just paid for: the cookie never
\* moves (back) to a basket that is checked out.
PaidBasketNotShownAgain ==
    [][cookie'.basketID \in Baskets \ {cookie.basketID}
          => bstate[cookie'.basketID] # "checkedOut"]_vars

\* Every request the application accepts is answered.
EveryRequestAnswered == \A t \in Tabs : ~Idle(t) ~> Idle(t)

=============================================================================
