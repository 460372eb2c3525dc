---------------------------- MODULE StorefrontInv ----------------------------
(***************************************************************************)
(* The inductive invariant behind the theorems of StorefrontProofs.  The   *)
(* properties of Storefront speak of the cookie, the services and finished *)
(* orders; what makes them inductive is what a request in flight, or a     *)
(* call it left behind, knows.                                             *)
(***************************************************************************)
EXTENDS Storefront

NeedsBasket   == Labels \ {"idle", "search", "searchAddAgain"}
ConfirmLabels == {"confirm", "financials", "createOrder", "checkoutBasket",
                  "createBasket"}
CartLabels    == {"addItem", "removeItem", "searchAdd", "searchCreate",
                  "searchAddAgain"}
PastApproval  == ConfirmLabels \ {"confirm"}

\* A request past its handler's early returns has the values they check for.
RequestOK(r) ==
    /\ r.pc \in NeedsBasket => r.bid \in Baskets
    /\ r.pc \in ConfirmLabels => /\ r.tx \in Txs
                                 /\ r.jar.shippingAddressID \in Addresses
    /\ r.pc \in CartLabels => r.item \in Stores
    /\ r.pc = "createOrder" => r.todo \subseteq Lines(r.seen)
    /\ r.pc = "checkoutBasket" => r.todo = {}

\* A live widget, or one that redirects, was configured with a transaction.
PageOK(p) == p.at \in {"widget", "returning"} => p.tx \in Txs

TypeInv ==
    /\ TypeOK
    /\ \A t \in Tabs : RequestOK(req[t]) /\ PageOK(page[t])

\* Every copy of the cookie that may still be saved is at one attempt.
AttemptOK(c) == c.paymentID \in {None, c.clientTransactionID}
JarsOK       == \A t \in Tabs : AttemptOK(req[t].jar)

\* Unless PayPhone refuses with empty messages, what rests on transaction x
\* rests on a confirmed payment.
Rests(x) == ~EmptyMessages => tstatus[x] = "confirmed"

\* Every store of S, of basket b, has an order of the units c counts, under x.
HasOrders(b, x, c, S) ==
    \A s \in S :
       \E o \in Range(orders) :
          o.basket = b /\ o.store = s /\ o.qty = c[s] /\ o.tx = x

\* The stores a confirm's loop is done with.
Ordered(r) ==
    CASE r.pc = "createOrder" -> Lines(r.seen) \ r.todo
      [] r.pc \in {"checkoutBasket", "createBasket"} -> Lines(r.seen)
      [] OTHER -> {}

\* A confirm past the gateway rests on a confirmed payment, and has created
\* exactly one order for every store it is done with and none for any other.
ConfirmOK(r) ==
    /\ r.pc \in PastApproval => Rests(r.tx)
    /\ r.made = [s \in Stores |-> IF s \in Ordered(r) THEN 1 ELSE 0]
    /\ HasOrders(r.bid, r.tx, r.seen, Ordered(r))

\* A call left behind is one of a confirm that was past the gateway, and a
\* CheckoutBasket one of a confirm whose loop was complete.
LateOK(w) ==
    /\ w.call = "createOrder" => Rests(w.order.tx)
    /\ w.call = "checkoutBasket" =>
          Rests(w.tx) /\ HasOrders(w.basket, w.tx, w.lines, Lines(w.lines))

SagaInv ==
    /\ \A o \in Range(orders) : Rests(o.tx)
    /\ \A t \in Tabs : ConfirmOK(req[t])
    /\ \A v \in late : LateOK(v[2])

\* The inductive invariant, as one conjunction of its parts: the types and the
\* values every request has checked for, the attempt in the cookie and in
\* every copy of it, and what the confirms in flight, the calls they left
\* behind and the orders rest on.
IInv ==
    /\ TypeInv
    /\ PaymentIDIsOfCurrentAttempt /\ JarsOK
    /\ SagaInv
-----------------------------------------------------------------------------
(* Any number of tabs. *)

\* PayPhone's statuses once the shopper has paid or tried to.
Tried == TxStatus \ {"unused", "minted"}

\* Redirects, confirms and orders, one still under way included, are about
\* transactions on which the shopper has paid or tried to.
TriedInv ==
    /\ \A t \in Tabs :
          /\ page[t].at = "returning" => tstatus[page[t].tx] \in Tried
          /\ req[t].pc \in ConfirmLabels => tstatus[req[t].tx] \in Tried
    /\ \A o \in Range(orders) : tstatus[o.tx] \in Tried
    /\ \A v \in late : v[2].call = "createOrder" => tstatus[v[2].order.tx] \in Tried
-----------------------------------------------------------------------------
(* One tab.  The guarantees that a single careful shopper gets: no second   *)
(* request, no call that lands late, no confirm URL opened twice, and       *)
(* services that answer with bodies.                                        *)

OneTab ==
    /\ \A t, u \in Tabs : t = u
    /\ MaxLate = 0
    /\ ~Revisits /\ ~EmptyBodies

\* A transaction that has no order yet.
Unordered(x) == \A o \in Range(orders) : o.tx # x

\* Only the checkout page's own post keeps the page; a page with a widget shows
\* what is in the basket, and once it was used, what the shopper is charged.
PageOfCart(p, r) ==
    /\ r.pc \notin {"idle", "processPayment"} => p = Elsewhere
    /\ p.tx # None => p.shown = items[cookie.basketID]
    /\ p.at = "returning" => Unordered(p.tx) /\ charged[p.tx] = p.shown

\* A request works on the cookie's basket, but for the recovery of a search.
OfCookie(r) ==
    /\ r.pc # "idle" => r.jar.basketID = cookie.basketID
    /\ r.pc \notin {"idle", "searchAddAgain", "searchFind"} =>
          r.bid = cookie.basketID

\* A confirm has what was charged before it: the basket holds it, and so does
\* the breakdown once it was read; what is to be ordered has no order yet.
ConfirmsCharge(r) ==
    /\ r.pc \in ConfirmLabels => charged[r.tx] = items[r.bid]
    /\ r.pc \in {"confirm", "financials"} => Unordered(r.tx)
    /\ r.pc = "createOrder" =>
          \A o \in Range(orders) : o.tx = r.tx => o.store \notin r.todo
    /\ r.pc \in {"checkoutConfig", "createOrder", "checkoutBasket"} =>
          r.seen = items[r.bid]

\* What a tab with page p and request r relies on; an item that was added was
\* added to an open basket.
TabOK(p, r) ==
    /\ PageOfCart(p, r) /\ OfCookie(r) /\ ConfirmsCharge(r)
    /\ r.pc = "searchFind" => bstate[r.bid] = "open"

OneTabInv ==
    /\ cookie.basketID \in Baskets
    /\ \A t \in Tabs : TabOK(page[t], req[t])
    /\ OrdersMatchCharge
    /\ CheckedOutBasketHasItsOrders
=============================================================================
