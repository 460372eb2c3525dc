----------------------------- MODULE OneTabProofs -----------------------------
(***************************************************************************)
(* Theorems about one careful shopper: with one tab, no late effects, no   *)
(* answer without a body and no confirm URL opened twice, what is ordered  *)
(* is what was charged, a basket that is checked out was ordered           *)
(* completely, and adding from the search page gives a usable cart back.   *)
(* Before that, for any number of tabs, what is confirmed or ordered is    *)
(* about transactions on which somebody tried to pay.                      *)
(***************************************************************************)
EXTENDS PaymentProofs

-----------------------------------------------------------------------------
(* Any number of tabs: nobody confirms, and nothing is ordered under, a        *)
(* transaction on which the shopper has not tried to pay.                      *)

\* The transaction of an order is one of the gateway's.
LEMMA OrderTx ==
    ASSUME TypeInv, NEW o \in Range(orders)
    PROVE  o.tx \in Txs
<1>1. Range(orders) \subseteq Order
  BY DEF TypeInv, TypeOK, Range
<1> QED
  BY <1>1 DEF Order

\* No transaction goes back to where nobody had tried to pay.
StaysTried == \A x \in Txs : tstatus[x] \in Tried => tstatus'[x] \in Tried

\* A step keeps TriedInv if what it adds is about transactions that were tried.
LEMMA TriedStep ==
    ASSUME TypeInv, TriedInv, StaysTried,
           \A u \in Tabs :
              \/ page'[u] = page[u] \/ page'[u].at # "returning"
              \/ tstatus'[page'[u].tx] \in Tried,
           \A u \in Tabs :
              \/ req'[u].pc \notin ConfirmLabels
              \/ req[u].pc \in ConfirmLabels /\ req'[u].tx = req[u].tx
              \/ tstatus'[req'[u].tx] \in Tried,
           \A o \in Range(orders') : o \in Range(orders) \/ tstatus'[o.tx] \in Tried,
           \A v \in late' : \/ v \in late \/ v[2].call # "createOrder"
                            \/ tstatus'[v[2].order.tx] \in Tried
    PROVE  TriedInv'
<1>1. ASSUME NEW u \in Tabs
      PROVE  /\ page'[u].at = "returning" => tstatus'[page'[u].tx] \in Tried
             /\ req'[u].pc \in ConfirmLabels => tstatus'[req'[u].tx] \in Tried
  BY TabType DEF TriedInv, StaysTried, PageOK, RequestOK
<1>2. ASSUME NEW o \in Range(orders')
      PROVE  tstatus'[o.tx] \in Tried
  <2>1. o \in Range(orders) => o.tx \in Txs
    BY OrderTx
  <2> QED
    BY <1>2, <2>1 DEF TriedInv, StaysTried
<1>3. ASSUME NEW v \in late', v[2].call = "createOrder"
      PROVE  tstatus'[v[2].order.tx] \in Tried
  <2>1. v \in late => v[2].order.tx \in Txs
    BY <1>3 DEF TypeInv, TypeOK, LateCall, Order
  <2> QED
    BY <1>3, <2>1 DEF TriedInv, StaysTried
<1> QED
  BY <1>1, <1>2, <1>3 DEF TriedInv

\* The step of tab t leaves its request outside a confirm, or in the same one,
\* and its page without a redirect that was not there.
LEMMA TriedTab ==
    ASSUME TypeInv, TriedInv, NEW t \in Tabs, StaysTried, UNCHANGED orders,
           \E r : /\ req' = [req EXCEPT ![t] = r]
                  /\ \/ r.pc \notin ConfirmLabels
                     \/ req[t].pc \in ConfirmLabels /\ r.tx = req[t].tx
                     \/ tstatus'[r.tx] \in Tried,
           \/ UNCHANGED page
           \/ \E p : page' = [page EXCEPT ![t] = p] /\ p.at # "returning",
           \A v \in late' : v \in late \/ v[2].call # "createOrder"
    PROVE  TriedInv'
<1>1. \A u \in Tabs :
         \/ page'[u] = page[u] \/ page'[u].at # "returning"
         \/ tstatus'[page'[u].tx] \in Tried
  BY DEF TypeInv, TypeOK
<1>2. \A u \in Tabs :
         \/ req'[u].pc \notin ConfirmLabels
         \/ req[u].pc \in ConfirmLabels /\ req'[u].tx = req[u].tx
         \/ tstatus'[req'[u].tx] \in Tried
  <2>1. PICK r : /\ req' = [req EXCEPT ![t] = r]
                 /\ \/ r.pc \notin ConfirmLabels
                    \/ req[t].pc \in ConfirmLabels /\ r.tx = req[t].tx
                    \/ tstatus'[r.tx] \in Tried
    OBVIOUS
  <2>2. req'[t] = r /\ \A u \in Tabs \ {t} : req'[u] = req[u]
    BY <2>1 DEF TypeInv, TypeOK
  <2>3. ASSUME NEW u \in Tabs \ {t}, req'[u].pc \in ConfirmLabels
        PROVE  req[u].pc \in ConfirmLabels /\ req'[u].tx = req[u].tx
    BY <2>2, <2>3
  <2> QED
    BY <2>1, <2>2, <2>3
<1> QED
  BY <1>1, <1>2, TriedStep

\* Nothing of a blank request, page or new request is a confirm.
LEMMA Blank ==
    /\ NoRequest.pc \notin ConfirmLabels /\ Elsewhere.at # "returning"
    /\ \A t, l : StartAt(t, l).pc = l
BY DEF NoRequest, Elsewhere, ConfirmLabels, StartAt

\* The shopper's steps: a payment is tried before the redirect that it causes.
LEMMA ShopperTried ==
    ASSUME TypeInv, TriedInv, NEW t \in Tabs, Shopper(t)
    PROVE  TriedInv'
<1>1. CASE Pay(t)
  <2> DEFINE x == page[t].tx
  <2>1. page[t] \in Page /\ x \in Txs
    BY <1>1, TabType DEF Pay, PageOK
  <2>2. tstatus'[x] \in Tried /\ StaysTried
    BY <1>1, <2>1 DEF Pay, StaysTried, Tried, TxStatus, TypeInv, TypeOK
  <2>3. page'[t].tx = x /\ \A u \in Tabs \ {t} : page'[u] = page[u]
    BY <1>1, <2>1 DEF Pay, Page, TypeInv, TypeOK
  <2>4. UNCHANGED <<orders, late, req>>
    BY <1>1 DEF Pay
  <2> HIDE DEF x
  <2>5. \A u \in Tabs :
           \/ page'[u] = page[u] \/ page'[u].at # "returning"
           \/ tstatus'[page'[u].tx] \in Tried
    BY <2>2, <2>3
  <2> QED
    BY <2>2, <2>4, <2>5, TriedStep
<1>2. CASE CancelPayment(t)
  BY <1>2, Blank, TriedStep
     DEF CancelPayment, Navigate, gateway, StaysTried, TypeInv, TypeOK
<1>3. ASSUME NEW x \in Txs, StartConfirm(t, x)
      PROVE  TriedInv'
  <2> DEFINE r == [StartAt(t, "confirm") EXCEPT !.tx = x]
  <2>1. tstatus[x] \in Tried
    BY <1>3 DEF StartConfirm, ReachesConfirm, TriedInv, Tried, TypeInv, TypeOK
  <2>2. r.tx = x /\ req' = [req EXCEPT ![t] = r]
    BY <1>3 DEF StartConfirm, StartAt, NoRequest
  <2>3. /\ UNCHANGED <<tstatus, orders, late>>
        /\ page' = [page EXCEPT ![t] = Elsewhere]
    BY <1>3 DEF StartConfirm, gateway, Navigate
  <2> HIDE DEF r
  <2> QED
    BY <2>1, <2>2, <2>3, Blank, TriedTab DEF StaysTried
<1>4. CASE ~(Pay(t) \/ CancelPayment(t) \/ \E x \in Txs : StartConfirm(t, x))
  <2>1. /\ UNCHANGED <<tstatus, orders, late>>
        /\ UNCHANGED page \/ page' = [page EXCEPT ![t] = Elsewhere]
    BY <1>4 DEF Shopper, StartCheckout, StartCheckoutPost, StartSearch,
       StartProcessPayment, StartCartRequest, gateway, browser, Navigate
  <2>2. \E r : req' = [req EXCEPT ![t] = r] /\ r.pc \notin ConfirmLabels
    <3>1. ASSUME NEW l \in {"checkout", "checkoutPost", "search"},
                 req' = [req EXCEPT ![t] = StartAt(t, l)]
          PROVE  \E r : req' = [req EXCEPT ![t] = r] /\ r.pc \notin ConfirmLabels
      BY <3>1, Blank DEF ConfirmLabels
    <3>2. ASSUME NEW a \in Addresses,
                 req' = [req EXCEPT ![t] = [StartAt(t, "processPayment")
                                              EXCEPT !.jar.shippingAddressID = a]]
          PROVE  \E r : req' = [req EXCEPT ![t] = r] /\ r.pc \notin ConfirmLabels
      <4> DEFINE r == [StartAt(t, "processPayment") EXCEPT !.jar.shippingAddressID = a]
      <4>1. r.pc = "processPayment"
        BY DEF StartAt, NoRequest
      <4> QED
        BY <3>2, <4>1 DEF ConfirmLabels
    <3>3. ASSUME NEW s \in Stores, NEW l \in {"addItem", "removeItem", "searchAdd"},
                 req' = [req EXCEPT ![t] = [StartAt(t, l) EXCEPT !.item = s]]
          PROVE  \E r : req' = [req EXCEPT ![t] = r] /\ r.pc \notin ConfirmLabels
      <4> DEFINE r == [StartAt(t, l) EXCEPT !.item = s]
      <4>1. r.pc = l
        BY DEF StartAt, NoRequest
      <4> QED
        BY <3>3, <4>1 DEF ConfirmLabels
    <3> QED
      BY <1>4, <3>1, <3>2, <3>3 DEF Shopper, StartCheckout, StartCheckoutPost,
         StartSearch, StartProcessPayment, StartCartRequest
  <2> QED
    BY <2>1, <2>2, Blank, TriedTab DEF StaysTried
<1> QED
  BY <1>1, <1>2, <1>3, <1>4

\* The requests outside a confirm stay outside.
LEMMA ServeOutsideTried ==
    ASSUME TypeInv, TriedInv, NEW t \in Tabs,
           \/ CheckoutRead(t) \/ CheckoutConfig(t) \/ CheckoutPost(t)
           \/ ProcessPayment(t)
           \/ PutItem(t) \/ SearchCreateBasket(t) \/ FindBasket(t) \/ Search(t)
    PROVE  TriedInv'
<1> DEFINE Leaves(p) == page' = [page EXCEPT ![t] = p] /\ p.at # "returning"
           Becomes(r) == req' = [req EXCEPT ![t] = r] /\ r.pc \notin ConfirmLabels
<1>1. req[t] \in Request /\ page[t] \in Page /\ PageOK(page[t])
  BY TabType
<1>2. UNCHANGED orders
  BY DEF CheckoutRead, CheckoutConfig, CheckoutPost, ProcessPayment, PutItem,
         SearchCreateBasket, FindBasket, Search
<1>3. StaysTried
  <2>1. (\E x \in Txs : Fresh(x) /\ Mint(x)) \/ UNCHANGED tstatus
    BY DEF CheckoutRead, CheckoutConfig, CheckoutPost, ProcessPayment, PutItem,
           SearchCreateBasket, FindBasket, Search, gateway
  <2> QED
    BY <2>1 DEF StaysTried, Fresh, Mint, Tried, TypeInv, TypeOK
<1>4. \A v \in late' : v \in late \/ v[2].call # "createOrder"
  <2>1. ASSUME PutItem(t)
        PROVE  \A v \in late' : v \in late \/ v[2].call # "createOrder"
    BY <2>1, TimesOutAdds DEF PutItem, PutCall, AfterPut
  <2> QED
    BY <2>1 DEF CheckoutRead, CheckoutConfig, CheckoutPost, ProcessPayment,
                SearchCreateBasket, FindBasket, Search
<1>5. UNCHANGED page \/ \E p : Leaves(p)
  <2>1. CASE CheckoutRead(t)
    <3>1. [Elsewhere EXCEPT !.at = "checkout"].at # "returning"
      BY DEF Elsewhere
    <3> QED
      BY <2>1, <3>1 DEF CheckoutRead, Fail, browser
  <2>2. CASE CheckoutConfig(t) \/ CheckoutPost(t)
    <3>1. \/ UNCHANGED page
          \/ \E x, c : page' = [page EXCEPT ![t] = [at |-> "checkout", tx |-> x,
                                                    shown |-> c]]
      BY <2>2 DEF CheckoutConfig, CheckoutPost, Fail, browser
    <3>2. ASSUME NEW x, NEW c
          PROVE  [at |-> "checkout", tx |-> x, shown |-> c].at # "returning"
      OBVIOUS
    <3> QED
      BY <3>1, <3>2
  <2>3. ASSUME ProcessPayment(t), page' = [page EXCEPT ![t] = InitializePayPhone(@)]
        PROVE  \E p : Leaves(p)
    <3> DEFINE p == InitializePayPhone(page[t])
    <3>1. CASE page[t].at # "returning"
      <4>1. p.at # "returning"
        BY <1>1, <3>1 DEF InitializePayPhone, Page
      <4> QED
        BY <2>3, <4>1
    <3>2. CASE page[t].at = "returning"
      <4>1. page[t].tx # None
        BY <1>1, <3>2, ConstantsAssumption DEF PageOK
      <4>2. p.at # "returning"
        BY <1>1, <4>1 DEF InitializePayPhone, Page
      <4> QED
        BY <2>3, <4>2
    <3> QED
      BY <3>1, <3>2
  <2> QED
    BY <2>1, <2>2, <2>3 DEF ProcessPayment, PutItem, SearchCreateBasket, FindBasket,
       Search, browser
<1>6. \E r : Becomes(r)
  <2>1. ASSUME End(t) PROVE \E r : Becomes(r)
    BY <2>1, Blank DEF End
  <2>2. CASE CheckoutRead(t)
    <3>1. ASSUME NEW c, NEW x, NEW k,
                 req' = [req EXCEPT ![t].pc = "checkoutConfig", ![t].tx = x,
                                    ![t].seen = c, ![t].jar = k]
          PROVE  \E r : Becomes(r)
      <4> DEFINE r == [req[t] EXCEPT !.pc = "checkoutConfig", !.tx = x, !.seen = c,
                                     !.jar = k]
      <4>1. r.pc \notin ConfirmLabels
        BY <1>1 DEF Request, ConfirmLabels
      <4>2. req' = [req EXCEPT ![t] = r]
        BY <3>1
      <4> QED
        BY <4>1, <4>2
    <3> QED
      BY <2>1, <2>2, <3>1 DEF CheckoutRead, Fail
  <2>3. CASE PutItem(t)
    <3>1. req[t].pc \notin ConfirmLabels /\ AfterPut[req[t].pc] \notin ConfirmLabels
          /\ "searchCreate" \notin ConfirmLabels
      BY <2>3 DEF PutItem, AfterPut, ConfirmLabels
    <3>2. ASSUME NEW l, l \notin ConfirmLabels, NEW n,
                 req' = [req EXCEPT ![t].pc = l, ![t].tries = n]
          PROVE  \E r : Becomes(r)
      <4> DEFINE r == [req[t] EXCEPT !.pc = l, !.tries = n]
      <4>1. r.pc \notin ConfirmLabels
        BY <1>1, <3>2 DEF Request
      <4>2. req' = [req EXCEPT ![t] = r]
        BY <3>2
      <4> QED
        BY <4>1, <4>2
    <3>3. ASSUME Retry(t)
          PROVE  \E r : Becomes(r)
      <4> DEFINE r == [req[t] EXCEPT !.tries = @ + 1]
      <4>1. r.pc \notin ConfirmLabels
        BY <1>1, <3>1 DEF Request
      <4>2. req' = [req EXCEPT ![t] = r] \/ End(t)
        BY <3>3 DEF Retry
      <4> QED
        BY <2>1, <4>1, <4>2
    <3>4. \/ \E l, n : /\ l \notin ConfirmLabels
                       /\ req' = [req EXCEPT ![t].pc = l, ![t].tries = n]
          \/ Retry(t)
          \/ End(t)
      BY <2>3, <3>1, Zenon DEF PutItem
    <3> QED
      BY <2>1, <3>2, <3>3, <3>4, Zenon
  <2>4. CASE SearchCreateBasket(t)
    <3>1. ASSUME NEW id, req' = [req EXCEPT ![t].pc = "searchAddAgain", ![t].bid = id]
          PROVE  \E r : Becomes(r)
      <4> DEFINE r == [req[t] EXCEPT !.pc = "searchAddAgain", !.bid = id]
      <4>1. r.pc \notin ConfirmLabels
        BY <1>1 DEF Request, ConfirmLabels
      <4>2. req' = [req EXCEPT ![t] = r]
        BY <3>1
      <4> QED
        BY <4>1, <4>2
    <3> QED
      BY <2>1, <2>4, <3>1 DEF SearchCreateBasket
  <2> QED
    BY <2>1, <2>2, <2>3, <2>4 DEF CheckoutConfig, CheckoutPost, ProcessPayment,
       FindBasket, Search, Fail, Answer
<1> QED
  BY <1>2, <1>3, <1>4, <1>5, <1>6, TriedTab

\* A confirm stays with its transaction, and so do its orders, early or late.
LEMMA ConfirmTried ==
    ASSUME TypeInv, TriedInv, NEW t \in Tabs,
           \/ ConfirmAtGateway(t) \/ ConfirmFinancials(t) \/ CreateOrder(t)
           \/ CheckoutBasket(t) \/ CreateBasket(t)
    PROVE  TriedInv'
<1> DEFINE x == req[t].tx
<1>1. /\ req[t] \in Request /\ req[t].pc \in ConfirmLabels /\ x \in Txs
      /\ tstatus[x] \in Tried
  BY TabType DEF ConfirmAtGateway, ConfirmFinancials, CreateOrder, CheckoutBasket,
     CreateBasket, RequestOK, ConfirmLabels, TriedInv
<1>2. StaysTried
  <2>1. UNCHANGED tstatus \/ tstatus' = [tstatus EXCEPT ![x] = AfterConfirm(tstatus[x])]
    BY DEF ConfirmAtGateway, ConfirmFinancials, CreateOrder, CheckoutBasket,
           CreateBasket, gateway
  <2> QED
    BY <1>1, <2>1 DEF StaysTried, AfterConfirm, Tried, TxStatus, TypeInv, TypeOK
<1>3. tstatus'[x] \in Tried
  BY <1>1, <1>2 DEF StaysTried
<1>4. page' = page \/ \A u \in Tabs : page'[u] = page[u]
  BY DEF ConfirmAtGateway, ConfirmFinancials, CreateOrder, CheckoutBasket,
         CreateBasket, browser
<1>5. \A u \in Tabs :
         \/ req'[u].pc \notin ConfirmLabels
         \/ req[u].pc \in ConfirmLabels /\ req'[u].tx = req[u].tx
  <2>1. \A u \in Tabs \ {t} : req'[u] = req[u]
    BY DEF ConfirmAtGateway, ConfirmFinancials, CreateOrder, CheckoutBasket,
           CreateBasket, AfterLostOrder, Goto, End, Answer, TypeInv, TypeOK
  <2>2. req'[t].pc \notin ConfirmLabels \/ req'[t].tx = x
    <3>1. End(t) => req'[t].pc \notin ConfirmLabels
      BY Blank DEF End, TypeInv, TypeOK
    <3>2. ASSUME NEW l, Goto(t, l)
          PROVE  req'[t].tx = x
      BY <1>1, <3>2 DEF Goto, Request, TypeInv, TypeOK
    <3>3. CASE ConfirmFinancials(t)
      <4>1. ASSUME NEW l, NEW c, req' = [req EXCEPT ![t].pc = l, ![t].seen = c,
                                                    ![t].todo = Lines(c)]
            PROVE  req'[t].tx = x
        BY <1>1, <4>1 DEF Request, TypeInv, TypeOK
      <4> QED
        BY <3>1, <3>3, <4>1, Zenon DEF ConfirmFinancials
    <3>4. CASE CreateOrder(t)
      <4>1. ASSUME NEW s, req' = [req EXCEPT ![t].pc = AfterOrder(t, s),
                                              ![t].todo = @ \ {s},
                                              ![t].made[s] = @ + 1]
            PROVE  req'[t].tx = x
        BY <1>1, <4>1 DEF Request, TypeInv, TypeOK
      <4> QED
        BY <3>1, <3>4, <4>1 DEF CreateOrder, AfterLostOrder
    <3> QED
      BY <3>1, <3>2, <3>3, <3>4
         DEF ConfirmAtGateway, CheckoutBasket, CreateBasket, Answer
  <2> QED
    BY <1>1, <2>1, <2>2
<1>6. \A o \in Range(orders') : o \in Range(orders) \/ o.tx = x
  <2>1. CASE CreateOrder(t)
    <3>1. ASSUME NEW s \in req[t].todo, orders' = Append(orders, NewOrder(t, s))
          PROVE  \A o \in Range(orders') : o \in Range(orders) \/ o.tx = x
      <4>1. NewOrder(t, s) \in Order /\ orders \in Seq(Order)
        BY <2>1, NewOrderType DEF CreateOrder, TypeInv, TypeOK
      <4> HIDE DEF x
      <4>2. Range(orders') = Range(orders) \cup {NewOrder(t, s)}
        BY <3>1, <4>1, AppendType
      <4> QED
        BY <4>2 DEF NewOrder, x
    <3> QED
      BY <2>1, <3>1 DEF CreateOrder
  <2> QED
    BY <2>1 DEF ConfirmAtGateway, ConfirmFinancials, CheckoutBasket, CreateBasket
<1>7. \A v \in late' : \/ v \in late \/ v[2].call # "createOrder"
                       \/ v[2].order.tx = x
  <2>1. ASSUME NEW w, TimesOut(w), w.call # "createOrder" \/ w.order.tx = x
        PROVE  \A v \in late' : \/ v \in late \/ v[2].call # "createOrder"
                                \/ v[2].order.tx = x
    BY <2>1, TimesOutAdds
  <2>2. CASE CreateOrder(t)
    <3>1. ASSUME NEW s, TimesOut([call |-> "createOrder", order |-> NewOrder(t, s)])
          PROVE  \A v \in late' : \/ v \in late \/ v[2].call # "createOrder"
                                  \/ v[2].order.tx = x
      BY <2>1, <3>1 DEF NewOrder
    <3> QED
      BY <2>2, <3>1 DEF CreateOrder
  <2> QED
    BY <2>1, <2>2 DEF ConfirmAtGateway, ConfirmFinancials, CheckoutBasket, CreateBasket
<1> HIDE DEF x
<1> QED
  BY <1>2, <1>3, <1>4, <1>5, <1>6, <1>7, TriedStep

\* A call left behind takes effect.
LEMMA LandTried ==
    ASSUME TypeInv, TriedInv, NEW v \in late, Land(v)
    PROVE  TriedInv'
<1> DEFINE w == v[2]
<1>1. /\ late' \subseteq late /\ UNCHANGED <<page, req>> /\ w \in LateCall
      /\ orders \in Seq(Order) /\ tstatus \in [Txs -> TxStatus]
  BY DEF Land, browser, TypeInv, TypeOK
<1>2. CASE UNCHANGED <<orders, tstatus>>
  BY <1>1, <1>2, TriedStep DEF StaysTried
<1>3. CASE /\ w.call = "confirm" /\ UNCHANGED orders
           /\ tstatus' = [tstatus EXCEPT ![w.tx] = AfterConfirm(@)]
  <2>1. StaysTried
    BY <1>1, <1>3 DEF StaysTried, AfterConfirm, Tried, TxStatus
  <2> QED
    BY <1>1, <1>3, <2>1, TriedStep
<1>4. CASE /\ w.call = "createOrder" /\ UNCHANGED tstatus
           /\ orders' = Append(orders, w.order)
  <2>1. w.order \in Order /\ tstatus[w.order.tx] \in Tried
    BY <1>1, <1>4 DEF LateCall, TriedInv
  <2>2. Range(orders') = Range(orders) \cup {w.order}
    BY <1>1, <1>4, <2>1, AppendType
  <2> QED
    BY <1>1, <1>4, <2>1, <2>2, TriedStep DEF StaysTried
<1> QED
  BY <1>2, <1>3, <1>4 DEF Land, carts

\* Every step keeps it.
LEMMA NextTried == TypeInv /\ TriedInv /\ [Next]_vars => TriedInv'
<1> SUFFICES ASSUME TypeInv, TriedInv, [Next]_vars
             PROVE  TriedInv'
  OBVIOUS
<1>1. ASSUME NEW t \in Tabs, Serve(t)
      PROVE  TriedInv'
  BY <1>1, ServeOutsideTried, ConfirmTried DEF Serve
<1>2. ASSUME NEW x \in Txs, Reverse(x)
      PROVE  TriedInv'
  BY <1>2, TriedStep
     DEF Reverse, browser, StaysTried, Tried, TxStatus, TypeInv, TypeOK
<1>3. CASE UNCHANGED vars
  BY <1>3, TriedStep DEF vars, StaysTried
<1> QED
  BY <1>1, <1>2, <1>3, ShopperTried, LandTried DEF Next

\* Orders, confirms and redirects are about payments that were tried: nothing is
\* ordered under a transaction that no shopper has used in the widget, whatever
\* races, fails, lands late or is opened again (payment.go ConfirmPayment).
THEOREM NothingUntried == Spec => []TriedInv
<1>1. Init => TriedInv
  <2> SUFFICES ASSUME Init
               PROVE  TriedInv
    OBVIOUS
  <2>1. /\ orders = << >> /\ late = {} /\ req = [t \in Tabs |-> NoRequest]
        /\ page = [t \in Tabs |-> Elsewhere]
    BY Zenon DEF Init
  <2>2. Range(orders) = {}
    BY <2>1 DEF Range
  <2> QED
    BY <2>1, <2>2, Blank DEF TriedInv
<1>2. Spec => []IInv
  BY InductiveInvariant
<1>3. IInv => TypeInv
  BY DEF IInv
<1> QED
  BY <1>1, <1>2, <1>3, NextTried, PTL DEF Spec

-----------------------------------------------------------------------------
(* One tab. *)

\* The charge of no order changes and no order is added.
LEMMA OrdersKept ==
    ASSUME OrdersMatchCharge, orders \in Seq(Order), UNCHANGED orders,
           \A o \in Range(orders) : charged'[o.tx] = charged[o.tx]
    PROVE  OrdersMatchCharge'
BY DEF OrdersMatchCharge, Range

\* No order is taken back, no basket is checked out, and those that were keep
\* what is in them.
LEMMA CheckedOutKept ==
    ASSUME CheckedOutBasketHasItsOrders, Range(orders) \subseteq Range(orders'),
           \A b \in Baskets : bstate'[b] = "checkedOut" =>
              bstate[b] = "checkedOut" /\ items'[b] = items[b]
    PROVE  CheckedOutBasketHasItsOrders'
BY DEF CheckedOutBasketHasItsOrders

\* Carts, charges and orders stay: so do the promises about orders.
LEMMA PromisesKept ==
    ASSUME OneTabInv, TypeInv, UNCHANGED <<bstate, items, charged, orders>>
    PROVE  OrdersMatchCharge' /\ CheckedOutBasketHasItsOrders'
BY OrdersKept, CheckedOutKept DEF OneTabInv, TypeInv, TypeOK

\* The tab that takes a step is the only one.
LEMMA OnlyTab ==
    ASSUME OneTab, NEW t \in Tabs, TabOK(page[t], req[t])',
           cookie'.basketID \in Baskets,
           OrdersMatchCharge', CheckedOutBasketHasItsOrders'
    PROVE  OneTabInv'
BY DEF OneTab, OneTabInv

\* Nothing is under way that the client has given up.
LEMMA NothingLate ==
    ASSUME OneTab, TypeInv
    PROVE  late = {} /\ \A w : ~TimesOut(w)
<1>1. Copies = {}
  BY DEF OneTab, Copies
<1> QED
  BY <1>1 DEF TypeInv, TypeOK, TimesOut

\* A tab that is idle and shows no checkout page relies on nothing.
LEMMA IdleElsewhere ==
    /\ TabOK(Elsewhere, NoRequest) /\ TabOK(Elsewhere, NoRequest)'
    /\ Elsewhere.tx = None /\ Elsewhere.at = "elsewhere" /\ NoRequest.pc = "idle"
BY DEF TabOK, PageOfCart, OfCookie, ConfirmsCharge, Elsewhere, NoRequest,
       ConfirmLabels

\* The page and the request that a step leaves behind.
LEMMA TabAfter ==
    ASSUME TypeInv, NEW t \in Tabs
    PROVE  /\ \A r : req' = [req EXCEPT ![t] = r] => req'[t] = r
           /\ \A p : page' = [page EXCEPT ![t] = p] => page'[t] = p
           /\ End(t) => req'[t] = NoRequest
           /\ Navigate(t) => page'[t] = Elsewhere
BY DEF TypeInv, TypeOK, End, Navigate

-----------------------------------------------------------------------------
(* The shopper. *)

\* A request that is sent works on the cookie and its basket.
LEMMA Sent ==
    ASSUME NEW l, NEW t \in Tabs
    PROVE  /\ StartAt(t, l).pc = l /\ StartAt(t, l).jar = cookie
           /\ StartAt(t, l).bid = cookie.basketID
           /\ StartAt(t, l) = [NoRequest EXCEPT !.pc = l, !.jar = cookie,
                                                !.bid = cookie.basketID]
BY DEF StartAt, NoRequest

\* The labels of requests that were just sent, but for a confirm.
Starting == {"checkout", "checkoutPost", "processPayment", "addItem",
             "removeItem", "searchAdd", "search"}

\* A request, just sent, from a page that it leaves (or that it may keep).
LEMMA SentOK ==
    ASSUME NEW t \in Tabs, NEW p, NEW r, r.pc \in Starting,
           r.jar.basketID = cookie.basketID, r.bid = cookie.basketID,
           \/ p = Elsewhere
           \/ r.pc = "processPayment" /\ p = page[t] /\ TabOK(p, req[t])
    PROVE  TabOK(p, r)
BY IdleElsewhere
   DEF TabOK, PageOfCart, OfCookie, ConfirmsCharge, ConfirmLabels, Starting

\* Steps that change neither carts nor charges nor orders, nor the basket of
\* the cookie, leave a tab as it was.
Unmoved ==
    /\ UNCHANGED <<bstate, items, charged, orders>>
    /\ cookie'.basketID = cookie.basketID

\* A tab that is in order stays so when nothing it relies on moves.
LEMMA UnmovedOK ==
    ASSUME Unmoved, NEW p, NEW r, TabOK(p, r)
    PROVE  TabOK(p, r)'
BY DEF Unmoved, TabOK, PageOfCart, OfCookie, ConfirmsCharge, Unordered

\* ... and so the whole invariant, if the tab that acts is left in order.
LEMMA UnmovedInv ==
    ASSUME OneTab, OneTabInv, TypeInv, Unmoved, NEW t \in Tabs,
           NEW p, NEW r, page'[t] = p, req'[t] = r, TabOK(p, r)
    PROVE  OneTabInv'
<1>1. TabOK(page[t], req[t])'
  BY UnmovedOK DEF TabOK, PageOfCart, OfCookie, ConfirmsCharge
<1> QED
  BY <1>1, PromisesKept, OnlyTab DEF Unmoved, OneTabInv

\* The requests that begin with a copy of the cookie and change nothing else.
LEMMA StartsOneTab ==
    ASSUME OneTab, OneTabInv, TypeInv, NEW t \in Tabs,
           \/ StartCheckout(t) \/ StartCheckoutPost(t) \/ StartSearch(t)
           \/ StartProcessPayment(t)
           \/ \E s \in Stores, l \in {"addItem", "removeItem", "searchAdd"} :
                 StartCartRequest(t, l, s)
    PROVE  OneTabInv'
<1>1. Unmoved
  BY DEF Unmoved, StartCheckout, StartCheckoutPost, StartSearch, StartCartRequest,
         StartProcessPayment, carts, gateway, browser
<1>2. CASE StartCheckout(t) \/ StartCheckoutPost(t) \/ StartSearch(t)
  <2>1. PICK l \in {"checkout", "checkoutPost", "search"} :
           req' = [req EXCEPT ![t] = StartAt(t, l)] /\ Navigate(t)
    BY <1>2 DEF StartCheckout, StartCheckoutPost, StartSearch
  <2>2. TabOK(Elsewhere, StartAt(t, l))
    <3>1. l \in Starting
      BY DEF Starting
    <3> QED
      BY <3>1, Sent, SentOK
  <2> QED
    BY <1>1, <2>1, <2>2, TabAfter, UnmovedInv
<1>3. ASSUME NEW s \in Stores, NEW l \in {"addItem", "removeItem", "searchAdd"},
             StartCartRequest(t, l, s)
      PROVE  OneTabInv'
  <2> DEFINE r == [StartAt(t, l) EXCEPT !.item = s]
  <2>1. r.pc \in Starting /\ r.jar.basketID = cookie.basketID
        /\ r.bid = cookie.basketID
    BY DEF Starting, StartAt, NoRequest
  <2>2. req' = [req EXCEPT ![t] = r] /\ Navigate(t)
    BY <1>3 DEF StartCartRequest
  <2> HIDE DEF r
  <2>3. TabOK(Elsewhere, r)
    BY <2>1, SentOK
  <2> QED
    BY <1>1, <2>2, <2>3, TabAfter, UnmovedInv
<1>4. CASE StartProcessPayment(t)
  <2>1. PICK a \in Addresses :
           req' = [req EXCEPT ![t] = [StartAt(t, "processPayment")
                                        EXCEPT !.jar.shippingAddressID = a]]
    BY <1>4 DEF StartProcessPayment
  <2> DEFINE r == [StartAt(t, "processPayment") EXCEPT !.jar.shippingAddressID = a]
  <2>2. r.pc = "processPayment" /\ r.jar.basketID = cookie.basketID
        /\ r.bid = cookie.basketID
    BY DEF StartAt, NoRequest, TypeInv, TypeOK, Cookie
  <2>3. req' = [req EXCEPT ![t] = r] /\ page'[t] = page[t]
    BY <1>4, <2>1 DEF StartProcessPayment, browser
  <2> HIDE DEF r
  <2>4. TabOK(page[t], r)
    BY <2>2, SentOK DEF Starting, OneTabInv
  <2> QED
    BY <1>1, <2>3, <2>4, TabAfter, UnmovedInv
<1> QED
  BY <1>2, <1>3, <1>4

\* A confirm starts from the page of a payment, before anyone confirmed it.
LEMMA StartConfirmOneTab ==
    ASSUME OneTab, OneTabInv, TypeInv, NEW t \in Tabs, NEW x \in Txs,
           StartConfirm(t, x)
    PROVE  OneTabInv'
<1> DEFINE r == [StartAt(t, "confirm") EXCEPT !.tx = x]
<1>1. Unmoved
  BY DEF Unmoved, StartConfirm, carts, gateway
<1>2. page[t].at = "returning" /\ page[t].tx = x
  BY DEF StartConfirm, ReachesConfirm, OneTab
<1>3. x # None
  BY ConstantsAssumption
<1>4. Unordered(x) /\ charged[x] = items[cookie.basketID]
  BY <1>2, <1>3 DEF OneTabInv, TabOK, PageOfCart
<1>5. r.pc = "confirm" /\ r.jar = cookie /\ r.bid = cookie.basketID /\ r.tx = x
  BY DEF StartAt, NoRequest
<1>6. req' = [req EXCEPT ![t] = r] /\ Navigate(t)
  BY DEF StartConfirm
<1> HIDE DEF r
<1>7. TabOK(Elsewhere, r)
  BY <1>4, <1>5, IdleElsewhere DEF TabOK, PageOfCart, OfCookie, ConfirmsCharge
<1> QED
  BY <1>1, <1>6, <1>7, TabAfter, UnmovedInv

\* A payment is charged with what the page shows; it has no order, since nothing
\* is ordered under a transaction that nobody has tried to pay.
LEMMA PayOneTab ==
    ASSUME OneTab, OneTabInv, TypeInv, TriedInv, NEW t \in Tabs, Pay(t)
    PROVE  OneTabInv'
<1> DEFINE x == page[t].tx
           p == [page[t] EXCEPT !.at = "returning"]
<1>1. /\ page[t] \in Page /\ x \in Txs /\ x # None
  BY TabType, ConstantsAssumption DEF Pay, PageOK
<1>2. /\ tstatus[x] = "minted" /\ charged'[x] = page[t].shown
      /\ \A y \in Txs \ {x} : charged'[y] = charged[y]
      /\ UNCHANGED <<cookie, bstate, items, orders>>
      /\ req'[t] = req[t] /\ req[t].pc = "idle" /\ page'[t] = p
  BY <1>1 DEF Pay, TypeInv, TypeOK, Idle, carts
<1>3. p.tx = x /\ p.shown = page[t].shown /\ p.at = "returning"
  BY <1>1 DEF Page
<1> HIDE DEF p
<1>4. TabOK(page[t], req[t]) /\ cookie.basketID \in Baskets
  BY DEF OneTabInv
<1>5. Unordered(x) /\ \A o \in Range(orders) : o.tx \in Txs
  BY <1>2, OrderTx DEF Unordered, TriedInv, Tried
<1>6. TabOK(page[t], req[t])'
  BY <1>1, <1>2, <1>3, <1>4, <1>5
     DEF TabOK, PageOfCart, OfCookie, ConfirmsCharge, ConfirmLabels, Unordered
<1>7. \A o \in Range(orders) : charged'[o.tx] = charged[o.tx]
  BY <1>2, <1>5 DEF Unordered
<1>8. OrdersMatchCharge' /\ CheckedOutBasketHasItsOrders'
  BY <1>1, <1>2, <1>7, OrdersKept, CheckedOutKept DEF OneTabInv, TypeInv, TypeOK
<1> QED
  BY <1>2, <1>4, <1>6, <1>8, OnlyTab

\* The shopper cancels; PayPhone reverses a payment.
LEMMA CancelPaymentOneTab ==
    ASSUME OneTab, OneTabInv, TypeInv, NEW t \in Tabs, CancelPayment(t)
    PROVE  OneTabInv'
<1>1. Unmoved
  BY DEF Unmoved, CancelPayment, carts, gateway
<1>2. page'[t] = Elsewhere /\ req'[t] = req[t] /\ req[t].pc = "idle"
  BY TabAfter DEF CancelPayment, Idle
<1>3. TabOK(Elsewhere, req[t])
  BY <1>2, IdleElsewhere DEF TabOK, PageOfCart, OfCookie, ConfirmsCharge, ConfirmLabels
<1> QED
  BY <1>1, <1>2, <1>3, UnmovedInv

\* PayPhone reverses a payment that nobody has confirmed.
LEMMA ReverseOneTab ==
    ASSUME OneTab, OneTabInv, TypeInv, NEW x \in Txs, Reverse(x)
    PROVE  OneTabInv'
<1>1. Unmoved /\ UNCHANGED <<page, req, cookie>>
  BY DEF Unmoved, Reverse, carts, browser
<1>2. \A t \in Tabs : TabOK(page[t], req[t])'
  BY <1>1, UnmovedOK DEF OneTabInv
<1> QED
  BY <1>1, <1>2, PromisesKept DEF OneTabInv, Unmoved

-----------------------------------------------------------------------------
(* The requests of the checkout page. *)

\* A read answers with the cart as it is.
LEMMA ReadsCart == ASSUME OneTab PROVE \A b : Read(b) = {items[b]}
BY DEF OneTab, Read

\* What the invariant says of one tab.
LEMMA OfTab ==
    ASSUME OneTabInv, TypeInv, NEW t \in Tabs
    PROVE  /\ TabOK(page[t], req[t]) /\ cookie.basketID \in Baskets
           /\ req[t].pc \notin {"idle", "processPayment"} => page[t] = Elsewhere
           /\ req[t].pc # "idle" => req[t].jar.basketID = cookie.basketID
           /\ req[t].pc \notin {"idle", "searchAddAgain", "searchFind"} =>
                 req[t].bid = cookie.basketID
BY DEF OneTabInv, TabOK, PageOfCart, OfCookie

\* A request that ends on a page without a widget relies on nothing.
LEMMA Ends ==
    ASSUME OneTab, OneTabInv, TypeInv, NEW t \in Tabs, End(t),
           page'[t] = Elsewhere, cookie'.basketID \in Baskets,
           OrdersMatchCharge', CheckedOutBasketHasItsOrders'
    PROVE  OneTabInv'
<1>1. TabOK(Elsewhere, NoRequest)' /\ req'[t] = NoRequest
  BY IdleElsewhere, TabAfter
<1>2. TabOK(page[t], req[t])'
  BY <1>1 DEF TabOK, PageOfCart, OfCookie, ConfirmsCharge
<1> QED
  BY <1>2, OnlyTab

\* ... in particular one that ends without having changed anything.
LEMMA EndsUnmoved ==
    ASSUME OneTab, OneTabInv, TypeInv, NEW t \in Tabs, End(t), Unmoved,
           page'[t] = Elsewhere
    PROVE  OneTabInv'
BY Ends, PromisesKept DEF Unmoved, OneTabInv

\* A page without a transaction has no widget.
LEMMA PageOfRequest ==
    ASSUME NEW p, p.tx # None => p.shown = items[cookie.basketID],
           p.at # "returning"
    PROVE  TabOK(p, NoRequest)
BY IdleElsewhere DEF TabOK, PageOfCart, OfCookie, ConfirmsCharge

\* GET /checkout mints an attempt and computes its charge from the basket.
LEMMA CheckoutReadOneTab ==
    ASSUME OneTab, OneTabInv, TypeInv, NEW t \in Tabs, CheckoutRead(t)
    PROVE  OneTabInv'
<1>1. /\ req[t].pc = "checkout" /\ page[t] = Elsewhere
      /\ req[t].jar.basketID = cookie.basketID /\ req[t].bid = cookie.basketID
      /\ req[t] \in Request /\ req[t].jar \in Cookie
  BY OfTab, TabType DEF CheckoutRead
<1>2. UNCHANGED <<cookie, bstate, items, charged, orders>>
  BY DEF CheckoutRead, carts
<1>3. ASSUME NEW c \in Read(req[t].bid), NEW x \in Txs, Fresh(x), Mint(x),
             req' = [req EXCEPT ![t].pc = "checkoutConfig",
                                ![t].tx = x,
                                ![t].seen = c,
                                ![t].jar = NewAttempt(req[t].jar, x)],
             UNCHANGED page
      PROVE  OneTabInv'
  <2> DEFINE r == [req[t] EXCEPT !.pc = "checkoutConfig", !.tx = x, !.seen = c,
                                 !.jar = NewAttempt(req[t].jar, x)]
  <2>1. Unmoved
    BY <1>2, <1>3 DEF Unmoved
  <2>2. req' = [req EXCEPT ![t] = r]
    BY <1>3
  <2>3. /\ r.pc = "checkoutConfig" /\ r.seen = items[r.bid]
        /\ r.bid = cookie.basketID /\ r.jar.basketID = cookie.basketID
    <3>1. c = items[req[t].bid] /\ NewAttempt(req[t].jar, x).basketID = cookie.basketID
      BY <1>1, <1>3, ReadsCart DEF Cookie, NewAttempt
    <3> QED
      BY <1>1, <3>1 DEF Request
  <2> HIDE DEF r
  <2>4. TabOK(Elsewhere, r)
    BY <2>3, IdleElsewhere
       DEF TabOK, PageOfCart, OfCookie, ConfirmsCharge, ConfirmLabels
  <2> QED
    BY <1>1, <1>3, <2>1, <2>2, <2>4, TabAfter, UnmovedInv
<1>4. CASE /\ End(t) /\ UNCHANGED tstatus
           /\ page' = [page EXCEPT ![t] = [Elsewhere EXCEPT !.at = "checkout"]]
  <2> DEFINE p == [Elsewhere EXCEPT !.at = "checkout"]
  <2>1. p.tx = None /\ p.at = "checkout"
    BY DEF Elsewhere
  <2>2. page'[t] = p /\ req'[t] = NoRequest
    BY <1>4, TabAfter
  <2> HIDE DEF p
  <2>3. TabOK(p, NoRequest)
    BY <2>1, PageOfRequest
  <2> QED
    BY <1>2, <1>4, <2>2, <2>3, UnmovedInv DEF Unmoved
<1>5. CASE Fail(t) /\ UNCHANGED tstatus
  BY <1>1, <1>2, <1>5, EndsUnmoved DEF Fail, browser, Unmoved
<1> QED
  BY <1>3, <1>4, <1>5 DEF CheckoutRead

\* ... and shows the page of that attempt.
LEMMA CheckoutConfigOneTab ==
    ASSUME OneTab, OneTabInv, TypeInv, NEW t \in Tabs, CheckoutConfig(t)
    PROVE  OneTabInv'
<1>1. /\ req[t].pc = "checkoutConfig" /\ page[t] = Elsewhere
      /\ req[t].jar.basketID = cookie.basketID /\ req[t].bid = cookie.basketID
      /\ req[t].seen = items[req[t].bid]
  BY OfTab DEF CheckoutConfig, TabOK, ConfirmsCharge
<1>2. Unmoved /\ End(t)
  BY <1>1 DEF CheckoutConfig, carts, gateway, Fail, browser, Answer, Unmoved
<1> DEFINE p == [at |-> "checkout", tx |-> req[t].tx, shown |-> req[t].seen]
<1>3. CASE page' = [page EXCEPT ![t] = p]
  <2>1. TabOK(p, NoRequest)
    BY <1>1, PageOfRequest
  <2> QED
    BY <1>2, <1>3, <2>1, TabAfter, UnmovedInv
<1>4. CASE Fail(t)
  BY <1>1, <1>2, <1>4, EndsUnmoved DEF Fail, browser
<1> QED
  BY <1>3, <1>4 DEF CheckoutConfig

\* POST /checkout shows the page of the attempt in the cookie.
LEMMA CheckoutPostOneTab ==
    ASSUME OneTab, OneTabInv, TypeInv, NEW t \in Tabs, CheckoutPost(t)
    PROVE  OneTabInv'
<1> DEFINE c == req[t].jar
           p == [at |-> "checkout", shown |-> items[req[t].bid],
                 tx |-> c.clientTransactionID]
<1>1. /\ req[t].pc = "checkoutPost" /\ page[t] = Elsewhere /\ c \in Cookie
      /\ c.basketID = cookie.basketID /\ req[t].bid = cookie.basketID
  BY OfTab, TabType DEF CheckoutPost
<1>2. Unmoved /\ End(t)
  BY <1>1 DEF CheckoutPost, carts, gateway, Fail, browser, Answer, Unmoved, Cookie
<1>3. CASE page' = [page EXCEPT ![t] = p]
  <2>1. TabOK(p, NoRequest)
    BY <1>1, PageOfRequest
  <2> QED
    BY <1>2, <1>3, <2>1, TabAfter, UnmovedInv
<1>4. CASE UNCHANGED page
  BY <1>1, <1>2, <1>4, EndsUnmoved
<1> QED
  BY <1>3, <1>4, ReadsCart DEF CheckoutPost, Fail, browser

\* The page keeps its widget: the post changes neither basket nor contents.
LEMMA ProcessPaymentOneTab ==
    ASSUME OneTab, OneTabInv, TypeInv, NEW t \in Tabs, ProcessPayment(t)
    PROVE  OneTabInv'
<1>1. /\ req[t].pc = "processPayment" /\ req[t].jar.basketID = cookie.basketID
      /\ req[t].jar \in Cookie /\ page[t] \in Page /\ PageOK(page[t])
      /\ PageOfCart(page[t], req[t])
  BY OfTab, TabType DEF ProcessPayment, TabOK
<1>2. End(t) /\ req'[t] = NoRequest
  BY TabAfter DEF ProcessPayment, Answer
<1>3. ASSUME NEW x \in Txs, Fresh(x), Mint(x),
             Answer(t, [req[t].jar EXCEPT !.clientTransactionID = x,
                                          !.paymentID = x]),
             page' = [page EXCEPT ![t] = InitializePayPhone(@)]
      PROVE  OneTabInv'
  <2> DEFINE p == InitializePayPhone(page[t])
  <2>1. p.tx = page[t].tx /\ p.shown = page[t].shown /\ p.at # "returning"
    BY <1>1, ConstantsAssumption DEF InitializePayPhone, Page, PageOK
  <2>2. page'[t] = p
    BY <1>3, TabAfter
  <2> HIDE DEF p
  <2>3. TabOK(p, NoRequest)
    BY <1>1, <2>1, PageOfRequest DEF PageOfCart
  <2>4. Unmoved
    BY <1>1, <1>3 DEF ProcessPayment, carts, Answer, Unmoved, Cookie
  <2> QED
    BY <1>2, <2>2, <2>3, <2>4, UnmovedInv
<1>4. CASE Answer(t, req[t].jar) /\ UNCHANGED <<page, tstatus>>
  <2>1. Unmoved
    BY <1>1, <1>4 DEF ProcessPayment, carts, Answer, Unmoved
  <2>2. TabOK(page[t], NoRequest)
    BY <1>1, IdleElsewhere DEF TabOK, PageOfCart, OfCookie, ConfirmsCharge
  <2> QED
    BY <1>2, <1>4, <2>1, <2>2, UnmovedInv
<1> QED
  BY <1>3, <1>4 DEF ProcessPayment

-----------------------------------------------------------------------------
(* Confirming. *)

\* The gateway's approval finds a payment that has no order.
LEMMA ConfirmAtGatewayOneTab ==
    ASSUME OneTab, OneTabInv, TypeInv, NEW t \in Tabs, ConfirmAtGateway(t)
    PROVE  OneTabInv'
<1> DEFINE x == req[t].tx
           r == [req[t] EXCEPT !.pc = "financials"]
<1>1. /\ req[t].pc = "confirm" /\ req[t] \in Request /\ x \in Txs
      /\ page[t] = Elsewhere /\ OfCookie(req[t]) /\ ConfirmsCharge(req[t])
      /\ cookie.basketID \in Baskets
  BY OfTab, TabType
     DEF ConfirmAtGateway, RequestOK, ConfirmLabels, TabOK
<1>2. UNCHANGED <<cookie, page, bstate, items, charged, orders>>
  BY DEF ConfirmAtGateway, browser, carts
<1>3. page'[t] = Elsewhere /\ cookie'.basketID \in Baskets
      /\ OrdersMatchCharge' /\ CheckedOutBasketHasItsOrders'
  BY <1>1, <1>2, PromisesKept
<1>4. CASE End(t)
  BY <1>1, <1>3, <1>4, Ends
<1>5. CASE Goto(t, "financials")
  <2>1. Unordered(x)
    BY <1>1 DEF ConfirmsCharge
  <2>2. req'[t] = r
    BY <1>1, <1>5, TabAfter DEF Goto
  <2>3. /\ r.pc = "financials" /\ r.tx = x /\ r.bid = req[t].bid /\ r.jar = req[t].jar
    BY <1>1 DEF Request
  <2> HIDE DEF r
  <2>4. TabOK(page[t], req[t])'
    BY <1>1, <1>2, <1>3, <2>1, <2>2, <2>3
       DEF TabOK, PageOfCart, OfCookie, ConfirmsCharge, ConfirmLabels, Elsewhere,
           Unordered
  <2> QED
    BY <1>3, <2>4, OnlyTab
<1> QED
  BY <1>1, <1>4, <1>5, NothingLate DEF ConfirmAtGateway

\* What is to be ordered is what the basket holds, and that was charged.
LEMMA ConfirmFinancialsOneTab ==
    ASSUME OneTab, OneTabInv, TypeInv, NEW t \in Tabs, ConfirmFinancials(t)
    PROVE  OneTabInv'
<1> DEFINE c == items[req[t].bid]
           l == IF Lines(c) = {} THEN "checkoutBasket" ELSE "createOrder"
           r == [req[t] EXCEPT !.pc = l, !.seen = c, !.todo = Lines(c)]
<1>1. /\ req[t].pc = "financials" /\ req[t] \in Request
      /\ page[t] = Elsewhere /\ OfCookie(req[t]) /\ ConfirmsCharge(req[t])
  BY OfTab, TabType DEF ConfirmFinancials, TabOK
<1>2. Unmoved /\ UNCHANGED page
  BY DEF ConfirmFinancials, Unmoved, browser, carts, gateway
<1>3. CASE End(t)
  BY <1>1, <1>2, <1>3, EndsUnmoved
<1>4. CASE req' = [req EXCEPT ![t].pc = l, ![t].seen = c, ![t].todo = Lines(c)]
  <2>1. /\ r.pc = l /\ r.seen = c /\ r.tx = req[t].tx /\ r.bid = req[t].bid
        /\ r.jar = req[t].jar
    BY <1>1 DEF Request
  <2>2. req' = [req EXCEPT ![t] = r]
    BY <1>4
  <2> HIDE DEF r
  <2>3. TabOK(Elsewhere, r)
    BY <1>1, <2>1, IdleElsewhere
       DEF TabOK, PageOfCart, OfCookie, ConfirmsCharge, ConfirmLabels, Unordered
  <2> QED
    BY <1>1, <1>2, <2>2, <2>3, TabAfter, UnmovedInv
<1>5. ASSUME NEW d \in Read(req[t].bid)
      PROVE  d = c
  BY ReadsCart
<1> QED
  BY <1>3, <1>4, <1>5 DEF ConfirmFinancials

\* A new order has the quantity that was charged and is the first of its store
\* under its payment.
LEMMA NewOrderMatches ==
    ASSUME OneTabInv, TypeInv, NEW t \in Tabs, req[t].pc = "createOrder",
           NEW s \in req[t].todo, orders' = Append(orders, NewOrder(t, s)),
           UNCHANGED charged
    PROVE  OrdersMatchCharge'
<1> DEFINE o == NewOrder(t, s)
           n == Len(orders)
<1>1. orders \in Seq(Order) /\ n \in Nat
  BY DEF TypeInv, TypeOK
<1>2. /\ DOMAIN orders = 1 .. n /\ DOMAIN orders' = 1 .. n + 1
      /\ \A i \in 1 .. n : orders'[i] = orders[i]
      /\ orders'[n + 1] = o
  BY <1>1
<1>3. /\ o.tx = req[t].tx /\ o.store = s /\ o.qty = req[t].seen[s]
  BY DEF NewOrder
<1>4. o.qty = charged[o.tx][o.store]
  BY <1>3 DEF OneTabInv, TabOK, ConfirmsCharge, ConfirmLabels
<1>5. \A i \in 1 .. n : orders[i].tx = o.tx => orders[i].store # o.store
  BY <1>2, <1>3 DEF OneTabInv, TabOK, ConfirmsCharge, Range
<1>6. \A i \in 1 .. n + 1 : i \in 1 .. n \/ i = n + 1
  BY <1>1
<1> HIDE DEF o
<1> QED
  BY <1>1, <1>2, <1>4, <1>5, <1>6 DEF OneTabInv, OrdersMatchCharge

\* One round of the loop: an order of a store, with what was charged for it.
LEMMA CreateOrderOneTab ==
    ASSUME OneTab, OneTabInv, TypeInv, NEW t \in Tabs, CreateOrder(t)
    PROVE  OneTabInv'
<1>1. /\ req[t].pc = "createOrder" /\ req[t] \in Request
      /\ page[t] = Elsewhere /\ OfCookie(req[t]) /\ ConfirmsCharge(req[t])
      /\ cookie.basketID \in Baskets
  BY OfTab, TabType DEF CreateOrder, TabOK
<1>2. UNCHANGED <<cookie, page, bstate, items, charged>>
  BY DEF CreateOrder, browser, carts, gateway
<1>3. page'[t] = Elsewhere /\ cookie'.basketID \in Baskets
  BY <1>1, <1>2
<1>4. PICK s \in req[t].todo :
         \/ /\ orders' = Append(orders, NewOrder(t, s))
            /\ req' = [req EXCEPT ![t].pc = AfterOrder(t, s),
                                  ![t].todo = @ \ {s},
                                  ![t].made[s] = @ + 1]
         \/ orders' = Append(orders, NewOrder(t, s)) /\ End(t)
         \/ End(t) /\ UNCHANGED orders
  BY NothingLate DEF CreateOrder, AfterLostOrder
<1>5. CASE orders' = Append(orders, NewOrder(t, s))
  <2>1. OrdersMatchCharge'
    BY <1>1, <1>2, <1>5, NewOrderMatches
  <2>2. Range(orders') = Range(orders) \cup {NewOrder(t, s)}
    BY <1>1, <1>5, NewOrderType, AppendType DEF TypeInv, TypeOK
  <2>3. CheckedOutBasketHasItsOrders'
    BY <1>2, <2>2, CheckedOutKept DEF OneTabInv
  <2>4. CASE End(t)
    BY <1>3, <2>1, <2>3, <2>4, Ends
  <2>5. CASE req' = [req EXCEPT ![t].pc = AfterOrder(t, s),
                                ![t].todo = @ \ {s},
                                ![t].made[s] = @ + 1]
    <3> DEFINE r == [req[t] EXCEPT !.pc = AfterOrder(t, s), !.todo = @ \ {s},
                                   !.made[s] = @ + 1]
    <3>1. /\ r.pc \in {"createOrder", "checkoutBasket"} /\ r.tx = req[t].tx
          /\ r.bid = req[t].bid /\ r.jar = req[t].jar /\ r.seen = req[t].seen
          /\ r.todo = req[t].todo \ {s}
      BY <1>1 DEF Request, AfterOrder
    <3>2. req' = [req EXCEPT ![t] = r] /\ req'[t] = r
      <4>1. req' = [req EXCEPT ![t] = r]
        BY <2>5
      <4> QED
        BY <4>1, TabAfter
    <3>3. NewOrder(t, s).store = s
      BY DEF NewOrder
    <3>4. \A o \in Range(orders') : o.tx = r.tx => o.store \notin r.todo
      BY <1>1, <2>2, <3>1, <3>3 DEF ConfirmsCharge
    <3> HIDE DEF r
    <3>5. TabOK(page[t], req[t])'
      BY <1>1, <1>2, <1>3, <3>1, <3>2, <3>4
         DEF TabOK, PageOfCart, OfCookie, ConfirmsCharge, ConfirmLabels, Elsewhere
    <3> QED
      BY <1>3, <2>1, <2>3, <3>5, OnlyTab
  <2> QED
    BY <1>4, <1>5, <2>4, <2>5
<1>6. CASE End(t) /\ UNCHANGED orders
  BY <1>2, <1>3, <1>6, PromisesKept, Ends
<1> QED
  BY <1>4, <1>5, <1>6

\* A basket is checked out with the contents whose orders its confirm created.
LEMMA CheckoutBasketOneTab ==
    ASSUME OneTab, OneTabInv, IInv, NEW t \in Tabs, CheckoutBasket(t)
    PROVE  OneTabInv'
<1> DEFINE b == req[t].bid
<1>1. /\ TypeInv /\ req[t].pc = "checkoutBasket" /\ req[t] \in Request
      /\ page[t] = Elsewhere /\ OfCookie(req[t]) /\ ConfirmsCharge(req[t])
      /\ cookie.basketID \in Baskets /\ b \in Baskets
  BY OfTab, TabType DEF CheckoutBasket, TabOK, IInv, NeedsBasket, Labels
<1>2. UNCHANGED <<cookie, page, items, charged, orders>>
  BY DEF CheckoutBasket, browser, gateway
<1>3. page'[t] = Elsewhere /\ cookie'.basketID \in Baskets /\ OrdersMatchCharge'
  BY <1>1, <1>2, OrdersKept DEF OneTabInv, TypeInv, TypeOK
<1>4. CheckedOutBasketHasItsOrders'
  <2>1. HasOrders(b, req[t].tx, items[b], Lines(items[b]))
    BY <1>1 DEF IInv, SagaInv, ConfirmOK, Ordered, ConfirmsCharge
  <2>2. items[b] \in Contents
    BY <1>1 DEF TypeInv, TypeOK
  <2>3. \A s \in Stores : items[b][s] > 0 =>
           \E o \in Range(orders) :
              o.basket = b /\ o.store = s /\ o.qty = items[b][s]
    BY <2>1, <2>2 DEF HasOrders, Lines
  <2>4. \A a \in Baskets : bstate'[a] = bstate[a] \/ a = b
    BY <1>1 DEF CheckoutBasket, TypeInv, TypeOK
  <2> QED
    BY <1>2, <2>3, <2>4 DEF OneTabInv, CheckedOutBasketHasItsOrders
<1>5. CASE End(t)
  BY <1>1, <1>3, <1>4, <1>5, Ends
<1>6. CASE Goto(t, "createBasket")
  <2> DEFINE r == [req[t] EXCEPT !.pc = "createBasket"]
  <2>1. /\ r.pc = "createBasket" /\ r.tx = req[t].tx
        /\ r.bid = req[t].bid /\ r.jar = req[t].jar
    BY <1>1 DEF Request
  <2>2. req'[t] = r
    BY <1>1, <1>6, TabAfter DEF Goto
  <2> HIDE DEF r
  <2>3. TabOK(page[t], req[t])'
    BY <1>1, <1>2, <1>3, <2>1, <2>2
       DEF TabOK, PageOfCart, OfCookie, ConfirmsCharge, ConfirmLabels, Elsewhere
  <2> QED
    BY <1>3, <1>4, <2>3, OnlyTab
<1> QED
  BY <1>1, <1>5, <1>6, NothingLate DEF CheckoutBasket

\* Opening a basket checks none out and fills none.
LEMMA OpenBasketPromises ==
    ASSUME OneTabInv, TypeInv, NEW b \in Baskets, OpenBasket(b),
           UNCHANGED <<charged, orders>>
    PROVE  OrdersMatchCharge' /\ CheckedOutBasketHasItsOrders'
BY OrdersKept, CheckedOutKept DEF OpenBasket, OneTabInv, TypeInv, TypeOK

\* The confirm ends with a new basket in the cookie, or without one.
LEMMA CreateBasketOneTab ==
    ASSUME OneTab, OneTabInv, TypeInv, NEW t \in Tabs, CreateBasket(t)
    PROVE  OneTabInv'
<1>1. /\ req[t].pc = "createBasket" /\ req[t].jar \in Cookie
      /\ page[t] = Elsewhere /\ cookie.basketID \in Baskets
  BY OfTab, TabType DEF CreateBasket
<1>2. page'[t] = Elsewhere /\ UNCHANGED <<charged, orders>> /\ End(t)
  BY <1>1 DEF CreateBasket, gateway, Answer
<1>3. \A b : ReturnedID(b) = {b}
  BY DEF OneTab, ReturnedID
<1>4. cookie'.basketID \in Baskets
  BY <1>1, <1>3 DEF CreateBasket, Answer, Cookie
<1>5. OrdersMatchCharge' /\ CheckedOutBasketHasItsOrders'
  BY OpenBasketPromises, PromisesKept DEF CreateBasket, carts, gateway
<1> QED
  BY <1>2, <1>4, <1>5, Ends

-----------------------------------------------------------------------------
(* The cart and the search. *)

\* A cart request shows no checkout page and confirms nothing: its tab relies on
\* the cookie's basket and, before its last read, on an open one.
LEMMA CartTabOK ==
    ASSUME NEW t \in Tabs, page'[t] = Elsewhere, cookie' = cookie,
           req'[t].pc \in CartLabels \cup {"findBasket", "searchFind"},
           req'[t].jar.basketID = cookie.basketID,
           req'[t].pc \notin {"searchAddAgain", "searchFind"} =>
              req'[t].bid = cookie.basketID,
           req'[t].pc = "searchFind" => bstate'[req'[t].bid] = "open"
    PROVE  TabOK(page[t], req[t])'
BY DEF TabOK, PageOfCart, OfCookie, ConfirmsCharge, ConfirmLabels, CartLabels,
       Elsewhere

\* What a cart request does to items, it does to an open basket.
LEMMA ItemsPromises ==
    ASSUME OneTabInv, TypeInv, NEW b \in Baskets, UNCHANGED <<bstate, charged, orders>>,
           \/ UNCHANGED items
           \/ bstate[b] = "open" /\ \A a \in Baskets \ {b} : items'[a] = items[a]
    PROVE  OrdersMatchCharge' /\ CheckedOutBasketHasItsOrders'
BY OrdersKept, CheckedOutKept DEF OneTabInv, TypeInv, TypeOK

\* A request that is moved to another call and keeps the rest.
LEMMA MovedTo ==
    ASSUME TypeInv, NEW t \in Tabs, NEW l, NEW n,
           req' = [req EXCEPT ![t].pc = l, ![t].tries = n]
    PROVE  /\ req'[t].pc = l /\ req'[t].bid = req[t].bid /\ req'[t].jar = req[t].jar
BY DEF TypeInv, TypeOK, Request

\* An attempt that failed ends the request or is made again for the same basket.
LEMMA Retried ==
    ASSUME TypeInv, NEW t \in Tabs, Retry(t)
    PROVE  \/ End(t)
           \/ /\ req'[t].pc = req[t].pc /\ req'[t].bid = req[t].bid
              /\ req'[t].jar = req[t].jar
BY DEF Retry, TypeInv, TypeOK, Request

\* One attempt at changing the basket that the cookie points at.
LEMMA PutItemOneTab ==
    ASSUME OneTab, OneTabInv, TypeInv, NEW t \in Tabs, PutItem(t)
    PROVE  OneTabInv'
<1> DEFINE l == req[t].pc
           b == req[t].bid
           s == req[t].item
<1>0. l \in {"addItem", "removeItem", "searchAdd", "searchAddAgain"}
  BY DEF PutItem, AfterPut
<1>1. /\ page[t] = Elsewhere /\ cookie.basketID \in Baskets
      /\ req[t].jar.basketID = cookie.basketID
      /\ l # "searchAddAgain" => b = cookie.basketID
      /\ req[t] \in Request /\ b \in Baskets \cup {None}
  <2>1. /\ page[t] = Elsewhere /\ cookie.basketID \in Baskets
        /\ req[t].jar.basketID = cookie.basketID
    BY <1>0, OfTab
  <2>2. l # "searchAddAgain" => b = cookie.basketID
    BY <1>0, OfTab
  <2>3. req[t] \in Request /\ b \in Baskets \cup {None}
    BY TabType DEF Request
  <2> QED
    BY <2>1, <2>2, <2>3
<1>2. UNCHANGED <<cookie, page, bstate, charged, orders>>
  BY DEF PutItem, browser, gateway
<1>3. page'[t] = Elsewhere /\ cookie'.basketID \in Baskets
  BY <1>1, <1>2
<1>4. \/ UNCHANGED items
      \/ /\ b \in Baskets /\ bstate[b] = "open"
         /\ \A a \in Baskets \ {b} : items'[a] = items[a]
  BY <1>1 DEF PutItem, CanApply, Apply, TypeInv, TypeOK
<1>5. OrdersMatchCharge' /\ CheckedOutBasketHasItsOrders'
  BY <1>1, <1>2, <1>4, ItemsPromises
<1>6. CASE End(t)
  BY <1>3, <1>5, <1>6, Ends
<1>7. CASE Retry(t)
  <2>1. CASE /\ req'[t].pc = l /\ req'[t].bid = b /\ req'[t].jar = req[t].jar
    <3>1. TabOK(page[t], req[t])'
      BY <1>0, <1>1, <1>2, <1>3, <2>1, CartTabOK DEF CartLabels
    <3> QED
      BY <1>3, <1>5, <3>1, OnlyTab
  <2> QED
    BY <1>6, <1>7, <2>1, Retried
<1>8. CASE /\ CanApply(l, b, s)
           /\ req' = [req EXCEPT ![t].pc = AfterPut[l], ![t].tries = 0]
  <2>1. req'[t].pc = AfterPut[l] /\ req'[t].bid = b /\ req'[t].jar = req[t].jar
    BY <1>8, MovedTo
  <2>2. /\ AfterPut[l] \in {"findBasket", "searchFind"}
        /\ AfterPut[l] = "findBasket" => l # "searchAddAgain"
    BY <1>0 DEF AfterPut
  <2>3. TabOK(page[t], req[t])'
    BY <1>1, <1>2, <1>3, <1>8, <2>1, <2>2, CartTabOK DEF CanApply
  <2> QED
    BY <1>3, <1>5, <2>3, OnlyTab
<1>9. CASE /\ l = "searchAdd"
           /\ req' = [req EXCEPT ![t].pc = "searchCreate", ![t].tries = 0]
  <2>1. req'[t].pc = "searchCreate" /\ req'[t].bid = b /\ req'[t].jar = req[t].jar
    BY <1>9, MovedTo
  <2>2. TabOK(page[t], req[t])'
    BY <1>1, <1>2, <1>3, <1>9, <2>1, CartTabOK DEF CartLabels
  <2> QED
    BY <1>3, <1>5, <2>2, OnlyTab
<1> QED
  BY <1>6, <1>7, <1>8, <1>9 DEF PutItem

\* The recovery opens another basket when the old one is checked out.
LEMMA SearchCreateBasketOneTab ==
    ASSUME OneTab, OneTabInv, TypeInv, NEW t \in Tabs, SearchCreateBasket(t)
    PROVE  OneTabInv'
<1>1. /\ req[t].pc = "searchCreate" /\ req[t].jar.basketID = cookie.basketID
      /\ page[t] = Elsewhere /\ cookie.basketID \in Baskets /\ req[t] \in Request
  BY OfTab, TabType DEF SearchCreateBasket
<1>2. UNCHANGED <<cookie, page, charged, orders>>
  BY DEF SearchCreateBasket, browser, gateway
<1>3. page'[t] = Elsewhere /\ cookie'.basketID \in Baskets
  BY <1>1, <1>2
<1>4. OrdersMatchCharge' /\ CheckedOutBasketHasItsOrders'
  BY <1>2, OpenBasketPromises, PromisesKept DEF SearchCreateBasket, carts
<1>5. ASSUME NEW id, req' = [req EXCEPT ![t].pc = "searchAddAgain", ![t].bid = id]
      PROVE  OneTabInv'
  <2>1. req'[t].pc = "searchAddAgain" /\ req'[t].jar = req[t].jar
    BY <1>1, <1>5 DEF TypeInv, TypeOK, Request
  <2>2. TabOK(page[t], req[t])'
    BY <1>1, <1>2, <1>3, <2>1, CartTabOK DEF CartLabels
  <2> QED
    BY <1>3, <1>4, <2>2, OnlyTab
<1> QED
  BY <1>3, <1>4, <1>5, Ends DEF SearchCreateBasket

\* The answer of a cart request points at the basket it worked on.
LEMMA FindBasketOneTab ==
    ASSUME OneTab, OneTabInv, TypeInv, NEW t \in Tabs, FindBasket(t)
    PROVE  OneTabInv'
<1>1. /\ req[t].pc \in {"findBasket", "searchFind"} /\ req[t].bid \in Baskets
      /\ page[t] = Elsewhere /\ cookie.basketID \in Baskets /\ req[t].jar \in Cookie
  BY OfTab, TabType DEF FindBasket, NeedsBasket, Labels
<1>2. UNCHANGED <<page, bstate, items, charged, orders>> /\ End(t)
  BY DEF FindBasket, carts, gateway, Answer
<1>3. cookie'.basketID \in Baskets
  <2>1. \A c : CartAnswer(t, c).basketID = req[t].bid
    BY <1>1 DEF CartAnswer, Cookie
  <2> QED
    BY <1>1, <2>1 DEF FindBasket, Answer
<1> QED
  BY <1>1, <1>2, <1>3, PromisesKept, Ends

\* An answered search saves the cookie it came with.
LEMMA SearchOneTab ==
    ASSUME OneTab, OneTabInv, TypeInv, NEW t \in Tabs, Search(t)
    PROVE  OneTabInv'
<1>1. /\ req[t].pc = "search" /\ page[t] = Elsewhere
      /\ req[t].jar.basketID = cookie.basketID
  BY OfTab DEF Search
<1>2. Unmoved /\ End(t) /\ UNCHANGED page
  BY <1>1 DEF Search, carts, gateway, Answer, Unmoved
<1> QED
  BY <1>1, <1>2, EndsUnmoved

-----------------------------------------------------------------------------
(* The theorems. *)

\* A new shopper has an open basket, no order and no page to pay on.
LEMMA InitOneTab == Init => OneTabInv
<1> HAVE Init
<1> PICK b \in Baskets, c \in Contents :
       /\ cookie.basketID = b
       /\ page = [t \in Tabs |-> Elsewhere]
       /\ bstate = [x \in Baskets |-> IF x = b THEN "open" ELSE "absent"]
       /\ orders = << >>
       /\ req = [t \in Tabs |-> NoRequest]
  BY DEF Init, BlankCookie
<1>1. \A t \in Tabs : TabOK(page[t], req[t])
  BY IdleElsewhere
<1>2. OrdersMatchCharge
  BY DEF OrdersMatchCharge
<1>3. CheckedOutBasketHasItsOrders
  BY DEF CheckedOutBasketHasItsOrders
<1> QED
  BY <1>1, <1>2, <1>3 DEF OneTabInv

\* Every step of the only tab keeps the invariant.
LEMMA NextOneTab ==
    ASSUME OneTab, OneTabInv, IInv, TriedInv, [Next]_vars
    PROVE  OneTabInv'
<1>1. TypeInv
  BY DEF IInv
<1>2. ASSUME NEW t \in Tabs, Serve(t)
      PROVE  OneTabInv'
  BY <1>1, <1>2, CheckoutReadOneTab, CheckoutConfigOneTab, CheckoutPostOneTab,
     ProcessPaymentOneTab, ConfirmAtGatewayOneTab, ConfirmFinancialsOneTab,
     CreateOrderOneTab, CheckoutBasketOneTab, CreateBasketOneTab, PutItemOneTab,
     SearchCreateBasketOneTab, FindBasketOneTab, SearchOneTab
     DEF Serve
<1>3. ASSUME NEW t \in Tabs, Shopper(t)
      PROVE  OneTabInv'
  BY <1>1, <1>3, StartsOneTab, StartConfirmOneTab, PayOneTab, CancelPaymentOneTab
     DEF Shopper
<1>4. ASSUME NEW x \in Txs, Reverse(x)
      PROVE  OneTabInv'
  BY <1>1, <1>4, ReverseOneTab
<1>5. CASE \E v \in late : Land(v)
  BY <1>1, <1>5, NothingLate
<1>6. CASE UNCHANGED vars
  BY <1>6 DEF vars, OneTabInv, TabOK, PageOfCart, OfCookie, ConfirmsCharge, Unordered,
              OrdersMatchCharge, CheckedOutBasketHasItsOrders
<1> QED
  BY <1>2, <1>3, <1>4, <1>5, <1>6 DEF Next

\* The invariant behind the three guarantees holds of every single shopper.
THEOREM OneTabInvariant == ASSUME OneTab PROVE Spec => []OneTabInv
<1>1. Init => OneTabInv
  BY InitOneTab
<1>2. OneTabInv /\ IInv /\ TriedInv /\ [Next]_vars => OneTabInv'
  BY NextOneTab
<1>3. Spec => []IInv
  BY InductiveInvariant
<1> QED
  BY <1>1, <1>2, <1>3, NothingUntried, PTL DEF Spec

\* What a payment's orders contain is what the shopper was charged for, store by
\* store and once (payment.go Checkout, ConfirmPayment): no more, no less and not
\* twice, however calls fail or lose their answers.
THEOREM OrdersAsCharged == ASSUME OneTab PROVE Spec => []OrdersMatchCharge
<1>1. OneTabInv => OrdersMatchCharge
  BY DEF OneTabInv
<1> QED
  BY <1>1, OneTabInvariant, PTL

\* Everything in a checked-out basket was ordered (core/payment/service.go
\* ConfirmPayment).
THEOREM BasketsOrderedCompletely ==
    ASSUME OneTab PROVE Spec => []CheckedOutBasketHasItsOrders
<1>1. OneTabInv => CheckedOutBasketHasItsOrders
  BY DEF OneTabInv
<1> QED
  BY <1>1, OneTabInvariant, PTL

\* A shopper whose cookie still points at a checked-out basket gets a usable one
\* back when an item is added from the search page (basket.go SearchAddItem).
THEOREM SearchRecovers == ASSUME OneTab PROVE Spec => SearchAddRecovers
<1>1. OneTabInv /\ IInv /\ [Next]_vars =>
         [\A t \in Tabs :
             req[t].pc = "searchFind" /\ req'[t].pc = "idle" =>
                \/ UNCHANGED cookie
                \/ bstate[cookie'.basketID] = "open"]_vars
  <2> SUFFICES ASSUME OneTabInv, IInv, Next, NEW t \in Tabs,
                      req[t].pc = "searchFind", req'[t].pc = "idle"
               PROVE  UNCHANGED cookie \/ bstate[cookie'.basketID] = "open"
    OBVIOUS
  <2>1. \A u \in Tabs : u = t
    BY DEF OneTab
  <2>2. TypeInv /\ req[t].jar \in Cookie /\ bstate[req[t].bid] = "open"
    BY TabType DEF IInv, OneTabInv, TabOK
  <2>3. CASE FindBasket(t)
    <3>1. \A c : CartAnswer(t, c).basketID = req[t].bid
      BY <2>2 DEF CartAnswer, Cookie
    <3> QED
      BY <2>2, <2>3, <3>1 DEF FindBasket, Answer
  <2>4. ASSUME Serve(t)
        PROVE  FindBasket(t)
    BY <2>4 DEF Serve, CheckoutRead, CheckoutConfig, CheckoutPost, ProcessPayment,
       ConfirmAtGateway, ConfirmFinancials, CreateOrder, CheckoutBasket,
       CreateBasket, PutItem, SearchCreateBasket, Search, AfterPut
  <2>5. CASE Shopper(t)
    BY <2>5 DEF Shopper, StartCheckout, StartCheckoutPost, StartProcessPayment, Pay,
       CancelPayment, StartConfirm, StartCartRequest, StartSearch, MayStart, Idle
  <2>6. CASE (\E x \in Txs : Reverse(x)) \/ (\E v \in late : Land(v))
    BY <2>6 DEF Reverse, Land, browser
  <2> QED
    BY <2>1, <2>3, <2>4, <2>5, <2>6 DEF Next
<1>2. Spec => []OneTabInv
  BY OneTabInvariant
<1>3. Spec => []IInv
  BY InductiveInvariant
<1> QED
  BY <1>1, <1>2, <1>3, PTL DEF Spec, SearchAddRecovers
=============================================================================
