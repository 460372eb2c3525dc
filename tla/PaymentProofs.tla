---------------------------- MODULE PaymentProofs ----------------------------
(***************************************************************************)
(* Theorems about ConfirmPayment: whatever the shopper, the services and   *)
(* the network do, orders rest on confirmed payments, one confirm creates  *)
(* one order per store, and a basket is checked out only after its orders. *)
(***************************************************************************)
EXTENDS StorefrontProofs

\* Nothing a confirm relies on is taken back: orders stay, and a confirmed
\* payment stays confirmed.
Monotone ==
    /\ Range(orders) \subseteq Range(orders')
    /\ \A x \in Txs : tstatus[x] = "confirmed" => tstatus'[x] = "confirmed"

\* A call that times out joins the ones under way.
LEMMA TimesOutAdds ==
    ASSUME NEW w, TimesOut(w)
    PROVE  \A v \in late' : v \in late \/ v[2] = w
BY DEF TimesOut

\* A step keeps the saga's invariant if it takes nothing back and every new
\* order, request and late call is as the invariant wants it.
LEMMA SagaStep ==
    ASSUME TypeInv, SagaInv, Monotone,
           \A o \in Range(orders') : o \in Range(orders) \/ Rests(o.tx)',
           \A u \in Tabs : req'[u] = req[u] \/ ConfirmOK(req[u])',
           \A v \in late' : v \in late \/ LateOK(v[2])'
    PROVE  SagaInv'
<1>1. \A x \in Txs : Rests(x) => (~EmptyMessages => tstatus'[x] = "confirmed")
  BY DEF Rests, Monotone
<1>2. \A o \in Range(orders) : o \in Order
  BY DEF TypeInv, TypeOK, Range
<1>3. ASSUME NEW o \in Range(orders')
      PROVE  ~EmptyMessages => tstatus'[o.tx] = "confirmed"
  BY <1>1, <1>2, <1>3 DEF SagaInv, Rests, Order
<1>4. ASSUME NEW u \in Tabs
      PROVE  ConfirmOK(req[u])'
  <2>1. CASE req'[u] = req[u]
    <3>1. req[u].pc \in PastApproval => req[u].tx \in Txs
      BY TabType DEF RequestOK, PastApproval
    <3>2. ConfirmOK(req[u])
      BY DEF SagaInv
    <3> QED
      BY <1>1, <2>1, <3>1, <3>2
         DEF ConfirmOK, Rests, HasOrders, Ordered, Monotone
  <2> QED
    BY <2>1
<1>5. ASSUME NEW v \in late'
      PROVE  LateOK(v[2])'
  <2> DEFINE w == v[2]
  <2>1. CASE v \in late
    <3>1. /\ w.call = "createOrder" => w.order.tx \in Txs
          /\ w.call = "checkoutBasket" => w.tx \in Txs
      BY <2>1 DEF TypeInv, TypeOK, LateCall, Order
    <3>2. LateOK(w)
      BY <2>1 DEF SagaInv
    <3> QED
      BY <1>1, <3>1, <3>2 DEF LateOK, Rests, HasOrders, Monotone
  <2> QED
    BY <1>5, <2>1
<1> QED
  BY <1>3, <1>4, <1>5 DEF SagaInv, Rests

-----------------------------------------------------------------------------
(* Steps that no confirm past the gateway takes *)

Outside(r) == r.pc \notin PastApproval /\ r.made = Empty

OutsideReq(t) ==
    /\ \A u \in Tabs \ {t} : req'[u] = req[u]
    /\ req'[t] = req[t] \/ Outside(req'[t])

OutsideStep(t) ==
    /\ OutsideReq(t)
    /\ \A v \in late' : v \in late \/ v[2].call \in {"confirm", "addItem",
                                                     "removeItem"}

\* A request outside a confirm owes nothing.
LEMMA OutsideOK ==
    ASSUME NEW u \in Tabs, Outside(req'[u])
    PROVE  ConfirmOK(req[u])'
BY DEF Outside, ConfirmOK, PastApproval, ConfirmLabels, Ordered, HasOrders,
       Empty

\* A request that is not past the gateway has created no order.
LEMMA OutsideNow ==
    ASSUME SagaInv, NEW t \in Tabs, req[t].pc \notin PastApproval
    PROVE  Outside(req[t])
BY DEF SagaInv, Outside, ConfirmOK, PastApproval, ConfirmLabels, Ordered, Empty

\* Steps outside the confirms keep the saga's invariant.
LEMMA OutsideInv ==
    ASSUME TypeInv, SagaInv, NEW t \in Tabs, OutsideStep(t), Monotone,
           UNCHANGED orders
    PROVE  SagaInv'
<1>1. \A u \in Tabs : req'[u] = req[u] \/ ConfirmOK(req[u])'
  BY OutsideOK DEF OutsideStep, OutsideReq
<1>2. \A v \in late' : v \in late \/ LateOK(v[2])'
  BY DEF OutsideStep, LateOK
<1>3. \A o \in Range(orders') : o \in Range(orders)
  OBVIOUS
<1> QED
  BY <1>1, <1>2, <1>3, SagaStep

\* One tab's request becomes one that is outside a confirm.
LEMMA OutsideUpdate ==
    ASSUME TypeInv, NEW t \in Tabs, NEW r, req' = [req EXCEPT ![t] = r],
           Outside(r)
    PROVE  OutsideReq(t)
BY DEF TypeInv, TypeOK, OutsideReq

\* A request that ends is outside a confirm.
LEMMA OutsideEnd ==
    ASSUME TypeInv, NEW t \in Tabs, End(t)
    PROVE  OutsideReq(t)
<1>1. Outside(NoRequest)
  BY DEF Outside, NoRequest, PastApproval, ConfirmLabels
<1> QED
  BY <1>1, OutsideUpdate DEF End

\* A request that starts is outside a confirm, whatever it was sent with.
LEMMA OutsideStart ==
    ASSUME TypeInv, NEW t \in Tabs, NEW l \in Activities, NEW r,
           r.pc = StartAt(t, l).pc, r.made = StartAt(t, l).made,
           req' = [req EXCEPT ![t] = r]
    PROVE  OutsideReq(t)
<1>1. StartAt(t, l).pc = l /\ StartAt(t, l).made = Empty
  BY DEF StartAt, NoRequest
<1>2. Outside(r)
  BY <1>1, ConstantsAssumption DEF Outside, PastApproval, ConfirmLabels
<1> QED
  BY <1>2, OutsideUpdate

\* The payments the gateway has confirmed.
Confirmed == {x \in Txs : tstatus[x] = "confirmed"}

\* A step that confirms and reverses no payment.
LEMMA SameConfirmed ==
    ASSUME TypeInv, NEW x \in Txs, tstatus[x] # "confirmed",
           NEW s, s # "confirmed", tstatus' = [tstatus EXCEPT ![x] = s]
    PROVE  Confirmed' = Confirmed
BY DEF Confirmed, TypeInv, TypeOK

\* A step that leaves the orders and every confirmed payment alone.
LEMMA KeepsAll ==
    ASSUME UNCHANGED orders, Confirmed' = Confirmed
    PROVE  Monotone
BY DEF Monotone, Confirmed

\* The shopper's steps start requests or do not touch them.
LEMMA ShopperSaga ==
    ASSUME TypeInv, SagaInv, NEW t \in Tabs, Shopper(t)
    PROVE  /\ SagaInv' /\ OutsideReq(t) /\ Confirmed' = Confirmed
           /\ UNCHANGED <<orders, late, bstate>>
<1>1. UNCHANGED <<orders, late, bstate>>
  BY DEF Shopper, StartCheckout, StartCheckoutPost, StartProcessPayment, Pay,
         CancelPayment, StartConfirm, StartCartRequest, StartSearch, carts
<1>2. Confirmed' = Confirmed
  <2>1. CASE Pay(t)
    BY <2>1, SameConfirmed, TabType DEF Pay, PageOK
  <2>2. CASE ~Pay(t)
    <3>1. UNCHANGED tstatus
      BY <2>2 DEF Shopper, StartCheckout, StartCheckoutPost,
         StartProcessPayment, CancelPayment, StartConfirm, StartCartRequest,
         StartSearch, gateway
    <3> QED
      BY <3>1 DEF Confirmed
  <2> QED
    BY <2>1, <2>2
<1>3. OutsideReq(t)
  <2>1. CASE Pay(t) \/ CancelPayment(t)
    BY <2>1 DEF Pay, CancelPayment, OutsideReq
  <2>2. CASE StartCheckout(t) \/ StartCheckoutPost(t) \/ StartSearch(t)
    BY <2>2, OutsideStart
       DEF StartCheckout, StartCheckoutPost, StartSearch, MayStart
  <2>3. CASE StartProcessPayment(t)
    <3>1. PICK a \in Addresses :
             req' = [req EXCEPT ![t] = [StartAt(t, "processPayment")
                                          EXCEPT !.jar.shippingAddressID = a]]
      BY <2>3 DEF StartProcessPayment
    <3> DEFINE r == [StartAt(t, "processPayment")
                       EXCEPT !.jar.shippingAddressID = a]
    <3>2. /\ r.pc = StartAt(t, "processPayment").pc
          /\ r.made = StartAt(t, "processPayment").made
      BY DEF StartAt, NoRequest
    <3> HIDE DEF r
    <3> QED BY <2>3, <3>1, <3>2, OutsideStart DEF StartProcessPayment, MayStart, r
  <2>4. ASSUME NEW x \in Txs, StartConfirm(t, x)
        PROVE  OutsideReq(t)
    <3> DEFINE r == [StartAt(t, "confirm") EXCEPT !.tx = x]
    <3>1. /\ r.pc = StartAt(t, "confirm").pc
          /\ r.made = StartAt(t, "confirm").made
      BY DEF StartAt, NoRequest
    <3> HIDE DEF r
    <3> QED BY <2>4, <3>1, OutsideStart DEF StartConfirm, MayStart, r
  <2>5. ASSUME NEW s \in Stores, NEW l, StartCartRequest(t, l, s)
        PROVE  OutsideReq(t)
    <3> DEFINE r == [StartAt(t, l) EXCEPT !.item = s]
    <3>1. r.pc = StartAt(t, l).pc /\ r.made = StartAt(t, l).made
      BY DEF StartAt, NoRequest
    <3> HIDE DEF r
    <3> QED BY <2>5, <3>1, OutsideStart DEF StartCartRequest, MayStart, r
  <2> QED
    BY <2>1, <2>2, <2>3, <2>4, <2>5 DEF Shopper
<1> QED
  BY <1>1, <1>2, <1>3, KeepsAll, OutsideInv DEF OutsideStep

\* Minting an id confirms and reverses nothing.
LEMMA MintKeeps ==
    ASSUME TypeInv, NEW x \in Txs, Fresh(x), Mint(x)
    PROVE  Confirmed' = Confirmed
BY SameConfirmed DEF Fresh, Mint

\* No basket is checked out.
NoCheckout ==
    \A b \in Baskets : bstate[b] = "open" => bstate'[b] = "open"

\* Opening a basket checks none out.
LEMMA OpenBasketKeeps ==
    ASSUME TypeInv, NEW b \in Baskets, OpenBasket(b)
    PROVE  NoCheckout
BY DEF NoCheckout, OpenBasket, TypeInv, TypeOK

\* The checkout page's requests.
LEMMA CheckoutSaga ==
    ASSUME TypeInv, SagaInv, NEW t \in Tabs,
           \/ CheckoutRead(t) \/ CheckoutConfig(t) \/ CheckoutPost(t)
           \/ ProcessPayment(t)
    PROVE  /\ SagaInv' /\ OutsideReq(t) /\ Confirmed' = Confirmed
           /\ UNCHANGED <<orders, late, bstate>>
<1>1. UNCHANGED <<orders, late, bstate>>
  BY DEF CheckoutRead, CheckoutConfig, CheckoutPost, ProcessPayment, carts
<1>2. Confirmed' = Confirmed
  <2>1. (\E x \in Txs : Fresh(x) /\ Mint(x)) \/ UNCHANGED tstatus
    BY DEF CheckoutRead, CheckoutConfig, CheckoutPost, ProcessPayment, gateway
  <2> QED
    BY <2>1, MintKeeps DEF Confirmed
<1>3. OutsideReq(t)
  <2>1. CASE CheckoutRead(t)
    <3>1. ASSUME NEW c, NEW x \in Txs,
                 req' = [req EXCEPT ![t].pc = "checkoutConfig",
                                    ![t].tx = x,
                                    ![t].seen = c,
                                    ![t].jar = NewAttempt(req[t].jar, x)]
          PROVE  OutsideReq(t)
      <4> DEFINE r == [req[t] EXCEPT !.pc = "checkoutConfig", !.tx = x,
                                     !.seen = c,
                                     !.jar = NewAttempt(req[t].jar, x)]
      <4>1. req' = [req EXCEPT ![t] = r]
        BY <3>1
      <4>2. req[t].made = Empty /\ req[t] \in Request
        BY <2>1, OutsideNow, TabType
           DEF CheckoutRead, PastApproval, ConfirmLabels, Outside
      <4>3. Outside(r)
        BY <4>2 DEF Outside, PastApproval, ConfirmLabels, Request
      <4> HIDE DEF r
      <4> QED BY <4>1, <4>3, OutsideUpdate
    <3> QED
      BY <2>1, <3>1, OutsideEnd DEF CheckoutRead, Fail
  <2>2. CASE CheckoutConfig(t) \/ CheckoutPost(t) \/ ProcessPayment(t)
    BY <2>2, OutsideEnd
       DEF CheckoutConfig, CheckoutPost, ProcessPayment, Fail, Answer
  <2> QED
    BY <2>1, <2>2
<1> QED
  BY <1>1, <1>2, <1>3, KeepsAll, OutsideInv DEF OutsideStep

\* The cart's requests.
LEMMA CartSaga ==
    ASSUME TypeInv, SagaInv, NEW t \in Tabs,
           \/ PutItem(t) \/ SearchCreateBasket(t) \/ FindBasket(t) \/ Search(t)
    PROVE  /\ SagaInv' /\ OutsideStep(t) /\ NoCheckout
           /\ UNCHANGED <<orders, tstatus>>
<1>1. UNCHANGED <<orders, tstatus>>
  BY DEF PutItem, SearchCreateBasket, FindBasket, Search, gateway
<1>2. Monotone
  BY <1>1, KeepsAll DEF Confirmed
<1>3. NoCheckout
  <2>1. UNCHANGED bstate \/ \E b \in Baskets : OpenBasket(b)
    BY DEF PutItem, SearchCreateBasket, FindBasket, Search, carts
  <2> QED
    BY <2>1, OpenBasketKeeps DEF NoCheckout
<1>4. \A v \in late' : v \in late \/ v[2].call \in {"confirm", "addItem",
                                                    "removeItem"}
  <2>1. CASE UNCHANGED late
    BY <2>1
  <2>2. ASSUME req[t].pc \in DOMAIN AfterPut,
               NEW b, NEW s,
               TimesOut([call |-> PutCall[req[t].pc], basket |-> b, item |-> s])
        PROVE  \A v \in late' : v \in late \/ v[2].call \in {"confirm",
                                                    "addItem", "removeItem"}
    BY <2>2 DEF TimesOut, PutCall, AfterPut
  <2> QED
    BY <2>1, <2>2 DEF PutItem, SearchCreateBasket, FindBasket, Search
<1>5. OutsideReq(t)
  <2>1. CASE FindBasket(t) \/ Search(t)
    BY <2>1, OutsideEnd DEF FindBasket, Search, Answer
  <2>2. ASSUME req[t].pc \notin PastApproval, NEW r,
               req' = [req EXCEPT ![t] = r],
               r.pc \notin PastApproval, r.made = req[t].made
        PROVE  OutsideReq(t)
    BY <2>2, OutsideNow, OutsideUpdate DEF Outside
  <2>3. req[t] \in Request
    BY TabType
  <2>4. CASE PutItem(t)
    <3>1. req[t].pc \in DOMAIN AfterPut /\ req[t].pc \notin PastApproval
      BY <2>4 DEF PutItem, AfterPut, PastApproval, ConfirmLabels
    <3>2. ASSUME NEW l, l \notin PastApproval, NEW n,
                 req' = [req EXCEPT ![t].pc = l, ![t].tries = n]
          PROVE  OutsideReq(t)
      <4> DEFINE r == [req[t] EXCEPT !.pc = l, !.tries = n]
      <4>1. req' = [req EXCEPT ![t] = r]
        BY <3>2
      <4>2. r.pc \notin PastApproval /\ r.made = req[t].made
        BY <2>3, <3>2 DEF Request
      <4> HIDE DEF r
      <4> QED BY <2>2, <3>1, <4>1, <4>2
    <3>3. ASSUME Retry(t)
          PROVE  OutsideReq(t)
      <4>1. CASE req' = [req EXCEPT ![t].tries = @ + 1]
        <5> DEFINE r == [req[t] EXCEPT !.tries = @ + 1]
        <5>1. req' = [req EXCEPT ![t] = r]
          BY <4>1
        <5>2. r.pc \notin PastApproval /\ r.made = req[t].made
          BY <2>3, <3>1 DEF Request
        <5> HIDE DEF r
        <5> QED BY <2>2, <3>1, <5>1, <5>2
      <4> QED
        BY <3>3, <4>1, OutsideEnd DEF Retry
    <3>4. /\ AfterPut[req[t].pc] \notin PastApproval
          /\ "searchCreate" \notin PastApproval
      BY <3>1 DEF AfterPut, PastApproval, ConfirmLabels
    <3>5. \/ \E l, n : /\ l \notin PastApproval
                       /\ req' = [req EXCEPT ![t].pc = l, ![t].tries = n]
          \/ Retry(t)
          \/ End(t)
      BY <2>4, <3>4, Zenon DEF PutItem
    <3> QED
      BY <3>2, <3>3, <3>5, OutsideEnd, Zenon
  <2>5. CASE SearchCreateBasket(t)
    <3>1. req[t].pc \notin PastApproval
      BY <2>5 DEF SearchCreateBasket, PastApproval, ConfirmLabels
    <3>2. ASSUME NEW id,
                 req' = [req EXCEPT ![t].pc = "searchAddAgain", ![t].bid = id]
          PROVE  OutsideReq(t)
      <4> DEFINE r == [req[t] EXCEPT !.pc = "searchAddAgain", !.bid = id]
      <4>1. req' = [req EXCEPT ![t] = r]
        BY <3>2
      <4>2. r.pc \notin PastApproval /\ r.made = req[t].made
        BY <2>3 DEF Request, PastApproval, ConfirmLabels
      <4> HIDE DEF r
      <4> QED BY <2>2, <3>1, <4>1, <4>2
    <3> QED
      BY <2>5, <3>2, OutsideEnd DEF SearchCreateBasket
  <2> QED
    BY <2>1, <2>4, <2>5
<1> QED
  BY <1>1, <1>2, <1>3, <1>4, <1>5, OutsideInv DEF OutsideStep

-----------------------------------------------------------------------------
(* The steps of a confirm *)

\* A step of tab t's confirm: the other requests are as they were.
LEMMA ConfirmUpdate ==
    ASSUME TypeInv, NEW t \in Tabs, NEW r, req' = [req EXCEPT ![t] = r],
           ConfirmOK(req[t])'
    PROVE  \A u \in Tabs : req'[u] = req[u] \/ ConfirmOK(req[u])'
<1>1. \A u \in Tabs \ {t} : req'[u] = req[u]
  BY DEF TypeInv, TypeOK
<1> QED
  BY <1>1

\* A confirm that ends owes nothing.
LEMMA ConfirmEnd ==
    ASSUME TypeInv, NEW t \in Tabs, End(t)
    PROVE  \A u \in Tabs : req'[u] = req[u] \/ ConfirmOK(req[u])'
BY OutsideEnd, OutsideOK DEF OutsideReq

\* The gateway's answer: only an approval lets the confirm go on.
LEMMA ConfirmAtGatewaySaga ==
    ASSUME TypeInv, SagaInv, NEW t \in Tabs, ConfirmAtGateway(t)
    PROVE  SagaInv' /\ UNCHANGED bstate
<1> DEFINE x == req[t].tx
           s == AfterConfirm(tstatus[x])
<1>1. /\ req[t] \in Request /\ x \in Txs /\ req[t].made = Empty
      /\ tstatus \in [Txs -> TxStatus] /\ req \in [Tabs -> Request]
  BY TabType, OutsideNow DEF ConfirmAtGateway, RequestOK, ConfirmLabels,
     PastApproval, Outside, TypeInv, TypeOK
<1>2. UNCHANGED <<orders, bstate>>
  BY DEF ConfirmAtGateway, carts
<1>3. Monotone
  <2>1. tstatus' = [tstatus EXCEPT ![x] = s] \/ UNCHANGED tstatus
    BY DEF ConfirmAtGateway
  <2> QED
    BY <1>1, <1>2, <2>1 DEF Monotone, AfterConfirm
<1>4. \A v \in late' : v \in late \/ LateOK(v[2])'
  <2>1. \A v \in late' : v \in late \/ v[2] = [call |-> "confirm", tx |-> x]
    BY TimesOutAdds DEF ConfirmAtGateway
  <2> QED
    BY <2>1 DEF LateOK
<1>5. \A u \in Tabs : req'[u] = req[u] \/ ConfirmOK(req[u])'
  <2>1. CASE /\ tstatus' = [tstatus EXCEPT ![x] = s]
             /\ Approved(s) /\ Goto(t, "financials")
    <3> DEFINE r == [req[t] EXCEPT !.pc = "financials"]
    <3>1. req' = [req EXCEPT ![t] = r]
      BY <2>1 DEF Goto
    <3>2. r.pc = "financials" /\ r.made = Empty /\ r.tx = x
      BY <1>1 DEF Request
    <3>3. tstatus'[x] = s
      BY <1>1, <2>1
    <3>4. ~EmptyMessages => tstatus'[x] = "confirmed"
      BY <2>1, <3>3 DEF Approved
    <3> HIDE DEF r
    <3>5. req'[t] = r
      BY <1>1, <3>1
    <3>6. ConfirmOK(req[t])'
      BY <3>2, <3>4, <3>5 DEF ConfirmOK, Rests, Ordered, HasOrders, Empty
    <3> QED
      BY <3>1, <3>6, ConfirmUpdate
  <2>2. CASE End(t)
    BY <2>2, ConfirmEnd
  <2> QED
    BY <2>1, <2>2 DEF ConfirmAtGateway
<1> QED
  BY <1>2, <1>3, <1>4, <1>5, SagaStep

\* The breakdown is read: no store has its order yet.
LEMMA ConfirmFinancialsSaga ==
    ASSUME TypeInv, SagaInv, NEW t \in Tabs, ConfirmFinancials(t)
    PROVE  SagaInv' /\ UNCHANGED bstate
<1>1. /\ req[t] \in Request /\ req[t].pc = "financials"
      /\ req \in [Tabs -> Request]
  BY TabType DEF ConfirmFinancials, TypeInv, TypeOK
<1>2. ConfirmOK(req[t])
  BY DEF SagaInv
<1>3. req[t].made = Empty /\ Rests(req[t].tx)
  BY <1>1, <1>2 DEF ConfirmOK, Ordered, Empty, PastApproval, ConfirmLabels
<1>4. UNCHANGED <<orders, bstate, late, tstatus>>
  BY DEF ConfirmFinancials, carts, gateway
<1>5. Monotone
  BY <1>4, KeepsAll DEF Confirmed
<1>6. \A u \in Tabs : req'[u] = req[u] \/ ConfirmOK(req[u])'
  <2>1. ASSUME NEW c \in Read(req[t].bid),
               req' = [req EXCEPT
                         ![t].pc = IF Lines(c) = {} THEN "checkoutBasket"
                                                    ELSE "createOrder",
                         ![t].seen = c,
                         ![t].todo = Lines(c)]
        PROVE  \A u \in Tabs : req'[u] = req[u] \/ ConfirmOK(req[u])'
    <3> DEFINE r == [req[t] EXCEPT
                       !.pc = IF Lines(c) = {} THEN "checkoutBasket"
                                               ELSE "createOrder",
                       !.seen = c,
                       !.todo = Lines(c)]
    <3>1. req' = [req EXCEPT ![t] = r]
      BY <2>1
    <3>2. /\ r.pc = IF Lines(c) = {} THEN "checkoutBasket" ELSE "createOrder"
          /\ r.seen = c /\ r.todo = Lines(c) /\ r.made = Empty
          /\ r.tx = req[t].tx
      BY <1>1, <1>3 DEF Request
    <3> HIDE DEF r
    <3>3. req'[t] = r
      BY <1>1, <3>1
    <3>4. Ordered(r) = {}
      BY <3>2 DEF Ordered
    <3>5. ConfirmOK(req[t])'
      BY <1>3, <1>4, <3>2, <3>3, <3>4
         DEF ConfirmOK, Rests, HasOrders, Empty, Ordered
    <3> QED
      BY <3>1, <3>5, ConfirmUpdate
  <2> QED
    BY <2>1, ConfirmEnd DEF ConfirmFinancials
<1> QED
  BY <1>4, <1>5, <1>6, SagaStep

\* One order of the loop: it rests on the confirm's payment, and the store is
\* done with exactly when the loop goes on.
LEMMA CreateOrderSaga ==
    ASSUME TypeInv, SagaInv, NEW t \in Tabs, CreateOrder(t)
    PROVE  SagaInv' /\ UNCHANGED bstate
<1>1. /\ req[t] \in Request /\ req[t].pc = "createOrder"
      /\ req \in [Tabs -> Request] /\ orders \in Seq(Order)
      /\ req[t].todo \subseteq Lines(req[t].seen)
      /\ UNCHANGED <<bstate, tstatus>>
  BY TabType DEF CreateOrder, TypeInv, TypeOK, RequestOK, carts, gateway
<1>2. PICK s \in req[t].todo :
          \/ /\ orders' = Append(orders, NewOrder(t, s))
             /\ req' = [req EXCEPT ![t].pc = AfterOrder(t, s),
                                   ![t].todo = @ \ {s},
                                   ![t].made[s] = @ + 1]
             /\ UNCHANGED late
          \/ /\ orders' = Append(orders, NewOrder(t, s))
             /\ AfterLostOrder(t, s)
             /\ UNCHANGED late
          \/ /\ TimesOut([call |-> "createOrder", order |-> NewOrder(t, s)])
             /\ AfterLostOrder(t, s)
             /\ UNCHANGED orders
          \/ End(t) /\ UNCHANGED <<orders, late>>
  BY DEF CreateOrder
<1> DEFINE o == NewOrder(t, s)
<1>3. /\ o \in Order /\ s \in Stores
      /\ o.basket = req[t].bid /\ o.store = s /\ o.qty = req[t].seen[s]
      /\ o.tx = req[t].tx
  BY <1>1, NewOrderType DEF NewOrder
<1>4. ConfirmOK(req[t])
  BY DEF SagaInv
<1>5. Rests(req[t].tx)
  BY <1>1, <1>4 DEF ConfirmOK, PastApproval, ConfirmLabels
<1> HIDE DEF o
<1>6. Range(orders') = Range(orders) \cup {o} \/ orders' = orders
  <2>1. orders' = Append(orders, o) \/ orders' = orders
    BY <1>2 DEF o
  <2>2. Range(Append(orders, o)) = Range(orders) \cup {o}
    BY <1>1, <1>3, AppendType
  <2> QED
    BY <2>1, <2>2
<1>7. Monotone
  BY <1>1, <1>6 DEF Monotone
<1>8. \A p \in Range(orders') : p \in Range(orders) \/ Rests(p.tx)'
  BY <1>1, <1>3, <1>5, <1>6 DEF Rests
<1>9. \A v \in late' : v \in late \/ LateOK(v[2])'
  <2>1. \A v \in late' : v \in late \/ v[2] = [call |-> "createOrder", order |-> o]
    BY <1>2, TimesOutAdds DEF o
  <2> QED
    BY <1>1, <1>3, <1>5, <2>1 DEF LateOK, Rests
<1>10. \A u \in Tabs : req'[u] = req[u] \/ ConfirmOK(req[u])'
  <2>1. CASE /\ orders' = Append(orders, o)
             /\ req' = [req EXCEPT ![t].pc = AfterOrder(t, s),
                                   ![t].todo = @ \ {s},
                                   ![t].made[s] = @ + 1]
    <3> DEFINE r == [req[t] EXCEPT !.pc = AfterOrder(t, s),
                                   !.todo = @ \ {s},
                                   !.made[s] = @ + 1]
    <3>1. req' = [req EXCEPT ![t] = r]
      BY <2>1
    <3>2. /\ r.pc = AfterOrder(t, s) /\ r.todo = req[t].todo \ {s}
          /\ r.made = [req[t].made EXCEPT ![s] = @ + 1]
          /\ r.seen = req[t].seen /\ r.bid = req[t].bid /\ r.tx = req[t].tx
      BY <1>1 DEF Request
    <3> HIDE DEF r
    <3>3. req'[t] = r
      BY <1>1, <3>1
    <3>4. /\ Ordered(req[t]) = Lines(req[t].seen) \ req[t].todo
          /\ Ordered(r) = Ordered(req[t]) \cup {s}
      BY <1>1, <3>2 DEF Ordered, AfterOrder
    <3>5. r.made = [q \in Stores |-> IF q \in Ordered(r) THEN 1 ELSE 0]
      <4>1. /\ req[t].made = [q \in Stores |-> IF q \in Ordered(req[t]) THEN 1
                                                                       ELSE 0]
            /\ s \notin Ordered(req[t])
        BY <1>4, <3>4 DEF ConfirmOK
      <4> QED
        BY <1>3, <3>2, <3>4, <4>1
    <3>6. o \in Range(orders') /\ Range(orders) \subseteq Range(orders')
      BY <1>1, <1>3, <2>1, AppendType
    <3>7. \A q \in Ordered(r) :
             \E p \in Range(orders') :
                /\ p.basket = r.bid /\ p.store = q
                /\ p.qty = r.seen[q] /\ p.tx = r.tx
      BY <1>3, <1>4, <3>2, <3>4, <3>6 DEF ConfirmOK, HasOrders
    <3>8. ConfirmOK(req[t])'
      BY <1>1, <1>5, <3>2, <3>3, <3>5, <3>7 DEF ConfirmOK, Rests, HasOrders, Ordered
    <3> QED
      BY <3>1, <3>8, ConfirmUpdate
  <2>2. CASE End(t)
    BY <2>2, ConfirmEnd
  <2> QED
    BY <1>2, <2>1, <2>2 DEF AfterLostOrder, o
<1> QED
  BY <1>1, <1>7, <1>8, <1>9, <1>10, SagaStep

\* Only a confirm whose loop is complete checks its basket out; what it leaves
\* behind, if it times out, knows so.
LEMMA CheckoutBasketSaga ==
    ASSUME TypeInv, SagaInv, NEW t \in Tabs, CheckoutBasket(t)
    PROVE  SagaInv'
<1>1. /\ req[t] \in Request /\ req[t].pc = "checkoutBasket"
      /\ req \in [Tabs -> Request]
  BY TabType DEF CheckoutBasket, TypeInv, TypeOK
<1>2. UNCHANGED <<orders, tstatus>>
  BY DEF CheckoutBasket, gateway
<1>3. Monotone
  BY <1>2, KeepsAll DEF Confirmed
<1>4. /\ ConfirmOK(req[t]) /\ Ordered(req[t]) = Lines(req[t].seen)
      /\ Rests(req[t].tx)
  BY <1>1 DEF SagaInv, Ordered, ConfirmOK, PastApproval, ConfirmLabels
<1>5. \A v \in late' : v \in late \/ LateOK(v[2])'
  <2> DEFINE w == [call |-> "checkoutBasket", basket |-> req[t].bid,
                   tx |-> req[t].tx, lines |-> req[t].seen]
  <2>1. \A v \in late' : v \in late \/ v[2] = w
    BY TimesOutAdds DEF CheckoutBasket
  <2>2. /\ w.call = "checkoutBasket" /\ w.basket = req[t].bid
        /\ w.tx = req[t].tx /\ w.lines = req[t].seen
    OBVIOUS
  <2> HIDE DEF w
  <2>3. LateOK(w)
    BY <1>4, <2>2 DEF LateOK, ConfirmOK
  <2> QED
    BY <1>2, <2>1, <2>3 DEF LateOK, Rests, HasOrders
<1>6. \A u \in Tabs : req'[u] = req[u] \/ ConfirmOK(req[u])'
  <2>1. CASE Goto(t, "createBasket")
    <3> DEFINE r == [req[t] EXCEPT !.pc = "createBasket"]
    <3>1. req' = [req EXCEPT ![t] = r]
      BY <2>1 DEF Goto
    <3>2. /\ r.pc = "createBasket" /\ r.made = req[t].made
          /\ r.seen = req[t].seen /\ r.bid = req[t].bid /\ r.tx = req[t].tx
      BY <1>1 DEF Request
    <3> HIDE DEF r
    <3>3. req'[t] = r
      BY <1>1, <3>1
    <3>4. Ordered(r) = Ordered(req[t])
      BY <1>4, <3>2 DEF Ordered
    <3>5. ConfirmOK(r)
      BY <1>4, <3>2, <3>4 DEF ConfirmOK
    <3>6. ConfirmOK(req[t])'
      BY <1>2, <3>3, <3>5 DEF ConfirmOK, Rests, HasOrders, Ordered
    <3> QED
      BY <3>1, <3>6, ConfirmUpdate
  <2> QED
    BY <2>1, ConfirmEnd DEF CheckoutBasket
<1> QED
  BY <1>2, <1>3, <1>5, <1>6, SagaStep

\* The confirm's last call opens a basket.
LEMMA CreateBasketSaga ==
    ASSUME TypeInv, SagaInv, NEW t \in Tabs, CreateBasket(t)
    PROVE  SagaInv' /\ NoCheckout
<1>1. UNCHANGED <<orders, tstatus, late>> /\ End(t)
  BY DEF CreateBasket, gateway, Answer
<1>2. NoCheckout
  BY OpenBasketKeeps DEF CreateBasket, carts, NoCheckout
<1>3. SagaInv'
  BY <1>1, KeepsAll, ConfirmEnd, SagaStep DEF Confirmed
<1> QED
  BY <1>2, <1>3

\* A call left behind takes effect: what it changes rests on its confirm.
LEMMA LandSaga ==
    ASSUME TypeInv, SagaInv, NEW v \in late, Land(v)
    PROVE  SagaInv'
<1> DEFINE w == v[2]
<1>1. /\ late' \subseteq late /\ UNCHANGED req /\ w \in LateCall
      /\ orders \in Seq(Order) /\ tstatus \in [Txs -> TxStatus]
  BY DEF Land, TypeInv, TypeOK
<1>2. LateOK(w)
  BY DEF SagaInv
<1>3. CASE UNCHANGED <<orders, tstatus>>
  BY <1>1, <1>3, KeepsAll, SagaStep DEF Confirmed
<1>4. CASE /\ w.call = "confirm" /\ UNCHANGED orders
           /\ tstatus' = [tstatus EXCEPT ![w.tx] = AfterConfirm(@)]
  <2>1. Monotone
    BY <1>1, <1>4 DEF Monotone, AfterConfirm
  <2> QED
    BY <1>1, <1>4, <2>1, SagaStep
<1>5. CASE /\ w.call = "createOrder" /\ UNCHANGED tstatus
           /\ orders' = Append(orders, w.order)
  <2>1. w.order \in Order /\ Rests(w.order.tx)
    BY <1>1, <1>2, <1>5 DEF LateCall, LateOK
  <2>2. Range(orders') = Range(orders) \cup {w.order}
    BY <1>1, <1>5, <2>1, AppendType
  <2>3. Monotone
    BY <1>5, <2>2 DEF Monotone
  <2>4. \A o \in Range(orders') : o \in Range(orders) \/ Rests(o.tx)'
    BY <1>5, <2>1, <2>2 DEF Rests
  <2> QED
    BY <1>1, <2>3, <2>4, SagaStep
<1> QED
  BY <1>3, <1>4, <1>5 DEF Land, carts

-----------------------------------------------------------------------------
(* The theorems *)

\* At login there is no order, no request and no call under way.
LEMMA InitSaga == Init => SagaInv
<1> SUFFICES ASSUME Init
             PROVE  SagaInv
  OBVIOUS
<1>1. orders = << >> /\ late = {} /\ req = [t \in Tabs |-> NoRequest]
  BY Zenon DEF Init
<1>2. Range(orders) = {}
  BY <1>1 DEF Range
<1>3. ConfirmOK(NoRequest)
  BY DEF ConfirmOK, NoRequest, PastApproval, ConfirmLabels, Ordered, HasOrders,
         Empty
<1> QED
  BY <1>1, <1>2, <1>3 DEF SagaInv

\* Every step keeps the saga's invariant.
LEMMA NextSaga == TypeInv /\ SagaInv /\ [Next]_vars => SagaInv'
<1> SUFFICES ASSUME TypeInv, SagaInv, [Next]_vars
             PROVE  SagaInv'
  OBVIOUS
<1>1. ASSUME NEW t \in Tabs, Serve(t)
      PROVE  SagaInv'
  BY <1>1, CheckoutSaga, CartSaga, ConfirmAtGatewaySaga,
     ConfirmFinancialsSaga, CreateOrderSaga, CheckoutBasketSaga,
     CreateBasketSaga
     DEF Serve
<1>2. ASSUME NEW t \in Tabs, Shopper(t)
      PROVE  SagaInv'
  BY <1>2, ShopperSaga
<1>3. ASSUME NEW x \in Txs, Reverse(x)
      PROVE  SagaInv'
  <2>1. UNCHANGED <<orders, late, req>> /\ Confirmed' = Confirmed
    BY <1>3, SameConfirmed DEF Reverse
  <2> QED
    BY <2>1, KeepsAll, SagaStep
<1>4. CASE \E v \in late : Land(v)
  BY <1>4, LandSaga
<1>5. CASE UNCHANGED vars
  <2>1. UNCHANGED <<orders, late, req>> /\ Confirmed' = Confirmed
    BY <1>5 DEF vars, Confirmed
  <2> QED
    BY <2>1, KeepsAll, SagaStep
<1> QED
  BY <1>1, <1>2, <1>3, <1>4, <1>5 DEF Next

\* The inductive invariant holds in every reachable state.
THEOREM InductiveInvariant == Spec => []IInv
<1>1. Init => TypeInv /\ SagaInv /\ AttemptInv
  BY InitType, InitSaga, InitAttempt
<1>2. /\ TypeInv /\ SagaInv /\ AttemptInv /\ [Next]_vars
      => (TypeInv /\ SagaInv /\ AttemptInv)'
  BY NextType, NextSaga, NextAttempt
<1>3. TypeInv /\ SagaInv /\ AttemptInv => IInv
  BY DEF IInv, AttemptInv
<1> QED
  BY <1>1, <1>2, <1>3, PTL DEF Spec

\* If PayPhone says why it refuses a payment, an order exists only under a
\* payment it has confirmed, whatever races, fails, times out or lands late.
THEOREM OrdersConfirmed ==
    ASSUME ~EmptyMessages
    PROVE  Spec => []OrdersOnlyForConfirmedPayments
<1>1. IInv => OrdersOnlyForConfirmedPayments
  BY DEF IInv, SagaInv, Rests, OrdersOnlyForConfirmedPayments
<1> QED
  BY <1>1, InductiveInvariant, PTL

\* One pass of ConfirmPayment never creates two orders for a store.
THEOREM OneOrderPerStore == Spec => []OneOrderPerStorePerConfirm
<1>1. IInv => OneOrderPerStorePerConfirm
  <2>1. ASSUME IInv, NEW t \in Tabs, NEW s \in Stores
        PROVE  req[t].made[s] <= 1
    <3>1. req[t].made = [q \in Stores |-> IF q \in Ordered(req[t]) THEN 1 ELSE 0]
      BY <2>1 DEF IInv, SagaInv, ConfirmOK
    <3>2. req[t].made[s] = 1 \/ req[t].made[s] = 0
      BY <3>1
    <3> QED
      BY <3>2
  <2> QED
    BY <2>1 DEF OneOrderPerStorePerConfirm
<1> QED
  BY <1>1, InductiveInvariant, PTL

\* The step that checks a basket out is that of a confirm, or of a call it left
\* behind, that had created all its orders.
LEMMA CheckoutStep ==
    ASSUME ~EmptyMessages, IInv, [Next]_vars, NEW b \in Baskets,
           bstate[b] = "open", bstate'[b] = "checkedOut"
    PROVE  OrderedBefore(b)
<1>1. TypeInv /\ SagaInv
  BY DEF IInv
<1>2. ASSUME NEW t \in Tabs, CheckoutBasket(t)
      PROVE  OrderedBefore(b)
  <2>1. req[t].pc = "checkoutBasket" /\ req[t].bid = b
    BY <1>1, <1>2 DEF CheckoutBasket, TypeInv, TypeOK
  <2>2. /\ ConfirmOK(req[t]) /\ Ordered(req[t]) = Lines(req[t].seen)
        /\ Rests(req[t].tx)
    BY <1>1, <2>1 DEF SagaInv, Ordered, ConfirmOK, PastApproval, ConfirmLabels
  <2>3. OrderedFor(b, req[t].tx, req[t].seen)
    BY <2>1, <2>2 DEF OrderedFor, ConfirmOK, HasOrders, Rests
  <2>4. \A s \in Stores :
           req[t].made[s] = IF s \in Lines(req[t].seen) THEN 1 ELSE 0
    BY <2>2 DEF ConfirmOK
  <2> QED
    BY <2>1, <2>3, <2>4 DEF OrderedBefore
<1>3. ASSUME NEW v \in late, Land(v)
      PROVE  OrderedBefore(b)
  <2> DEFINE w == v[2]
  <2>1. w.call = "checkoutBasket" /\ w.basket = b
    BY <1>1, <1>3 DEF Land, TypeInv, TypeOK, carts
  <2>2. LateOK(w)
    BY <1>1 DEF SagaInv
  <2>3. OrderedFor(b, w.tx, w.lines)
    BY <2>1, <2>2 DEF LateOK, OrderedFor, HasOrders, Rests
  <2> QED
    BY <2>1, <2>3 DEF OrderedBefore
<1>4. ASSUME NEW t \in Tabs, Serve(t), ~CheckoutBasket(t)
      PROVE  FALSE
  <2>1. bstate' = bstate \/ NoCheckout
    BY <1>1, <1>4, CheckoutSaga, CartSaga, ConfirmAtGatewaySaga,
       ConfirmFinancialsSaga, CreateOrderSaga, CreateBasketSaga
       DEF Serve
  <2> QED
    BY <2>1 DEF NoCheckout
<1>5. ASSUME \/ \E t \in Tabs : Shopper(t)
             \/ \E x \in Txs : Reverse(x)
             \/ UNCHANGED vars
      PROVE  FALSE
  <2>1. UNCHANGED bstate
    BY <1>1, <1>5, ShopperSaga DEF Reverse, carts, vars
  <2> QED
    BY <2>1
<1> QED
  BY <1>2, <1>3, <1>4, <1>5 DEF Next

\* A basket is checked out only after every store of the breakdown its confirm
\* read has its order, under a payment that is confirmed.
THEOREM CheckoutAfterOrders ==
    ASSUME ~EmptyMessages
    PROVE  Spec => CheckoutOnlyAfterOrders
<1>1. IInv /\ [Next]_vars =>
         [\A b \in Baskets :
             bstate[b] = "open" /\ bstate'[b] = "checkedOut"
                => OrderedBefore(b)]_vars
  BY CheckoutStep
<1> QED
  BY <1>1, InductiveInvariant, PTL DEF Spec, CheckoutOnlyAfterOrders
=============================================================================
