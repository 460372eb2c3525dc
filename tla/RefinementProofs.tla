-------------------------- MODULE RefinementProofs --------------------------
(***************************************************************************)
(* The storefront implements PaymentSaga: however requests interleave and  *)
(* calls fail, what confirms do to payments, orders and baskets is what    *)
(* runs of the abstract saga do.                                           *)
(***************************************************************************)
EXTENDS PaymentProofs

\* The saga's state, as the storefront's state shows it.
SagaLate  == {v \in late : v[2].call \in {"createOrder", "checkoutBasket"}}
Closed    == {b \in Baskets : bstate[b] = "checkedOut"}
RunMap    == [t \in Tabs |-> RunOf(req[t])]
RunLabels == {"createOrder", "checkoutBasket"}

\* A step the saga does not see.
LEMMA SagaStutter ==
    ASSUME UNCHANGED orders, Confirmed' = Confirmed, SagaLate' = SagaLate,
           Closed' = Closed, RunMap' = RunMap
    PROVE  UNCHANGED Saga!vars
BY DEF Saga!vars, Confirmed, SagaLate, Closed, RunMap

\* A login is the saga's beginning.
LEMMA RefineInit == Init => Saga!Init
<1> SUFFICES ASSUME Init
             PROVE  Saga!Init
  OBVIOUS
<1>1. /\ orders = << >> /\ late = {} /\ req = [t \in Tabs |-> NoRequest]
      /\ tstatus = [x \in Txs |-> "unused"]
      /\ \E b \in Baskets :
            bstate = [x \in Baskets |-> IF x = b THEN "open" ELSE "absent"]
  BY Zenon DEF Init
<1>2. RunOf(NoRequest) = None
  BY DEF RunOf, NoRequest
<1> QED
  BY <1>1, <1>2 DEF Saga!Init

\* Opening a basket closes and reopens none.
LEMMA OpenKeepsClosed ==
    ASSUME TypeInv, NEW b \in Baskets, OpenBasket(b)
    PROVE  Closed' = Closed
BY DEF Closed, OpenBasket, TypeInv, TypeOK

\* When one tab's request changes, the saga sees at most that tab's run change.
LEMMA RunUpdate ==
    ASSUME NEW t \in Tabs, \A u \in Tabs \ {t} : req'[u] = req[u]
    PROVE  RunMap' = [RunMap EXCEPT ![t] = RunOf(req'[t])]
BY DEF RunMap

\* The saga does not see requests that are at neither end a run.
LEMMA NoRunUpdate ==
    ASSUME NEW t \in Tabs, \A u \in Tabs \ {t} : req'[u] = req[u],
           req[t].pc \notin RunLabels, req'[t].pc \notin RunLabels
    PROVE  RunMap' = RunMap
BY DEF RunMap, RunOf, RunLabels

\* What a request at a run's labels maps to.
LEMMA RunType ==
    ASSUME TypeInv, NEW t \in Tabs, req[t].pc \in RunLabels
    PROVE  /\ RunMap[t] = [basket |-> req[t].bid, tx |-> req[t].tx,
                           lines |-> req[t].seen, left |-> req[t].todo]
           /\ RunMap[t] # None
<1>1. /\ req[t] \in Request /\ req[t].bid \in Baskets /\ req[t].tx \in Txs
      /\ req[t].seen \in Contents /\ req[t].todo \in SUBSET Stores
  BY TabType DEF RunLabels, Request, RequestOK, NeedsBasket, Labels,
                 ConfirmLabels
<1>2. RunMap[t] = [basket |-> req[t].bid, tx |-> req[t].tx,
                   lines |-> req[t].seen, left |-> req[t].todo]
  BY DEF RunMap, RunOf, RunLabels
<1>3. RunMap[t] \in [basket : Baskets, tx : Txs,
                     lines : [Stores -> 0 .. MaxQty], left : SUBSET Stores]
  BY <1>1, <1>2 DEF Contents
<1> QED
  BY <1>2, <1>3, ConstantsAssumption

\* The request of a tab that ends, and what the saga sees of it.
LEMMA EndRun ==
    ASSUME TypeInv, NEW t \in Tabs, End(t)
    PROVE  /\ RunMap' = [RunMap EXCEPT ![t] = None]
           /\ \A u \in Tabs \ {t} : req'[u] = req[u]
           /\ req'[t].pc \notin RunLabels
<1>1. req'[t] = NoRequest /\ \A u \in Tabs \ {t} : req'[u] = req[u]
  BY DEF End, TypeInv, TypeOK
<1>2. RunOf(NoRequest) = None /\ NoRequest.pc \notin RunLabels
  BY DEF RunOf, NoRequest, RunLabels
<1> QED
  BY <1>1, <1>2, RunUpdate

-----------------------------------------------------------------------------
(* Steps the saga does not see *)

\* The shopper, the checkout page and the cart.
LEMMA OutsideRefines ==
    ASSUME TypeInv, SagaInv, NEW t \in Tabs,
           \/ Shopper(t)
           \/ CheckoutRead(t) \/ CheckoutConfig(t) \/ CheckoutPost(t)
           \/ ProcessPayment(t)
           \/ PutItem(t) \/ SearchCreateBasket(t) \/ FindBasket(t) \/ Search(t)
    PROVE  UNCHANGED Saga!vars
<1>1. CASE \/ Shopper(t)
           \/ CheckoutRead(t) \/ CheckoutConfig(t) \/ CheckoutPost(t)
           \/ ProcessPayment(t)
  <2>1. /\ OutsideReq(t) /\ Confirmed' = Confirmed
        /\ UNCHANGED <<orders, late, bstate>>
    BY <1>1, ShopperSaga, CheckoutSaga
  <2>2. req[t].pc \notin RunLabels \/ UNCHANGED req
    BY <1>1
       DEF Shopper, StartCheckout, StartCheckoutPost, StartProcessPayment, Pay,
           CancelPayment, StartConfirm, StartCartRequest, StartSearch,
           MayStart, Idle, CheckoutRead, CheckoutConfig, CheckoutPost,
           ProcessPayment, RunLabels
  <2>3. RunMap' = RunMap
    <3>1. CASE UNCHANGED req
      BY <3>1 DEF RunMap
    <3>2. CASE req[t].pc \notin RunLabels
      BY <2>1, <3>2, NoRunUpdate
         DEF OutsideReq, Outside, PastApproval, ConfirmLabels, RunLabels
    <3> QED
      BY <2>2, <3>1, <3>2
  <2>4. SagaLate' = SagaLate /\ Closed' = Closed
    BY <2>1 DEF SagaLate, Closed
  <2> QED
    BY <2>1, <2>3, <2>4, SagaStutter
<1>2. CASE PutItem(t) \/ SearchCreateBasket(t) \/ FindBasket(t) \/ Search(t)
  <2>1. OutsideStep(t) /\ UNCHANGED <<orders, tstatus>>
    BY <1>2, CartSaga
  <2>2. req[t].pc \notin RunLabels
    BY <1>2 DEF PutItem, AfterPut, SearchCreateBasket, FindBasket, Search,
                RunLabels
  <2>3. RunMap' = RunMap
    BY <2>1, <2>2, NoRunUpdate
       DEF OutsideStep, OutsideReq, Outside, PastApproval, ConfirmLabels,
           RunLabels
  <2>4. Confirmed' = Confirmed
    BY <2>1 DEF Confirmed
  <2>5. late \subseteq late'
    BY <1>2 DEF PutItem, SearchCreateBasket, FindBasket, Search, TimesOut
  <2>6. SagaLate' = SagaLate
    BY <2>1, <2>5 DEF SagaLate, OutsideStep
  <2>7. Closed' = Closed
    <3>1. UNCHANGED bstate \/ \E b \in Baskets : OpenBasket(b)
      BY <1>2 DEF PutItem, SearchCreateBasket, FindBasket, Search, carts
    <3> QED
      BY <3>1, OpenKeepsClosed DEF Closed
  <2> QED
    BY <2>1, <2>3, <2>4, <2>6, <2>7, SagaStutter
<1> QED
  BY <1>1, <1>2

\* The confirm's last call.
LEMMA CreateBasketRefines ==
    ASSUME TypeInv, NEW t \in Tabs, CreateBasket(t)
    PROVE  UNCHANGED Saga!vars
<1>1. UNCHANGED <<orders, tstatus, late>> /\ End(t)
  BY DEF CreateBasket, gateway, Answer
<1>2. RunMap' = RunMap
  BY <1>1, EndRun, NoRunUpdate DEF CreateBasket, RunLabels
<1>3. Closed' = Closed
  BY OpenKeepsClosed DEF CreateBasket, carts, Closed
<1> QED
  BY <1>1, <1>2, <1>3, SagaStutter DEF Confirmed, SagaLate

-----------------------------------------------------------------------------
(* Steps of the saga *)

\* A confirmation at the gateway is one of the saga's; a refusal is nothing.
LEMMA GatewayRefines ==
    ASSUME NEW x \in Txs, TypeInv, UNCHANGED orders, SagaLate' = SagaLate,
           Closed' = Closed, RunMap' = RunMap,
           tstatus' = [tstatus EXCEPT ![x] = AfterConfirm(tstatus[x])]
    PROVE  Saga!ConfirmTx(x) \/ UNCHANGED Saga!vars
<1>1. CASE tstatus[x] = "paid"
  <2>1. Confirmed' = Confirmed \cup {x}
    BY <1>1 DEF Confirmed, AfterConfirm, TypeInv, TypeOK
  <2> QED
    BY <2>1 DEF Saga!ConfirmTx, Confirmed, SagaLate, Closed, RunMap
<1>2. CASE tstatus[x] # "paid"
  <2>1. Confirmed' = Confirmed
    BY <1>2 DEF Confirmed, AfterConfirm, TypeInv, TypeOK
  <2> QED
    BY <2>1, SagaStutter
<1> QED
  BY <1>1, <1>2

\* The confirm call is a confirmation of the saga, or nothing.
LEMMA ConfirmAtGatewayRefines ==
    ASSUME TypeInv, NEW t \in Tabs, ConfirmAtGateway(t)
    PROVE  \/ \E x \in Txs : Saga!ConfirmTx(x)
           \/ UNCHANGED Saga!vars
<1> DEFINE x == req[t].tx
<1>1. x \in Txs /\ UNCHANGED <<orders, bstate>> /\ req \in [Tabs -> Request]
  BY TabType DEF ConfirmAtGateway, RequestOK, ConfirmLabels, carts, TypeInv,
                 TypeOK
<1>2. RunMap' = RunMap
  <2>1. End(t) \/ Goto(t, "financials")
    BY DEF ConfirmAtGateway
  <2>2. /\ \A u \in Tabs \ {t} : req'[u] = req[u]
        /\ req'[t].pc \notin RunLabels
    <3>1. CASE Goto(t, "financials")
      BY <1>1, <3>1 DEF Goto, RunLabels, Request
    <3> QED
      BY <2>1, <3>1, EndRun
  <2> QED
    BY <2>2, NoRunUpdate DEF ConfirmAtGateway, RunLabels
<1>3. SagaLate' = SagaLate
  <2>1. CASE UNCHANGED late
    BY <2>1 DEF SagaLate
  <2>2. CASE TimesOut([call |-> "confirm", tx |-> x])
    BY <2>2 DEF TimesOut, SagaLate
  <2> QED
    BY <2>1, <2>2 DEF ConfirmAtGateway
<1>4. Closed' = Closed
  BY <1>1 DEF Closed
<1>5. CASE UNCHANGED tstatus
  BY <1>1, <1>2, <1>3, <1>4, <1>5, SagaStutter DEF Confirmed
<1>6. CASE tstatus' = [tstatus EXCEPT ![x] = AfterConfirm(tstatus[x])]
  BY <1>1, <1>2, <1>3, <1>4, <1>6, GatewayRefines
<1> QED
  BY <1>5, <1>6 DEF ConfirmAtGateway

\* Reading the breakdown begins a run.
LEMMA ConfirmFinancialsRefines ==
    ASSUME ~EmptyMessages, TypeInv, SagaInv, NEW t \in Tabs,
           ConfirmFinancials(t)
    PROVE  Saga!Begin(t) \/ UNCHANGED Saga!vars
<1>1. /\ req[t] \in Request /\ req[t].pc = "financials"
      /\ req \in [Tabs -> Request] /\ req[t].bid \in Baskets
      /\ req[t].tx \in Txs
      /\ UNCHANGED <<orders, late, bstate, tstatus>>
  BY TabType DEF ConfirmFinancials, TypeInv, TypeOK, RequestOK, NeedsBasket,
                 Labels, ConfirmLabels, carts, gateway
<1>2. req[t].tx \in Confirmed
  BY <1>1 DEF SagaInv, ConfirmOK, Rests, PastApproval, ConfirmLabels, Confirmed
<1>3. SagaLate' = SagaLate /\ Closed' = Closed /\ Confirmed' = Confirmed
  BY <1>1 DEF SagaLate, Closed, Confirmed
<1>4. CASE End(t)
  <2>1. RunMap' = RunMap
    BY <1>1, <1>4, EndRun, NoRunUpdate DEF RunLabels
  <2> QED
    BY <1>1, <1>3, <2>1, SagaStutter
<1>5. ASSUME NEW c \in Read(req[t].bid),
             req' = [req EXCEPT
                       ![t].pc = IF Lines(c) = {} THEN "checkoutBasket"
                                                  ELSE "createOrder",
                       ![t].seen = c,
                       ![t].todo = Lines(c)]
      PROVE  Saga!Begin(t)
  <2> DEFINE r == [basket |-> req[t].bid, tx |-> req[t].tx, lines |-> c,
                   left |-> Lines(c)]
  <2>1. c \in Contents
    BY <1>1, ReadType
  <2>2. /\ \A u \in Tabs \ {t} : req'[u] = req[u]
        /\ req'[t].pc \in {"createOrder", "checkoutBasket"}
        /\ req'[t].bid = req[t].bid /\ req'[t].tx = req[t].tx
        /\ req'[t].seen = c /\ req'[t].todo = Lines(c)
    BY <1>1, <1>5 DEF Request
  <2>3. RunOf(req'[t]) = r
    BY <2>2 DEF RunOf
  <2>4. RunMap' = [RunMap EXCEPT ![t] = r]
    BY <2>2, <2>3, RunUpdate
  <2>5. RunMap[t] = None
    BY <1>1 DEF RunMap, RunOf
  <2>6. \E x \in Confirmed, b \in Baskets, d \in [Stores -> 0 .. MaxQty] :
           RunMap' = [RunMap EXCEPT ![t] =
                        [basket |-> b, tx |-> x, lines |-> d,
                         left |-> {s \in Stores : d[s] > 0}]]
    BY <1>1, <1>2, <2>1, <2>4 DEF Contents, Lines
  <2> QED
    BY <1>1, <1>3, <2>5, <2>6
       DEF Saga!Begin, RunMap, Confirmed, Closed, SagaLate
<1> QED
  BY <1>4, <1>5 DEF ConfirmFinancials

\* A run may leave behind, under way, the calls UnderWay names.
LEMMA GiveUpRefines ==
    ASSUME TypeInv, NEW t \in Tabs, req[t].pc \in RunLabels, End(t),
           UNCHANGED orders, Confirmed' = Confirmed, Closed' = Closed,
           \/ UNCHANGED late
           \/ \E w \in Saga!UnderWay(t) : TimesOut(w)
    PROVE  Saga!GiveUp(t)
<1>1. RunMap[t] # None /\ RunMap' = [RunMap EXCEPT ![t] = None]
  BY RunType, EndRun
<1>2. \/ SagaLate' = SagaLate
      \/ \E w \in Saga!UnderWay(t), n \in Copies :
            <<n, w>> \notin SagaLate /\ SagaLate' = SagaLate \cup {<<n, w>>}
  <2>1. CASE UNCHANGED late
    BY <2>1 DEF SagaLate
  <2>2. ASSUME NEW w \in Saga!UnderWay(t), TimesOut(w)
        PROVE  \E n \in Copies : /\ <<n, w>> \notin SagaLate
                                 /\ SagaLate' = SagaLate \cup {<<n, w>>}
    <3>1. w.call \in {"createOrder", "checkoutBasket"}
      BY <2>2 DEF Saga!UnderWay
    <3>2. PICK n \in Copies : <<n, w>> \notin late /\ late' = late \cup {<<n, w>>}
      BY <2>2 DEF TimesOut
    <3> QED
      BY <3>1, <3>2 DEF SagaLate
  <2> QED
    BY <2>1, <2>2
<1> QED
  BY <1>1, <1>2 DEF Saga!GiveUp, RunMap, Confirmed, Closed, SagaLate

\* An order of the loop is an order of the run.
LEMMA NewOrderLeft ==
    ASSUME TypeInv, NEW t \in Tabs, req[t].pc = "createOrder",
           NEW s \in req[t].todo
    PROVE  NewOrder(t, s) \in Saga!OrdersLeft(t)
<1>1. RunMap[t] = [basket |-> req[t].bid, tx |-> req[t].tx,
                   lines |-> req[t].seen, left |-> req[t].todo]
  BY RunType DEF RunLabels
<1>2. PaymentID(t) \in Txs /\ req[t].jar.shippingAddressID \in Addresses
  BY TabType DEF RequestOK, ConfirmLabels, PaymentID, Cookie
<1>3. RunOf(req[t]) = RunMap[t]
  BY DEF RunMap
<1> QED
  BY <1>1, <1>2, <1>3 DEF Saga!OrdersLeft, NewOrder

\* One order of the loop: the run goes on or gives up.
LEMMA CreateOrderRefines ==
    ASSUME TypeInv, NEW t \in Tabs, CreateOrder(t)
    PROVE  Saga!Place(t) \/ Saga!GiveUp(t)
<1>1. /\ req[t] \in Request /\ req[t].pc = "createOrder"
      /\ req \in [Tabs -> Request] /\ req[t].pc \in RunLabels
      /\ UNCHANGED <<bstate, tstatus>>
  BY TabType DEF CreateOrder, TypeInv, TypeOK, carts, gateway, RunLabels
<1>2. PICK s \in req[t].todo :
          \/ /\ orders' = Append(orders, NewOrder(t, s))
             /\ req' = [req EXCEPT ![t].pc = AfterOrder(t, s),
                                   ![t].todo = @ \ {s},
                                   ![t].made[s] = @ + 1]
             /\ UNCHANGED late
          \/ /\ orders' = Append(orders, NewOrder(t, s))
             /\ AfterLostOrder(t, s)
             /\ UNCHANGED late
          \/ /\ TimesOut([call |-> "createOrder", order |-> NewOrder(t, s)])
             /\ AfterLostOrder(t, s)
             /\ UNCHANGED orders
          \/ End(t) /\ UNCHANGED <<orders, late>>
  BY DEF CreateOrder
<1> DEFINE o == NewOrder(t, s)
<1>3. o \in Saga!OrdersLeft(t) /\ o.store = s
  BY <1>1, NewOrderLeft DEF NewOrder
<1> HIDE DEF o
<1>4. Closed' = Closed /\ Confirmed' = Confirmed
  BY <1>1 DEF Closed, Confirmed
<1>5. /\ RunMap[t] = [basket |-> req[t].bid, tx |-> req[t].tx,
                      lines |-> req[t].seen, left |-> req[t].todo]
      /\ RunMap[t] # None
  BY <1>1, RunType
<1>6. ASSUME orders' = Append(orders, o), UNCHANGED late,
             \/ RunMap' = [RunMap EXCEPT ![t].left = @ \ {s}]
             \/ RunMap' = [RunMap EXCEPT ![t] = None]
      PROVE  Saga!Place(t)
  <2>1. SagaLate' = SagaLate
    BY <1>6 DEF SagaLate
  <2>2. \E p \in Saga!OrdersLeft(t) :
           /\ orders' = Append(orders, p)
           /\ RunMap' \in {[RunMap EXCEPT ![t].left = @ \ {p.store}],
                           [RunMap EXCEPT ![t] = None]}
    BY <1>3, <1>6
  <2> QED
    BY <1>4, <1>5, <2>1, <2>2
       DEF Saga!Place, RunMap, Confirmed, Closed, SagaLate
<1>7. CASE /\ orders' = Append(orders, o) /\ UNCHANGED late
           /\ req' = [req EXCEPT ![t].pc = AfterOrder(t, s),
                                 ![t].todo = @ \ {s},
                                 ![t].made[s] = @ + 1]
  <2>1. /\ \A u \in Tabs \ {t} : req'[u] = req[u]
        /\ req'[t].pc \in {"createOrder", "checkoutBasket"}
        /\ req'[t].bid = req[t].bid /\ req'[t].tx = req[t].tx
        /\ req'[t].seen = req[t].seen /\ req'[t].todo = req[t].todo \ {s}
    BY <1>1, <1>7 DEF Request, AfterOrder
  <2>2. RunOf(req'[t]) = [RunMap[t] EXCEPT !.left = @ \ {s}]
    BY <1>5, <2>1 DEF RunOf
  <2>3. RunMap' = [RunMap EXCEPT ![t].left = @ \ {s}]
    BY <2>1, <2>2, RunUpdate
  <2> QED
    BY <1>6, <1>7, <2>3
<1>8. CASE orders' = Append(orders, o) /\ UNCHANGED late /\ End(t)
  BY <1>6, <1>8, EndRun
<1>9. CASE End(t) /\ UNCHANGED <<orders, late>>
  BY <1>1, <1>4, <1>9, GiveUpRefines
<1>10. CASE /\ TimesOut([call |-> "createOrder", order |-> o])
            /\ End(t) /\ UNCHANGED orders
  <2>1. RunOf(req[t]).left # {}
    BY <1>5 DEF RunMap
  <2>2. [call |-> "createOrder", order |-> o] \in Saga!UnderWay(t)
    BY <1>3, <2>1 DEF Saga!UnderWay
  <2> QED
    BY <1>1, <1>4, <1>10, <2>2, GiveUpRefines
<1> QED
  BY <1>2, <1>7, <1>8, <1>9, <1>10 DEF AfterLostOrder, o

\* Checking the basket out closes it, or the run gives up.
LEMMA CheckoutBasketRefines ==
    ASSUME TypeInv, NEW t \in Tabs, CheckoutBasket(t)
    PROVE  Saga!Close(t) \/ Saga!GiveUp(t)
<1>1. /\ req[t] \in Request /\ req[t].pc = "checkoutBasket"
      /\ req \in [Tabs -> Request] /\ req[t].pc \in RunLabels
      /\ req[t].bid \in Baskets /\ req[t].todo = {}
      /\ bstate \in [Baskets -> {"absent", "open", "checkedOut"}]
      /\ UNCHANGED <<orders, tstatus>>
  BY TabType DEF CheckoutBasket, TypeInv, TypeOK, gateway, RunLabels,
                 RequestOK, NeedsBasket, Labels
<1>2. /\ RunMap[t] = [basket |-> req[t].bid, tx |-> req[t].tx,
                      lines |-> req[t].seen, left |-> {}]
      /\ RunMap[t] # None /\ RunOf(req[t]) = RunMap[t]
  BY <1>1, RunType DEF RunMap
<1>3. Confirmed' = Confirmed
  BY <1>1 DEF Confirmed
<1>4. CASE /\ bstate' = [bstate EXCEPT ![req[t].bid] = "checkedOut"]
           /\ Goto(t, "createBasket") \/ End(t)
           /\ UNCHANGED late
  <2>1. Closed' = Closed \cup {RunMap[t].basket}
    BY <1>1, <1>2, <1>4 DEF Closed
  <2>2. RunMap' = [RunMap EXCEPT ![t] = None]
    <3>1. CASE Goto(t, "createBasket")
      <4>1. /\ \A u \in Tabs \ {t} : req'[u] = req[u]
            /\ req'[t].pc = "createBasket"
        BY <1>1, <3>1 DEF Goto, Request
      <4>2. RunOf(req'[t]) = None
        BY <4>1 DEF RunOf
      <4> QED
        BY <4>1, <4>2, RunUpdate
    <3> QED
      BY <1>4, <3>1, EndRun
  <2>3. SagaLate' = SagaLate /\ RunMap[t].left = {}
    BY <1>2, <1>4 DEF SagaLate
  <2> QED
    BY <1>1, <1>2, <1>3, <2>1, <2>2, <2>3
       DEF Saga!Close, RunMap, Confirmed, Closed, SagaLate
<1>5. CASE End(t) /\ UNCHANGED <<bstate, late>>
  BY <1>1, <1>3, <1>5, GiveUpRefines DEF Closed
<1>6. CASE /\ TimesOut([call |-> "checkoutBasket", basket |-> req[t].bid,
                        tx |-> req[t].tx, lines |-> req[t].seen])
           /\ End(t) /\ UNCHANGED bstate
  <2>1. [call |-> "checkoutBasket", basket |-> req[t].bid, tx |-> req[t].tx,
         lines |-> req[t].seen] \in Saga!UnderWay(t)
    BY <1>2 DEF Saga!UnderWay
  <2> QED
    BY <1>1, <1>3, <1>6, <2>1, GiveUpRefines DEF Closed
<1> QED
  BY <1>4, <1>5, <1>6 DEF CheckoutBasket

\* A call left behind lands: the saga's does in the saga, others are not seen.
LEMMA LandRefines ==
    ASSUME TypeInv, NEW v \in late, Land(v)
    PROVE  \/ \E x \in Txs : Saga!ConfirmTx(x)
           \/ v \in SagaLate /\ Saga!Land(v)
           \/ UNCHANGED Saga!vars
<1> DEFINE w == v[2]
<1>1. /\ w \in LateCall /\ UNCHANGED req /\ late' = late \ {v}
      /\ bstate \in [Baskets -> {"absent", "open", "checkedOut"}]
  BY DEF Land, TypeInv, TypeOK
<1>2. RunMap' = RunMap
  BY <1>1 DEF RunMap
<1>3. SagaLate' = SagaLate \ {v}
  BY <1>1 DEF SagaLate
<1>4. CASE w.call = "confirm"
  <2>1. w.tx \in Txs /\ SagaLate' = SagaLate
    BY <1>1, <1>4 DEF LateCall, SagaLate
  <2>2. /\ UNCHANGED <<orders, bstate>>
        /\ tstatus' = [tstatus EXCEPT ![w.tx] = AfterConfirm(tstatus[w.tx])]
    BY <1>4 DEF Land, carts
  <2>3. Closed' = Closed
    BY <2>2 DEF Closed
  <2> QED
    BY <1>2, <2>1, <2>2, <2>3, GatewayRefines
<1>5. CASE w.call = "createOrder"
  <2>1. UNCHANGED <<bstate, tstatus>> /\ orders' = Append(orders, w.order)
    BY <1>5 DEF Land, carts
  <2>2. Closed' = Closed /\ Confirmed' = Confirmed /\ v \in SagaLate
    BY <1>5, <2>1 DEF Closed, Confirmed, SagaLate
  <2>3. Saga!Land(v)
    BY <1>2, <1>3, <1>5, <2>1, <2>2
       DEF Saga!Land, RunMap, Confirmed, Closed, SagaLate
  <2> QED
    BY <2>2, <2>3
<1>6. CASE w.call = "checkoutBasket"
  <2>1. /\ UNCHANGED <<orders, tstatus>> /\ w.basket \in Baskets
        /\ bstate' = [bstate EXCEPT ![w.basket] = "checkedOut"]
    BY <1>1, <1>6 DEF Land, LateCall
  <2>2. /\ Closed' = Closed \cup {w.basket} /\ Confirmed' = Confirmed
        /\ v \in SagaLate
    BY <1>1, <1>6, <2>1 DEF Closed, Confirmed, SagaLate
  <2>3. Saga!Land(v)
    BY <1>2, <1>3, <1>6, <2>1, <2>2
       DEF Saga!Land, RunMap, Confirmed, Closed, SagaLate
  <2> QED
    BY <2>2, <2>3
<1>7. CASE w.call \in {"addItem", "removeItem"}
  <2>1. UNCHANGED <<orders, tstatus, bstate>> /\ SagaLate' = SagaLate
    BY <1>1, <1>7 DEF Land, SagaLate
  <2> QED
    BY <1>2, <2>1, SagaStutter DEF Confirmed, Closed
<1> QED
  BY <1>4, <1>5, <1>6, <1>7 DEF Land

-----------------------------------------------------------------------------
(* The theorem *)

\* Every step of the storefront is a step of the saga, or one it does not see.
LEMMA RefineNext ==
    ASSUME ~EmptyMessages, IInv, [Next]_vars
    PROVE  [Saga!Next]_(Saga!vars)
<1>1. TypeInv /\ SagaInv
  BY DEF IInv
<1>2. ASSUME NEW t \in Tabs, Serve(t) \/ Shopper(t)
      PROVE  Saga!Next \/ UNCHANGED Saga!vars
  <2>1. \/ \E x \in Txs : Saga!ConfirmTx(x)
        \/ Saga!Begin(t) \/ Saga!Place(t) \/ Saga!Close(t) \/ Saga!GiveUp(t)
        \/ UNCHANGED Saga!vars
    BY <1>1, <1>2, OutsideRefines, CreateBasketRefines,
       ConfirmAtGatewayRefines, ConfirmFinancialsRefines, CreateOrderRefines,
       CheckoutBasketRefines
       DEF Serve
  <2> QED
    BY <2>1 DEF Saga!Next
<1>3. ASSUME NEW v \in late, Land(v)
      PROVE  Saga!Next \/ UNCHANGED Saga!vars
  BY <1>1, <1>3, LandRefines DEF Saga!Next, SagaLate
<1>4. ASSUME NEW x \in Txs, Reverse(x)
      PROVE  UNCHANGED Saga!vars
  <2>1. UNCHANGED <<orders, late, req, bstate>> /\ Confirmed' = Confirmed
    BY <1>1, <1>4, SameConfirmed DEF Reverse, carts
  <2> QED
    BY <2>1, SagaStutter DEF SagaLate, Closed, RunMap
<1>5. CASE UNCHANGED vars
  BY <1>5, SagaStutter DEF vars, SagaLate, Closed, RunMap, Confirmed
<1> QED
  BY <1>2, <1>3, <1>4, <1>5 DEF Next

\* The storefront implements the payment saga: under any interleaving, failure
\* or late effect, each confirm orders every line at most once, closes its
\* basket only when none is left, and never acts without a confirmed payment.
THEOREM StorefrontImplementsSaga ==
    ASSUME ~EmptyMessages
    PROVE  Spec => ImplementsSaga
<1>1. Init => Saga!Init
  BY RefineInit
<1>2. IInv /\ [Next]_vars => [Saga!Next]_(Saga!vars)
  BY RefineNext
<1> QED
  BY <1>1, <1>2, InductiveInvariant, PTL DEF Spec, ImplementsSaga, Saga!Spec
=============================================================================
