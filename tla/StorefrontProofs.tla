-------------------------- MODULE StorefrontProofs --------------------------
(* Theorems about Storefront, for every value of its constants. *)
EXTENDS StorefrontInv, TLAPS

\* The blank values belong to their types.
LEMMA BlankValues ==
    /\ Empty \in Contents
    /\ BlankCookie \in Cookie
    /\ Elsewhere \in Page
    /\ NoRequest \in Request
    /\ RequestOK(NoRequest)
    /\ PageOK(Elsewhere)
<1>1. Empty \in Contents
  BY ConstantsAssumption DEF Empty, Contents
<1>2. BlankCookie \in Cookie
  BY DEF BlankCookie, Cookie
<1>3. Elsewhere \in Page
  BY <1>1 DEF Elsewhere, Page
<1>4. Empty \in [Stores -> Nat]
  BY DEF Empty
<1>5. NoRequest \in Request
  BY <1>1, <1>2, <1>4, ConstantsAssumption DEF NoRequest, Request, Labels
<1>6. RequestOK(NoRequest)
  BY DEF RequestOK, NoRequest, NeedsBasket, ConfirmLabels, CartLabels
<1>7. PageOK(Elsewhere)
  BY DEF PageOK, Elsewhere
<1> QED
  BY <1>1, <1>2, <1>3, <1>5, <1>6, <1>7

\* A shopper who has just logged in satisfies the typing invariant.
LEMMA InitType == Init => TypeInv
<1> HAVE Init
<1> PICK b \in Baskets, c \in Contents :
       /\ \E n \in {"absent", SumQuantities(c)} :
             cookie = [BlankCookie EXCEPT !.basketID = b, !.basketItems = n]
       /\ page = [t \in Tabs |-> Elsewhere]
       /\ bstate = [x \in Baskets |-> IF x = b THEN "open" ELSE "absent"]
       /\ items = [x \in Baskets |-> IF x = b THEN c ELSE Empty]
       /\ tstatus = [x \in Txs |-> "unused"]
       /\ charged = [x \in Txs |-> Empty]
       /\ orders = << >>
       /\ late = {}
       /\ req = [t \in Tabs |-> NoRequest]
  BY Zenon DEF Init
<1>1. cookie \in Cookie
  BY BlankValues DEF Cookie, BlankCookie, SumQuantities
<1>2. /\ page \in [Tabs -> Page]
      /\ req \in [Tabs -> Request]
      /\ \A t \in Tabs : RequestOK(req[t]) /\ PageOK(page[t])
  BY BlankValues
<1>3. /\ bstate \in [Baskets -> {"absent", "open", "checkedOut"}]
      /\ items \in [Baskets -> Contents]
      /\ charged \in [Txs -> Contents]
  BY BlankValues
<1>4. tstatus \in [Txs -> TxStatus]
  BY DEF TxStatus
<1>5. orders \in Seq(Order) /\ late \subseteq Copies \X LateCall
  OBVIOUS
<1> QED
  BY <1>1, <1>2, <1>3, <1>4, <1>5 DEF TypeInv, TypeOK
-----------------------------------------------------------------------------
(* Typing: what one request, one page or the cookie becomes *)

ReqsOK  == req \in [Tabs -> Request] /\ \A u \in Tabs : RequestOK(req[u])
PagesOK == page \in [Tabs -> Page] /\ \A u \in Tabs : PageOK(page[u])

\* A step that gives tab t a well-formed request keeps all requests so.
LEMMA ReqUpdate ==
    ASSUME TypeInv, NEW t \in Tabs, NEW r \in Request, RequestOK(r),
           req' = [req EXCEPT ![t] = r]
    PROVE  ReqsOK'
BY DEF TypeInv, TypeOK, ReqsOK

\* The same of pages.
LEMMA PageUpdate ==
    ASSUME TypeInv, NEW t \in Tabs, NEW p \in Page, PageOK(p),
           page' = [page EXCEPT ![t] = p]
    PROVE  PagesOK'
BY DEF TypeInv, TypeOK, PagesOK

\* A request that ends leaves the tab idle.
LEMMA EndType ==
    ASSUME TypeInv, NEW t \in Tabs, End(t)
    PROVE  ReqsOK'
BY BlankValues, ReqUpdate DEF End

\* A tab that navigates shows no checkout page.
LEMMA NavigateType ==
    ASSUME TypeInv, NEW t \in Tabs, Navigate(t)
    PROVE  PagesOK'
BY BlankValues, PageUpdate DEF Navigate

\* What the typing invariant says of the request and the page of one tab.
LEMMA TabType ==
    ASSUME TypeInv, NEW t \in Tabs
    PROVE  /\ req[t] \in Request /\ RequestOK(req[t])
           /\ page[t] \in Page /\ PageOK(page[t])
           /\ req[t].jar \in Cookie /\ req[t].seen \in Contents
           /\ req[t].pc \in Labels
           /\ req[t].pc \in NeedsBasket => req[t].bid \in Baskets
BY DEF TypeInv, TypeOK, Request, RequestOK

\* Reads of a basket return contents.
LEMMA ReadType ==
    ASSUME TypeInv, NEW b \in Baskets
    PROVE  Read(b) \subseteq Contents
BY BlankValues DEF TypeInv, TypeOK, Read

\* Minting a transaction id keeps the gateway's states typed.
LEMMA MintType ==
    ASSUME TypeInv, NEW x \in Txs, Mint(x)
    PROVE  tstatus' \in [Txs -> TxStatus]
BY DEF TypeInv, TypeOK, Mint, TxStatus

\* A handler that needs a basket starts with the one in the cookie.
LEMMA StartAtType ==
    ASSUME TypeInv, NEW t \in Tabs, NEW l \in Labels,
           HasBasket \/ l = "search"
    PROVE  /\ StartAt(t, l) \in Request
           /\ StartAt(t, l).pc = l
           /\ l # "search" => StartAt(t, l).bid \in Baskets
           /\ StartAt(t, l).jar = cookie
<1>1. /\ cookie \in Cookie /\ cookie.basketID \in Baskets \cup {None}
      /\ l # "search" => cookie.basketID \in Baskets
  BY DEF TypeInv, TypeOK, HasBasket, Cookie
<1> QED
  BY <1>1, BlankValues DEF StartAt, Request, NoRequest

-----------------------------------------------------------------------------
(* Typing: one lemma per action *)

\* A request of the checkout, checkout form or search page starts well formed.
LEMMA StartType ==
    ASSUME TypeInv, NEW t \in Tabs,
           \/ StartCheckout(t) \/ StartCheckoutPost(t) \/ StartSearch(t)
    PROVE  TypeInv'
<1>1. CASE StartCheckout(t)
  <2>1. /\ StartAt(t, "checkout") \in Request
        /\ RequestOK(StartAt(t, "checkout"))
    BY <1>1, StartAtType
       DEF StartCheckout, Labels, RequestOK, ConfirmLabels, CartLabels
  <2>2. ReqsOK'
    BY <1>1, <2>1, ReqUpdate DEF StartCheckout
  <2>3. PagesOK'
    BY <1>1, NavigateType DEF StartCheckout
  <2> QED
    BY <1>1, <2>2, <2>3
       DEF TypeInv, TypeOK, StartCheckout, carts, gateway, ReqsOK, PagesOK
<1>2. CASE StartCheckoutPost(t)
  <2>1. /\ StartAt(t, "checkoutPost") \in Request
        /\ RequestOK(StartAt(t, "checkoutPost"))
    BY <1>2, StartAtType
       DEF StartCheckoutPost, Labels, RequestOK, ConfirmLabels, CartLabels
  <2>2. ReqsOK'
    BY <1>2, <2>1, ReqUpdate DEF StartCheckoutPost
  <2>3. PagesOK'
    BY <1>2, NavigateType DEF StartCheckoutPost
  <2> QED
    BY <1>2, <2>2, <2>3
       DEF TypeInv, TypeOK, StartCheckoutPost, carts, gateway, ReqsOK, PagesOK
<1>3. CASE StartSearch(t)
  <2>1. /\ StartAt(t, "search") \in Request
        /\ RequestOK(StartAt(t, "search"))
    BY StartAtType
       DEF Labels, RequestOK, ConfirmLabels, CartLabels, NeedsBasket
  <2>2. ReqsOK'
    BY <1>3, <2>1, ReqUpdate DEF StartSearch
  <2>3. PagesOK'
    BY <1>3, NavigateType DEF StartSearch
  <2> QED
    BY <1>3, <2>2, <2>3
       DEF TypeInv, TypeOK, StartSearch, carts, gateway, ReqsOK, PagesOK
<1> QED
  BY <1>1, <1>2, <1>3

\* create-payment starts with the address it was sent.
LEMMA StartProcessPaymentType ==
    ASSUME TypeInv, NEW t \in Tabs, StartProcessPayment(t)
    PROVE  TypeInv'
<1>1. PICK a \in Addresses :
         req' = [req EXCEPT ![t] = [StartAt(t, "processPayment")
                                      EXCEPT !.jar.shippingAddressID = a]]
  BY DEF StartProcessPayment
<1> DEFINE q == StartAt(t, "processPayment")
           r == [q EXCEPT !.jar.shippingAddressID = a]
<1>2. q \in Request /\ q.pc = "processPayment" /\ q.bid \in Baskets
  BY StartAtType DEF StartProcessPayment, Labels
<1>3. r \in Request /\ r.pc = "processPayment" /\ r.bid \in Baskets
  BY <1>2 DEF Request, Cookie
<1>4. RequestOK(r)
  BY <1>3 DEF RequestOK, ConfirmLabels, CartLabels
<1> HIDE DEF r
<1>5. ReqsOK'
  BY <1>1, <1>3, <1>4, ReqUpdate DEF r
<1> QED
  BY <1>5 DEF StartProcessPayment, TypeInv, TypeOK, browser, carts, gateway,
              ReqsOK

\* A confirm starts with a basket, an address and a transaction.
LEMMA StartConfirmType ==
    ASSUME TypeInv, NEW t \in Tabs, NEW x \in Txs, StartConfirm(t, x)
    PROVE  TypeInv'
<1> DEFINE q == StartAt(t, "confirm")
           r == [q EXCEPT !.tx = x]
<1>1. q \in Request /\ q.pc = "confirm" /\ q.bid \in Baskets /\ q.jar = cookie
  BY StartAtType DEF StartConfirm, Labels
<1>2. cookie.shippingAddressID \in Addresses
  BY DEF StartConfirm, TypeInv, TypeOK, Cookie
<1>3. /\ r \in Request /\ r.pc = "confirm" /\ r.bid \in Baskets
      /\ r.tx \in Txs /\ r.jar.shippingAddressID \in Addresses
  BY <1>1, <1>2 DEF Request
<1>4. RequestOK(r)
  BY <1>3 DEF RequestOK, CartLabels
<1>5. ReqsOK'
  <2> HIDE DEF r
  <2> QED BY <1>3, <1>4, ReqUpdate DEF r, StartConfirm
<1>6. PagesOK'
  BY NavigateType DEF StartConfirm
<1> QED
  BY <1>5, <1>6 DEF StartConfirm, TypeInv, TypeOK, carts, gateway, ReqsOK,
                    PagesOK

\* A cart request starts with a basket and a product.
LEMMA StartCartRequestType ==
    ASSUME TypeInv, NEW t \in Tabs, NEW s \in Stores,
           NEW l \in {"addItem", "removeItem", "searchAdd"},
           StartCartRequest(t, l, s)
    PROVE  TypeInv'
<1> DEFINE q == StartAt(t, l)
           r == [q EXCEPT !.item = s]
<1>1. q \in Request /\ q.pc = l /\ q.bid \in Baskets
  BY StartAtType DEF StartCartRequest, Labels
<1>2. r \in Request /\ r.pc = l /\ r.bid \in Baskets /\ r.item \in Stores
  BY <1>1 DEF Request
<1>3. RequestOK(r)
  BY <1>2 DEF RequestOK, ConfirmLabels
<1>4. ReqsOK'
  <2> HIDE DEF r
  <2> QED BY <1>2, <1>3, ReqUpdate DEF r, StartCartRequest
<1>5. PagesOK'
  BY NavigateType DEF StartCartRequest
<1> QED
  BY <1>4, <1>5 DEF StartCartRequest, TypeInv, TypeOK, carts, gateway, ReqsOK,
                    PagesOK

\* GET /checkout mints a transaction, shows an empty cart, or fails.
LEMMA CheckoutReadType ==
    ASSUME TypeInv, NEW t \in Tabs, CheckoutRead(t)
    PROVE  TypeInv'
<1>1. /\ req[t] \in Request /\ req[t].jar \in Cookie /\ req[t].bid \in Baskets
      /\ req[t].pc = "checkout"
  BY TabType DEF CheckoutRead, NeedsBasket, Labels
<1>2. CASE \E c \in Read(req[t].bid), x \in Txs :
              /\ Mint(x)
              /\ req' = [req EXCEPT ![t].pc = "checkoutConfig",
                                    ![t].tx = x,
                                    ![t].seen = c,
                                    ![t].jar = NewAttempt(req[t].jar, x)]
              /\ UNCHANGED page
  <2>1. PICK c \in Read(req[t].bid), x \in Txs :
              /\ Mint(x)
              /\ req' = [req EXCEPT ![t].pc = "checkoutConfig",
                                    ![t].tx = x,
                                    ![t].seen = c,
                                    ![t].jar = NewAttempt(req[t].jar, x)]
              /\ UNCHANGED page
    BY <1>2
  <2>2. c \in Contents /\ NewAttempt(req[t].jar, x) \in Cookie
    BY <1>1, ReadType DEF NewAttempt, Cookie
  <2> DEFINE r == [req[t] EXCEPT !.pc = "checkoutConfig", !.tx = x,
                                 !.seen = c,
                                 !.jar = NewAttempt(req[t].jar, x)]
  <2>3. r \in Request /\ r.pc = "checkoutConfig" /\ r.bid \in Baskets
    BY <1>1, <2>2 DEF Request, Labels
  <2>4. RequestOK(r)
    BY <2>3 DEF RequestOK, ConfirmLabels, CartLabels
  <2>5. req' = [req EXCEPT ![t] = r]
    BY <2>1
  <2>6. ReqsOK'
    <3> HIDE DEF r
    <3> QED BY <2>3, <2>4, <2>5, ReqUpdate
  <2>7. tstatus' \in [Txs -> TxStatus]
    BY <2>1, MintType
  <2> QED
    BY <2>1, <2>6, <2>7 DEF CheckoutRead, TypeInv, TypeOK, carts, ReqsOK
<1>3. CASE /\ End(t)
           /\ page' = [page EXCEPT ![t] = [Elsewhere EXCEPT !.at = "checkout"]]
           /\ UNCHANGED tstatus
  <2>1. /\ [Elsewhere EXCEPT !.at = "checkout"] \in Page
        /\ PageOK([Elsewhere EXCEPT !.at = "checkout"])
    BY BlankValues DEF Elsewhere, Page, PageOK
  <2>2. PagesOK'
    BY <1>3, <2>1, PageUpdate
  <2>3. ReqsOK'
    BY <1>3, EndType
  <2> QED
    BY <1>3, <2>2, <2>3
       DEF CheckoutRead, TypeInv, TypeOK, carts, ReqsOK, PagesOK
<1>4. CASE Fail(t) /\ UNCHANGED tstatus
  <2>1. ReqsOK'
    BY <1>4, EndType DEF Fail
  <2> QED
    BY <1>4, <2>1
       DEF Fail, CheckoutRead, TypeInv, TypeOK, carts, browser, ReqsOK
<1> QED
  BY <1>2, <1>3, <1>4 DEF CheckoutRead

\* GET /checkout answers with a configured page, or fails.
LEMMA CheckoutConfigType ==
    ASSUME TypeInv, NEW t \in Tabs, CheckoutConfig(t)
    PROVE  TypeInv'
<1>1. ReqsOK'
  BY EndType DEF CheckoutConfig, Answer, Fail
<1>2. /\ req[t] \in Request /\ req[t].jar \in Cookie /\ req[t].seen \in Contents
  BY TabType
<1> DEFINE p == [at |-> "checkout", tx |-> req[t].tx, shown |-> req[t].seen]
<1>3. p \in Page /\ PageOK(p)
  BY <1>2 DEF Page, PageOK, Request
<1>4. PagesOK' /\ cookie' \in Cookie
  <2>1. CASE Answer(t, req[t].jar) /\ page' = [page EXCEPT ![t] = p]
    <3> HIDE DEF p
    <3> QED BY <1>2, <1>3, <2>1, PageUpdate DEF Answer
  <2>2. CASE Fail(t)
    BY <2>2 DEF Fail, browser, PagesOK, TypeInv, TypeOK
  <2> QED
    BY <2>1, <2>2 DEF CheckoutConfig
<1> QED
  BY <1>1, <1>4 DEF CheckoutConfig, TypeInv, TypeOK, carts, gateway, ReqsOK,
                    PagesOK

\* POST /checkout renders the form again, saves the payment id, or fails.
LEMMA CheckoutPostType ==
    ASSUME TypeInv, NEW t \in Tabs, CheckoutPost(t)
    PROVE  TypeInv'
<1> DEFINE c == req[t].jar
<1>1. ReqsOK'
  BY EndType DEF CheckoutPost, Answer, Fail
<1>2. c \in Cookie /\ req[t].bid \in Baskets
  BY TabType DEF CheckoutPost, NeedsBasket, Labels
<1>3. CASE Fail(t)
  BY <1>1, <1>3 DEF CheckoutPost, Fail, browser, TypeInv, TypeOK, carts,
                    gateway, ReqsOK
<1>4. CASE /\ c.clientTransactionID # None
           /\ UNCHANGED cookie
           /\ \E r \in Read(req[t].bid) :
                 page' = [page EXCEPT ![t] = [at |-> "checkout", shown |-> r,
                                              tx |-> c.clientTransactionID]]
  <2>1. PICK r \in Read(req[t].bid) :
           page' = [page EXCEPT ![t] = [at |-> "checkout", shown |-> r,
                                        tx |-> c.clientTransactionID]]
    BY <1>4
  <2> DEFINE p == [at |-> "checkout", shown |-> r,
                   tx |-> c.clientTransactionID]
  <2>2. p \in Page /\ PageOK(p)
    BY <1>2, ReadType DEF Page, PageOK, Cookie
  <2>3. PagesOK'
    <3> HIDE DEF p
    <3> QED BY <2>1, <2>2, PageUpdate DEF p
  <2> QED
    BY <1>1, <1>4, <2>3 DEF CheckoutPost, TypeInv, TypeOK, carts, gateway,
                            ReqsOK, PagesOK
<1>5. CASE /\ Answer(t, [c EXCEPT !.paymentID = c.clientTransactionID])
           /\ UNCHANGED page
  <2>1. [c EXCEPT !.paymentID = c.clientTransactionID] \in Cookie
    BY <1>2 DEF Cookie
  <2> QED
    BY <1>1, <1>5, <2>1 DEF Answer, CheckoutPost, TypeInv, TypeOK, carts,
                            gateway, ReqsOK
<1> QED
  BY <1>3, <1>4, <1>5 DEF CheckoutPost

\* create-payment renders the widget, or only saves the address.
LEMMA ProcessPaymentType ==
    ASSUME TypeInv, NEW t \in Tabs, ProcessPayment(t)
    PROVE  TypeInv'
<1>1. ReqsOK'
  BY EndType DEF ProcessPayment, Answer
<1>2. req[t].jar \in Cookie /\ page[t] \in Page /\ PageOK(page[t])
  BY TabType
<1>3. CASE /\ \E x \in Txs :
                 /\ Mint(x)
                 /\ Answer(t, [req[t].jar EXCEPT !.clientTransactionID = x,
                                                 !.paymentID = x])
           /\ page' = [page EXCEPT ![t] = InitializePayPhone(page[t])]
  <2>1. tstatus' \in [Txs -> TxStatus] /\ cookie' \in Cookie
    BY <1>2, <1>3, MintType DEF Answer, Cookie
  <2>2. /\ InitializePayPhone(page[t]) \in Page
        /\ PageOK(InitializePayPhone(page[t]))
    BY <1>2 DEF InitializePayPhone, Page, PageOK
  <2>3. PagesOK'
    BY <1>3, <2>2, PageUpdate
  <2> QED
    BY <1>1, <2>1, <2>3 DEF ProcessPayment, TypeInv, TypeOK, carts, ReqsOK,
                            PagesOK
<1>4. CASE Answer(t, req[t].jar) /\ UNCHANGED <<page, tstatus>>
  BY <1>1, <1>2, <1>4 DEF Answer, ProcessPayment, TypeInv, TypeOK, carts,
                          ReqsOK
<1> QED
  BY <1>3, <1>4 DEF ProcessPayment

\* The shopper pays in the widget.
LEMMA PayType ==
    ASSUME TypeInv, NEW t \in Tabs, Pay(t)
    PROVE  TypeInv'
<1>1. page[t] \in Page /\ page[t].tx \in Txs
  BY TabType DEF Pay, PageOK
<1> DEFINE p == [page[t] EXCEPT !.at = "returning"]
<1>2. p \in Page /\ PageOK(p) /\ page' = [page EXCEPT ![t] = p]
  BY <1>1 DEF Page, PageOK, Pay
<1>3. PagesOK'
  <2> HIDE DEF p
  <2> QED BY <1>2, PageUpdate
<1>4. tstatus' \in [Txs -> TxStatus]
  BY <1>1 DEF Pay, TypeInv, TypeOK, TxStatus
<1>5. charged' \in [Txs -> Contents]
  BY <1>1 DEF Pay, TypeInv, TypeOK, Page
<1> QED
  BY <1>3, <1>4, <1>5 DEF Pay, TypeInv, TypeOK, carts, PagesOK

\* PayPhone reverses a payment.
LEMMA ReverseType ==
    ASSUME TypeInv, NEW x \in Txs, Reverse(x)
    PROVE  TypeInv'
BY DEF Reverse, TypeInv, TypeOK, browser, carts, TxStatus

\* The shopper cancels.
LEMMA CancelPaymentType ==
    ASSUME TypeInv, NEW t \in Tabs, CancelPayment(t)
    PROVE  TypeInv'
<1>1. PagesOK'
  BY NavigateType DEF CancelPayment
<1> QED
  BY <1>1 DEF CancelPayment, TypeInv, TypeOK, carts, gateway, PagesOK

\* A well-formed call that times out joins the calls under way.
LEMMA TimesOutType ==
    ASSUME TypeInv, NEW w \in LateCall, TimesOut(w)
    PROVE  late' \subseteq Copies \X LateCall
BY DEF TypeInv, TypeOK, TimesOut

\* A confirm hears from the gateway, or gives up.
LEMMA ConfirmAtGatewayType ==
    ASSUME TypeInv, NEW t \in Tabs, ConfirmAtGateway(t)
    PROVE  TypeInv'
<1>1. /\ req[t] \in Request /\ RequestOK(req[t]) /\ req[t].pc = "confirm"
      /\ req[t].tx \in Txs
  BY TabType DEF ConfirmAtGateway, RequestOK, ConfirmLabels
<1>2. ReqsOK'
  <2>1. CASE Goto(t, "financials")
    <3> DEFINE r == [req[t] EXCEPT !.pc = "financials"]
    <3>1. r \in Request /\ req' = [req EXCEPT ![t] = r]
      BY <1>1, <2>1 DEF Request, Labels, Goto
    <3>2. RequestOK(r)
      BY <1>1 DEF RequestOK, Request, NeedsBasket, Labels, ConfirmLabels,
                  CartLabels
    <3> HIDE DEF r
    <3> QED BY <3>1, <3>2, ReqUpdate
  <2>2. CASE End(t)
    BY <2>2, EndType
  <2> QED
    BY <2>1, <2>2 DEF ConfirmAtGateway
<1>3. tstatus' \in [Txs -> TxStatus]
  BY <1>1 DEF ConfirmAtGateway, AfterConfirm, TypeInv, TypeOK, TxStatus
<1>4. [call |-> "confirm", tx |-> req[t].tx] \in LateCall
  BY <1>1 DEF LateCall
<1>5. late' \subseteq Copies \X LateCall
  BY <1>4, TimesOutType DEF ConfirmAtGateway, TypeInv, TypeOK
<1> QED
  BY <1>2, <1>3, <1>5 DEF ConfirmAtGateway, TypeInv, TypeOK, browser, carts,
                          ReqsOK

\* A confirm reads the breakdown.
LEMMA ConfirmFinancialsType ==
    ASSUME TypeInv, NEW t \in Tabs, ConfirmFinancials(t)
    PROVE  TypeInv'
<1>1. /\ req[t] \in Request /\ RequestOK(req[t]) /\ req[t].pc = "financials"
      /\ req[t].bid \in Baskets
  BY TabType DEF ConfirmFinancials, NeedsBasket, Labels
<1>2. ReqsOK'
  <2>1. CASE End(t)
    BY <2>1, EndType
  <2>2. ASSUME NEW c \in Read(req[t].bid),
               req' = [req EXCEPT
                         ![t].pc = IF Lines(c) = {} THEN "checkoutBasket"
                                                    ELSE "createOrder",
                         ![t].seen = c,
                         ![t].todo = Lines(c)]
        PROVE  ReqsOK'
    <3> DEFINE r == [req[t] EXCEPT
                       !.pc = IF Lines(c) = {} THEN "checkoutBasket"
                                               ELSE "createOrder",
                       !.seen = c,
                       !.todo = Lines(c)]
    <3>1. c \in Contents
      BY <1>1, ReadType
    <3>2. r \in Request /\ req' = [req EXCEPT ![t] = r]
      BY <1>1, <2>2, <3>1 DEF Request, Labels, Lines
    <3>3. RequestOK(r)
      BY <1>1 DEF RequestOK, Request, NeedsBasket, Labels, ConfirmLabels,
                  CartLabels
    <3> HIDE DEF r
    <3> QED BY <3>2, <3>3, ReqUpdate
  <2> QED
    BY <2>1, <2>2 DEF ConfirmFinancials
<1> QED
  BY <1>2 DEF ConfirmFinancials, TypeInv, TypeOK, browser, carts, gateway,
              ReqsOK

\* Appending to a sequence keeps its type, its elements and nothing else.
LEMMA AppendType ==
    ASSUME NEW S, NEW q \in Seq(S), NEW e \in S
    PROVE  /\ Append(q, e) \in Seq(S)
           /\ Range(Append(q, e)) = Range(q) \cup {e}
<1>1. /\ Append(q, e) \in Seq(S)
      /\ DOMAIN q = 1 .. Len(q) /\ Len(q) \in Nat
      /\ DOMAIN Append(q, e) = 1 .. Len(q) + 1
      /\ \A i \in 1 .. Len(q) : Append(q, e)[i] = q[i]
      /\ Append(q, e)[Len(q) + 1] = e
  OBVIOUS
<1>2. 1 .. Len(q) + 1 = 1 .. Len(q) \cup {Len(q) + 1}
  BY <1>1
<1> QED
  BY <1>1, <1>2 DEF Range

\* The order ConfirmPayment asks for is well formed.
LEMMA NewOrderType ==
    ASSUME TypeInv, NEW t \in Tabs, req[t].pc = "createOrder",
           NEW s \in req[t].todo
    PROVE  /\ NewOrder(t, s) \in Order
           /\ s \in Stores /\ req[t].seen[s] > 0
<1>1. /\ req[t] \in Request /\ req[t].jar \in Cookie /\ req[t].bid \in Baskets
      /\ req[t].tx \in Txs /\ req[t].jar.shippingAddressID \in Addresses
      /\ req[t].seen \in Contents /\ req[t].todo \subseteq Lines(req[t].seen)
  BY TabType DEF RequestOK, NeedsBasket, Labels, ConfirmLabels
<1>2. s \in Stores /\ req[t].seen[s] > 0 /\ req[t].seen[s] \in 1 .. MaxQty
  BY <1>1, ConstantsAssumption DEF Lines, Contents
<1>3. PaymentID(t) \in Txs
  BY <1>1 DEF PaymentID, Cookie
<1> QED
  BY <1>1, <1>2, <1>3 DEF NewOrder, Order

\* A confirm creates an order of its loop, or gives up.
LEMMA CreateOrderType ==
    ASSUME TypeInv, NEW t \in Tabs, CreateOrder(t)
    PROVE  TypeInv'
<1>1. /\ req[t] \in Request /\ RequestOK(req[t]) /\ req[t].pc = "createOrder"
  BY TabType DEF CreateOrder
<1>2. PICK s \in req[t].todo :
          \/ /\ orders' = Append(orders, NewOrder(t, s))
             /\ req' = [req EXCEPT ![t].pc = AfterOrder(t, s),
                                   ![t].todo = @ \ {s},
                                   ![t].made[s] = @ + 1]
             /\ UNCHANGED late
          \/ /\ orders' = Append(orders, NewOrder(t, s))
             /\ AfterLostOrder(t, s)
             /\ UNCHANGED late
          \/ /\ TimesOut([call |-> "createOrder", order |-> NewOrder(t, s)])
             /\ AfterLostOrder(t, s)
             /\ UNCHANGED orders
          \/ End(t) /\ UNCHANGED <<orders, late>>
  BY DEF CreateOrder
<1>3. NewOrder(t, s) \in Order /\ s \in Stores
  BY <1>1, NewOrderType
<1>4. orders' \in Seq(Order)
  <2>1. orders \in Seq(Order)
    BY DEF TypeInv, TypeOK
  <2>2. orders' = Append(orders, NewOrder(t, s)) \/ orders' = orders
    BY <1>2
  <2> QED
    BY <1>3, <2>1, <2>2, AppendType
<1>5. [call |-> "createOrder", order |-> NewOrder(t, s)] \in LateCall
  BY <1>3 DEF LateCall
<1>6. late' \subseteq Copies \X LateCall
  BY <1>2, <1>5, TimesOutType DEF TypeInv, TypeOK
<1>7. ReqsOK'
  <2>1. CASE End(t) \/ AfterLostOrder(t, s)
    BY <2>1, EndType DEF AfterLostOrder
  <2>2. CASE req' = [req EXCEPT ![t].pc = AfterOrder(t, s),
                                ![t].todo = @ \ {s},
                                ![t].made[s] = @ + 1]
    <3> DEFINE r == [req[t] EXCEPT !.pc = AfterOrder(t, s),
                                   !.todo = @ \ {s},
                                   !.made[s] = @ + 1]
    <3>1. req[t].made \in [Stores -> Nat] /\ req[t].made[s] + 1 \in Nat
      BY <1>1, <1>3 DEF Request
    <3>2. /\ AfterOrder(t, s) \in {"checkoutBasket", "createOrder"}
          /\ AfterOrder(t, s) = "checkoutBasket" => req[t].todo \ {s} = {}
      BY DEF AfterOrder
    <3>3. r \in Request
      BY <1>1, <3>1, <3>2 DEF Request, Labels
    <3>4. RequestOK(r)
      BY <1>1, <3>2 DEF RequestOK, Request, NeedsBasket, Labels,
                        ConfirmLabels, CartLabels
    <3>5. req' = [req EXCEPT ![t] = r]
      BY <2>2
    <3> HIDE DEF r
    <3> QED BY <3>3, <3>4, <3>5, ReqUpdate
  <2> QED
    BY <1>2, <2>1, <2>2
<1> QED
  BY <1>4, <1>6, <1>7 DEF CreateOrder, TypeInv, TypeOK, browser, carts,
                          gateway, ReqsOK

\* A confirm checks its basket out, or gives up.
LEMMA CheckoutBasketType ==
    ASSUME TypeInv, NEW t \in Tabs, CheckoutBasket(t)
    PROVE  TypeInv'
<1>1. /\ req[t] \in Request /\ RequestOK(req[t])
      /\ req[t].pc = "checkoutBasket" /\ req[t].seen \in Contents
      /\ req[t].bid \in Baskets /\ req[t].tx \in Txs
  BY TabType DEF CheckoutBasket, RequestOK, NeedsBasket, Labels, ConfirmLabels
<1>2. ReqsOK'
  <2>1. CASE Goto(t, "createBasket")
    <3> DEFINE r == [req[t] EXCEPT !.pc = "createBasket"]
    <3>1. r \in Request /\ req' = [req EXCEPT ![t] = r]
      BY <1>1, <2>1 DEF Request, Labels, Goto
    <3>2. RequestOK(r)
      BY <1>1 DEF RequestOK, Request, NeedsBasket, Labels, ConfirmLabels,
                  CartLabels
    <3> HIDE DEF r
    <3> QED BY <3>1, <3>2, ReqUpdate
  <2>2. CASE End(t)
    BY <2>2, EndType
  <2> QED
    BY <2>1, <2>2 DEF CheckoutBasket
<1>3. bstate' \in [Baskets -> {"absent", "open", "checkedOut"}]
  BY DEF CheckoutBasket, TypeInv, TypeOK
<1>4. [call |-> "checkoutBasket", basket |-> req[t].bid, tx |-> req[t].tx,
       lines |-> req[t].seen] \in LateCall
  BY <1>1 DEF LateCall
<1>5. late' \subseteq Copies \X LateCall
  BY <1>4, TimesOutType DEF CheckoutBasket, TypeInv, TypeOK
<1> QED
  BY <1>2, <1>3, <1>5 DEF CheckoutBasket, TypeInv, TypeOK, browser, gateway,
                          ReqsOK

\* A confirm opens the next basket and saves its id.
LEMMA CreateBasketType ==
    ASSUME TypeInv, NEW t \in Tabs, CreateBasket(t)
    PROVE  TypeInv'
<1>1. ReqsOK'
  BY EndType DEF CreateBasket, Answer
<1>2. req[t].jar \in Cookie
  BY TabType
<1>3. cookie' \in Cookie
  BY <1>2 DEF CreateBasket, ReturnedID, Answer, Cookie, TypeInv, TypeOK
<1>4. /\ bstate' \in [Baskets -> {"absent", "open", "checkedOut"}]
      /\ items' = items
  BY DEF CreateBasket, OpenBasket, carts, TypeInv, TypeOK
<1> QED
  BY <1>1, <1>3, <1>4 DEF CreateBasket, TypeInv, TypeOK, gateway, ReqsOK

\* A retry of a cart call stays within its budget.
LEMMA RetryType ==
    ASSUME TypeInv, NEW t \in Tabs, Retry(t)
    PROVE  ReqsOK'
<1>1. CASE req[t].tries < MaxRetries
  <2> DEFINE r == [req[t] EXCEPT !.tries = @ + 1]
  <2>1. req[t] \in Request /\ RequestOK(req[t])
    BY TabType
  <2>2. r \in Request /\ req' = [req EXCEPT ![t] = r]
    BY <1>1, <2>1, ConstantsAssumption DEF Request, Retry
  <2>3. RequestOK(r)
    BY <2>1 DEF RequestOK, Request
  <2> HIDE DEF r
  <2> QED BY <2>2, <2>3, ReqUpdate
<1>2. CASE ~(req[t].tries < MaxRetries)
  BY <1>2, EndType DEF Retry
<1> QED
  BY <1>1, <1>2

\* Applying a call that the service can apply keeps the contents typed.
LEMMA ApplyType ==
    ASSUME TypeInv, NEW l, NEW b \in Baskets, NEW s \in Stores,
           CanApply(l, b, s), Apply(l, b, s)
    PROVE  items' \in [Baskets -> Contents]
<1>1. items \in [Baskets -> [Stores -> 0 .. MaxQty]] /\ MaxQty \in Nat
  BY ConstantsAssumption DEF TypeInv, TypeOK, Contents
<1>2. items[b][s] \in 0 .. MaxQty
  BY <1>1
<1> DEFINE v == IF l = "removeItem" THEN items[b][s] - 1 ELSE items[b][s] + 1
<1>3. v \in 0 .. MaxQty
  BY <1>1, <1>2 DEF CanApply
<1>4. items' = [items EXCEPT ![b] = [items[b] EXCEPT ![s] = v]]
  BY DEF Apply
<1> HIDE DEF v
<1> QED
  BY <1>1, <1>3, <1>4 DEF Contents

\* One attempt of a cart call.
LEMMA PutItemType ==
    ASSUME TypeInv, NEW t \in Tabs, PutItem(t)
    PROVE  TypeInv'
<1> DEFINE l == req[t].pc
           b == req[t].bid
           s == req[t].item
<1>1. /\ req[t] \in Request /\ RequestOK(req[t])
      /\ l \in {"addItem", "removeItem", "searchAdd", "searchAddAgain"}
      /\ s \in Stores /\ b \in Baskets \cup {None}
      /\ l # "searchAddAgain" => b \in Baskets
  BY TabType DEF PutItem, AfterPut, CartLabels, RequestOK, Request,
                 NeedsBasket, Labels
<1>2. items' \in [Baskets -> Contents]
  <2>1. CASE b # None /\ CanApply(l, b, s) /\ Apply(l, b, s)
    BY <1>1, <2>1, ApplyType
  <2>2. CASE UNCHANGED items
    BY <2>2 DEF TypeInv, TypeOK
  <2> QED
    BY <2>1, <2>2 DEF PutItem
<1>3. late' \subseteq Copies \X LateCall
  <2>1. CASE UNCHANGED late
    BY <2>1 DEF TypeInv, TypeOK
  <2>2. CASE /\ b # None
             /\ TimesOut([call |-> PutCall[l], basket |-> b, item |-> s])
    <3>1. [call |-> PutCall[l], basket |-> b, item |-> s] \in LateCall
      BY <1>1, <2>2 DEF LateCall, PutCall
    <3> QED
      BY <2>2, <3>1, TimesOutType
  <2> QED
    BY <2>1, <2>2 DEF PutItem
<1>4. ReqsOK'
  <2>1. CASE Retry(t) \/ End(t)
    BY <2>1, RetryType, EndType
  <2>2. ASSUME NEW k \in {"searchCreate", "findBasket", "searchFind"},
               k # "searchCreate" => b # None,
               k = "searchCreate" => l = "searchAdd",
               req' = [req EXCEPT ![t].pc = k, ![t].tries = 0]
        PROVE  ReqsOK'
    <3> DEFINE r == [req[t] EXCEPT !.pc = k, !.tries = 0]
    <3>1. k \in Labels /\ 0 \in 0 .. MaxRetries
      BY ConstantsAssumption DEF Labels
    <3>2. r \in Request
      BY <1>1, <3>1 DEF Request
    <3>3. r.pc = k /\ r.bid \in Baskets /\ r.item \in Stores
      BY <1>1, <2>2 DEF Request
    <3>4. RequestOK(r)
      BY <3>2, <3>3 DEF RequestOK, ConfirmLabels, CartLabels
    <3>5. req' = [req EXCEPT ![t] = r]
      BY <2>2
    <3> HIDE DEF r
    <3> QED BY <3>2, <3>4, <3>5, ReqUpdate
  <2>3. AfterPut[l] \in {"findBasket", "searchFind"}
    BY <1>1 DEF AfterPut
  <2> QED
    BY <2>1, <2>2, <2>3 DEF PutItem
<1> QED
  BY <1>2, <1>3, <1>4 DEF PutItem, TypeInv, TypeOK, browser, gateway, ReqsOK

\* The recovery of /search/add opens a basket.
LEMMA SearchCreateBasketType ==
    ASSUME TypeInv, NEW t \in Tabs, SearchCreateBasket(t)
    PROVE  TypeInv'
<1>1. req[t] \in Request /\ req[t].item \in Stores
  BY TabType DEF SearchCreateBasket, RequestOK, CartLabels
<1>2. /\ bstate' \in [Baskets -> {"absent", "open", "checkedOut"}]
      /\ items' = items
  BY DEF SearchCreateBasket, OpenBasket, carts, TypeInv, TypeOK
<1>3. ReqsOK'
  <2>1. CASE End(t)
    BY <2>1, EndType
  <2>2. ASSUME NEW c \in Baskets, NEW id \in ReturnedID(c),
               req' = [req EXCEPT ![t].pc = "searchAddAgain", ![t].bid = id]
        PROVE  ReqsOK'
    <3> DEFINE r == [req[t] EXCEPT !.pc = "searchAddAgain", !.bid = id]
    <3>1. r \in Request /\ req' = [req EXCEPT ![t] = r]
      BY <1>1, <2>2 DEF Request, Labels, ReturnedID
    <3>2. RequestOK(r)
      BY <1>1 DEF RequestOK, Request, NeedsBasket, ConfirmLabels, CartLabels
    <3> HIDE DEF r
    <3> QED BY <3>1, <3>2, ReqUpdate
  <2> QED
    BY <2>1, <2>2 DEF SearchCreateBasket
<1> QED
  BY <1>2, <1>3 DEF SearchCreateBasket, TypeInv, TypeOK, browser, gateway,
                    ReqsOK

\* A cart request saves the count it reads back.
LEMMA FindBasketType ==
    ASSUME TypeInv, NEW t \in Tabs, FindBasket(t)
    PROVE  TypeInv'
<1>1. ReqsOK'
  BY EndType DEF FindBasket, Answer
<1>2. req[t].jar \in Cookie /\ req[t].bid \in Baskets
  BY TabType DEF FindBasket, NeedsBasket, Labels
<1>3. \A c : CartAnswer(t, c) \in Cookie
  BY <1>2 DEF CartAnswer, Cookie, SumQuantities
<1>4. cookie' \in Cookie
  BY <1>3 DEF FindBasket, Answer, TypeInv, TypeOK
<1> QED
  BY <1>1, <1>4 DEF FindBasket, TypeInv, TypeOK, carts, gateway, ReqsOK

\* The search page saves the cookie it was sent.
LEMMA SearchType ==
    ASSUME TypeInv, NEW t \in Tabs, Search(t)
    PROVE  TypeInv'
<1>1. ReqsOK'
  BY EndType DEF Search, Answer
<1>2. cookie' \in Cookie
  BY TabType DEF Search, Answer, TypeInv, TypeOK
<1> QED
  BY <1>1, <1>2 DEF Search, TypeInv, TypeOK, carts, gateway, ReqsOK

\* A call under way takes effect.
LEMMA LandType ==
    ASSUME TypeInv, NEW v \in late, Land(v)
    PROVE  TypeInv'
<1> DEFINE w == v[2]
<1>1. w \in LateCall /\ late' \subseteq Copies \X LateCall
  BY DEF Land, TypeInv, TypeOK
<1>2. CASE w.call = "confirm"
  <2>1. w.tx \in Txs
    BY <1>1, <1>2 DEF LateCall
  <2>2. tstatus' \in [Txs -> TxStatus]
    BY <1>2, <2>1 DEF Land, AfterConfirm, TxStatus, TypeInv, TypeOK
  <2> QED
    BY <1>1, <1>2, <2>2 DEF Land, TypeInv, TypeOK, browser, carts
<1>3. CASE w.call = "createOrder"
  <2>1. w.order \in Order
    BY <1>1, <1>3 DEF LateCall
  <2>2. orders' \in Seq(Order)
    <3>1. orders' = Append(orders, w.order) /\ orders \in Seq(Order)
      BY <1>3 DEF Land, TypeInv, TypeOK
    <3> QED
      BY <2>1, <3>1, AppendType
  <2> QED
    BY <1>1, <1>3, <2>2 DEF Land, TypeInv, TypeOK, browser, carts
<1>4. CASE w.call = "checkoutBasket"
  <2>1. bstate' \in [Baskets -> {"absent", "open", "checkedOut"}]
    BY <1>4 DEF Land, TypeInv, TypeOK
  <2> QED
    BY <1>1, <1>4, <2>1 DEF Land, TypeInv, TypeOK, browser
<1>5. CASE w.call \in {"addItem", "removeItem"}
  <2>1. w.basket \in Baskets /\ w.item \in Stores
    BY <1>1, <1>5 DEF LateCall
  <2>2. items' \in [Baskets -> Contents]
    <3>1. CASE CanApply(w.call, w.basket, w.item)
      BY <1>5, <2>1, <3>1, ApplyType DEF Land
    <3>2. CASE ~CanApply(w.call, w.basket, w.item)
      BY <1>5, <3>2 DEF Land, TypeInv, TypeOK
    <3> QED
      BY <3>1, <3>2
  <2> QED
    BY <1>1, <1>5, <2>2 DEF Land, TypeInv, TypeOK, browser
<1> QED
  BY <1>2, <1>3, <1>4, <1>5 DEF Land

\* No step of the shopper, the application or the services leaves the types.
LEMMA NextType == TypeInv /\ [Next]_vars => TypeInv'
<1> SUFFICES ASSUME TypeInv, [Next]_vars
             PROVE  TypeInv'
  OBVIOUS
<1>1. ASSUME NEW t \in Tabs, Serve(t)
      PROVE  TypeInv'
  BY <1>1, CheckoutReadType, CheckoutConfigType, CheckoutPostType,
     ProcessPaymentType, ConfirmAtGatewayType, ConfirmFinancialsType,
     CreateOrderType, CheckoutBasketType, CreateBasketType, PutItemType,
     SearchCreateBasketType, FindBasketType, SearchType
     DEF Serve
<1>2. ASSUME NEW t \in Tabs, Shopper(t)
      PROVE  TypeInv'
  BY <1>2, StartType, StartProcessPaymentType, PayType, CancelPaymentType,
     StartConfirmType, StartCartRequestType
     DEF Shopper
<1>3. CASE \E x \in Txs : Reverse(x)
  BY <1>3, ReverseType
<1>4. CASE \E v \in late : Land(v)
  BY <1>4, LandType
<1>5. CASE UNCHANGED vars
  BY <1>5 DEF vars, TypeInv, TypeOK
<1> QED
  BY <1>1, <1>2, <1>3, <1>4, <1>5 DEF Next

\* Whatever the tabs, the services and the network do, the cookie, the pages
\* and every request keep the shapes the handlers rely on after their early
\* returns (a basket, a transaction, an address where one is needed).
THEOREM TypeCorrect == Spec => []TypeOK
<1>1. Init => TypeInv
  BY InitType
<1>2. TypeInv /\ [Next]_vars => TypeInv'
  BY NextType
<1>3. TypeInv => TypeOK
  BY DEF TypeInv
<1> QED
  BY <1>1, <1>2, <1>3, PTL DEF Spec

-----------------------------------------------------------------------------
(* The attempt in the cookie *)

AttemptInv == PaymentIDIsOfCurrentAttempt /\ JarsOK

\* At login no attempt has been made.
LEMMA InitAttempt == Init => AttemptInv
BY DEF Init, BlankCookie, NoRequest, AttemptInv, JarsOK, AttemptOK,
       PaymentIDIsOfCurrentAttempt

\* A step that leaves tab t with a copy at one attempt keeps all copies so.
LEMMA JarUpdate ==
    ASSUME TypeInv, JarsOK, NEW t \in Tabs, NEW r,
           req' = [req EXCEPT ![t] = r], AttemptOK(r.jar)
    PROVE  JarsOK'
BY DEF TypeInv, TypeOK, JarsOK, AttemptOK

\* A request that ends keeps no copy.
LEMMA EndJars ==
    ASSUME TypeInv, JarsOK, NEW t \in Tabs, End(t)
    PROVE  JarsOK'
<1>1. AttemptOK(NoRequest.jar)
  BY DEF NoRequest, BlankCookie, AttemptOK
<1> QED
  BY <1>1, JarUpdate DEF End

\* A request starts with the cookie's attempt.
LEMMA StartJars ==
    ASSUME TypeInv, AttemptInv, NEW t \in Tabs,
           NEW l, NEW r, r.jar = StartAt(t, l).jar,
           req' = [req EXCEPT ![t] = r]
    PROVE  JarsOK'
<1>1. StartAt(t, l).jar = cookie
  BY DEF StartAt, NoRequest
<1>2. AttemptOK(r.jar)
  BY <1>1 DEF AttemptInv, PaymentIDIsOfCurrentAttempt, AttemptOK
<1> QED
  BY <1>2, JarUpdate DEF AttemptInv

\* Steps that leave every copy alone.
LEMMA SameJars ==
    ASSUME TypeInv, JarsOK, \A u \in Tabs : req'[u].jar = req[u].jar
    PROVE  JarsOK'
BY DEF JarsOK, AttemptOK

\* One request ends and saves a cookie that is at one attempt.
LEMMA AnswerAttempt ==
    ASSUME TypeInv, AttemptInv, NEW t \in Tabs, NEW c, AttemptOK(c),
           Answer(t, c)
    PROVE  AttemptInv'
BY EndJars DEF Answer, AttemptInv, AttemptOK, PaymentIDIsOfCurrentAttempt

\* A new attempt drops the payment of the one before; every Save writes a copy
\* that is at one attempt, however old.
LEMMA NextAttempt == TypeInv /\ AttemptInv /\ [Next]_vars => AttemptInv'
<1> SUFFICES ASSUME TypeInv, AttemptInv, [Next]_vars
             PROVE  AttemptInv'
  OBVIOUS
<1> USE DEF AttemptInv
<1>1. ASSUME UNCHANGED cookie, JarsOK'
      PROVE  AttemptInv'
  BY <1>1 DEF PaymentIDIsOfCurrentAttempt
<1>2. ASSUME NEW t \in Tabs, End(t), UNCHANGED cookie
      PROVE  AttemptInv'
  BY <1>1, <1>2, EndJars
<1>3. ASSUME NEW t \in Tabs
      PROVE  AttemptOK(req[t].jar) /\ req[t].jar \in Cookie /\ req[t] \in Request
  BY <1>3, TabType DEF JarsOK
<1>4. ASSUME NEW t \in Tabs, Shopper(t)
      PROVE  AttemptInv'
  <2>1. CASE StartCheckout(t) \/ StartCheckoutPost(t) \/ StartSearch(t)
    BY <1>1, <2>1, StartJars DEF StartCheckout, StartCheckoutPost, StartSearch
  <2>2. CASE StartProcessPayment(t)
    <3>1. PICK a \in Addresses :
             req' = [req EXCEPT ![t] = [StartAt(t, "processPayment")
                                          EXCEPT !.jar.shippingAddressID = a]]
      BY <2>2 DEF StartProcessPayment
    <3> DEFINE q == StartAt(t, "processPayment")
               r == [q EXCEPT !.jar.shippingAddressID = a]
    <3>2. q \in Request /\ q.jar = cookie
      BY <2>2, StartAtType DEF StartProcessPayment, Labels
    <3>3. AttemptOK(r.jar)
      BY <3>2 DEF Request, Cookie, AttemptOK, PaymentIDIsOfCurrentAttempt
    <3>4. JarsOK'
      <4> HIDE DEF r
      <4> QED BY <3>1, <3>3, JarUpdate DEF r
    <3> QED
      BY <1>1, <2>2, <3>4 DEF StartProcessPayment, browser
  <2>3. CASE Pay(t) \/ CancelPayment(t)
    BY <1>1, <2>3 DEF Pay, CancelPayment, JarsOK, AttemptOK
  <2>4. ASSUME NEW x \in Txs, StartConfirm(t, x)
        PROVE  AttemptInv'
    <3> DEFINE r == [StartAt(t, "confirm") EXCEPT !.tx = x]
    <3>1. r.jar = StartAt(t, "confirm").jar
      BY DEF StartAt, NoRequest
    <3> HIDE DEF r
    <3> QED BY <1>1, <2>4, <3>1, StartJars DEF StartConfirm, r
  <2>5. ASSUME NEW s \in Stores, NEW l, StartCartRequest(t, l, s)
        PROVE  AttemptInv'
    <3> DEFINE r == [StartAt(t, l) EXCEPT !.item = s]
    <3>1. r.jar = StartAt(t, l).jar
      BY DEF StartAt, NoRequest
    <3> HIDE DEF r
    <3> QED BY <1>1, <2>5, <3>1, StartJars DEF StartCartRequest, r
  <2> QED
    BY <1>4, <2>1, <2>2, <2>3, <2>4, <2>5 DEF Shopper
<1>5. ASSUME NEW t \in Tabs, CheckoutRead(t)
      PROVE  AttemptInv'
  <2>1. ASSUME NEW c, NEW x \in Txs,
               req' = [req EXCEPT ![t].pc = "checkoutConfig",
                                  ![t].tx = x,
                                  ![t].seen = c,
                                  ![t].jar = NewAttempt(req[t].jar, x)]
        PROVE  AttemptInv'
    <3> DEFINE r == [req[t] EXCEPT !.pc = "checkoutConfig", !.tx = x,
                                   !.seen = c,
                                   !.jar = NewAttempt(req[t].jar, x)]
    <3>1. req' = [req EXCEPT ![t] = r]
      BY <2>1
    <3>2. AttemptOK(r.jar)
      BY <1>3 DEF NewAttempt, AttemptOK, Request, Cookie
    <3> HIDE DEF r
    <3> QED BY <1>1, <1>5, <3>1, <3>2, JarUpdate DEF CheckoutRead
  <2> QED
    BY <1>2, <1>5, <2>1 DEF CheckoutRead, Fail
<1>6. ASSUME NEW t \in Tabs, CheckoutConfig(t)
      PROVE  AttemptInv'
  BY <1>2, <1>3, <1>6, AnswerAttempt DEF CheckoutConfig, Fail, browser
<1>7. ASSUME NEW t \in Tabs, CheckoutPost(t)
      PROVE  AttemptInv'
  <2> DEFINE c == [req[t].jar EXCEPT !.paymentID = req[t].jar.clientTransactionID]
  <2>1. AttemptOK(c)
    BY <1>3 DEF AttemptOK, Cookie
  <2>2. CASE Answer(t, c)
    BY <2>1, <2>2, AnswerAttempt
  <2>3. CASE End(t) /\ UNCHANGED cookie
    BY <1>2, <2>3
  <2> QED
    BY <1>7, <2>2, <2>3 DEF CheckoutPost, Fail, browser
<1>8. ASSUME NEW t \in Tabs, ProcessPayment(t)
      PROVE  AttemptInv'
  <2>1. ASSUME NEW x \in Txs,
               Answer(t, [req[t].jar EXCEPT !.clientTransactionID = x,
                                            !.paymentID = x])
        PROVE  AttemptInv'
    <3>1. AttemptOK([req[t].jar EXCEPT !.clientTransactionID = x,
                                       !.paymentID = x])
      BY <1>3 DEF AttemptOK, Cookie
    <3> QED
      BY <2>1, <3>1, AnswerAttempt
  <2> QED
    BY <1>3, <1>8, <2>1, AnswerAttempt DEF ProcessPayment
<1>9. ASSUME NEW t \in Tabs,
             \/ ConfirmAtGateway(t) \/ ConfirmFinancials(t) \/ CreateOrder(t)
             \/ CheckoutBasket(t) \/ PutItem(t) \/ SearchCreateBasket(t)
      PROVE  AttemptInv'
  <2>1. UNCHANGED cookie
    BY <1>9 DEF ConfirmAtGateway, ConfirmFinancials, CreateOrder,
                CheckoutBasket, PutItem, SearchCreateBasket, browser
  <2>2. End(t) \/ \A u \in Tabs : req'[u].jar = req[u].jar
    <3>1. req \in [Tabs -> Request]
      BY DEF TypeInv, TypeOK
    <3>a. ASSUME NEW l, Goto(t, l)
          PROVE  \A u \in Tabs : req'[u].jar = req[u].jar
      BY <3>1, <3>a DEF Goto, Request
    <3>b. ASSUME Retry(t)
          PROVE  End(t) \/ \A u \in Tabs : req'[u].jar = req[u].jar
      BY <3>1, <3>b DEF Retry, Request
    <3>c. ASSUME NEW l, NEW n, req' = [req EXCEPT ![t].pc = l, ![t].tries = n]
          PROVE  \A u \in Tabs : req'[u].jar = req[u].jar
      BY <3>1, <3>c DEF Request
    <3>d. ASSUME NEW l, NEW c, NEW n,
                 req' = [req EXCEPT ![t].pc = l, ![t].seen = c, ![t].todo = n]
          PROVE  \A u \in Tabs : req'[u].jar = req[u].jar
      BY <3>1, <3>d DEF Request
    <3>2. CASE ConfirmAtGateway(t) \/ CheckoutBasket(t)
      BY <3>2, <3>a, Zenon DEF ConfirmAtGateway, CheckoutBasket
    <3>3. CASE ConfirmFinancials(t)
      <4>1. \/ \E l, c, n : req' = [req EXCEPT ![t].pc = l, ![t].seen = c,
                                                ![t].todo = n]
            \/ End(t)
        BY <3>3, Zenon DEF ConfirmFinancials
      <4> QED
        BY <3>d, <4>1, Zenon
    <3>4. CASE CreateOrder(t)
      BY <3>1, <3>4 DEF CreateOrder, AfterLostOrder, Request
    <3>5. CASE PutItem(t)
      <4>1. \/ \E l, n : req' = [req EXCEPT ![t].pc = l, ![t].tries = n]
            \/ Retry(t)
            \/ End(t)
        BY <3>5, Zenon DEF PutItem
      <4> QED
        BY <3>b, <3>c, <4>1, Zenon
    <3>6. CASE SearchCreateBasket(t)
      BY <3>1, <3>6 DEF SearchCreateBasket, Request
    <3> QED
      BY <1>9, <3>2, <3>3, <3>4, <3>5, <3>6
  <2> QED
    BY <1>1, <1>2, <2>1, <2>2, SameJars
<1>10. ASSUME NEW t \in Tabs, CreateBasket(t)
       PROVE  AttemptInv'
  <2>1. \A id : AttemptOK([req[t].jar EXCEPT !.basketID = id,
                                             !.basketItems = "zero"])
    BY <1>3 DEF AttemptOK, Cookie
  <2> QED
    BY <1>2, <1>10, <2>1, AnswerAttempt DEF CreateBasket
<1>11. ASSUME NEW t \in Tabs, FindBasket(t) \/ Search(t)
       PROVE  AttemptInv'
  <2>1. \A c : AttemptOK(CartAnswer(t, c))
    BY <1>3 DEF AttemptOK, Cookie, CartAnswer
  <2> QED
    BY <1>2, <1>3, <1>11, <2>1, AnswerAttempt DEF FindBasket, Search
<1>12. CASE \/ \E x \in Txs : Reverse(x)
            \/ \E v \in late : Land(v)
            \/ UNCHANGED vars
  BY <1>1, <1>12 DEF Reverse, Land, browser, vars, JarsOK, AttemptOK
<1> QED
  BY <1>4, <1>5, <1>6, <1>7, <1>8, <1>9, <1>10, <1>11, <1>12
     DEF Next, Serve

\* A checkout never runs under the payment id of an earlier attempt: whichever
\* of the concurrent answers reaches the browser last, the payment id in the
\* cookie is that of the attempt in the cookie, or there is none.
THEOREM PaymentOfCurrentAttempt == Spec => []PaymentIDIsOfCurrentAttempt
<1>1. Init => TypeInv /\ AttemptInv
  BY InitType, InitAttempt
<1>2. TypeInv /\ AttemptInv /\ [Next]_vars => (TypeInv /\ AttemptInv)'
  BY NextType, NextAttempt
<1>3. TypeInv /\ AttemptInv => PaymentIDIsOfCurrentAttempt
  BY DEF AttemptInv
<1> QED
  BY <1>1, <1>2, <1>3, PTL DEF Spec
=============================================================================
