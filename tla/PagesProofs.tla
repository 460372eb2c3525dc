----------------------------- MODULE PagesProofs -----------------------------
(***************************************************************************)
(* Theorems about the scripts of the pages, for any number of addresses,   *)
(* posts, products, orders and tabs: CheckoutPage, CartPage, ThemeControl  *)
(* and OrdersList, as MCParts instantiates them.                           *)
(***************************************************************************)
EXTENDS MCParts, TLAPS

-----------------------------------------------------------------------------
(* CheckoutPage, for a shopper who does not wait. *)

\* The button appears with the first success and stays alone; a page that was
\* left has neither button nor posts.
ButtonInv ==
    /\ buttons = 0 \/ buttons = 1
    /\ live => recorded
    /\ status = "left" => ~live /\ DOMAIN calls = {}
    /\ status # "left" /\ ~live => buttons = 0

\* Every step of the checkout page and of its posts keeps it.
LEMMA ButtonStep == ButtonInv /\ [AddressRace!Next]_addressVars => ButtonInv'
<1> SUFFICES ASSUME ButtonInv, [AddressRace!Next]_addressVars
             PROVE  ButtonInv'
  OBVIOUS
<1> USE DEF ButtonInv, AddressRace!Busy
<1>1. CASE AddressRace!Load
  BY <1>1 DEF AddressRace!Load, AddressRace!Post
<1>2. CASE AddressRace!Pay
  BY <1>2 DEF AddressRace!Pay
<1>3. ASSUME NEW a \in Addresses, AddressRace!Choose(a)
      PROVE  ButtonInv'
  BY <1>3 DEF AddressRace!Choose, AddressRace!Post
<1>4. ASSUME NEW c \in AddressRace!Busy, AddressRace!Serve(c)
      PROVE  ButtonInv'
  BY <1>4 DEF AddressRace!Serve, AddressRace!page
<1>5. ASSUME NEW c \in AddressRace!Busy, AddressRace!Succeed(c)
      PROVE  ButtonInv'
  BY <1>5 DEF AddressRace!Succeed, AddressRace!Without, AddressRace!InitializePayPhone,
              AddressRace!Shows
<1>6. ASSUME NEW c \in AddressRace!Busy, AddressRace!Fail(c)
      PROVE  ButtonInv'
  BY <1>6 DEF AddressRace!Fail, AddressRace!Without
<1>7. CASE UNCHANGED addressVars
  BY <1>7 DEF addressVars
<1> QED
  BY <1>1, <1>2, <1>3, <1>4, <1>5, <1>6, <1>7
     DEF AddressRace!Next, AddressRace!Answered

\* However many posts of the checkout page are under way and in whatever order
\* they are answered, it shows at most one PayPhone button, and only after one
\* of them succeeded (checkout-payphone.js initializePayPhone).
THEOREM OneButton == AddressRace!Spec => []OneButtonAfterRecord
<1>1. AddressRace!Init => ButtonInv
  BY DEF AddressRace!Init, ButtonInv
<1>2. ButtonInv => OneButtonAfterRecord
  BY DEF ButtonInv, OneButtonAfterRecord, AddressRace!OneButtonAfterRecord
<1>3. ButtonInv /\ [AddressRace!Next]_AddressRace!vars => ButtonInv'
  BY ButtonStep DEF AddressRace!vars, addressVars
<1> QED
  BY <1>1, <1>2, <1>3, PTL DEF AddressRace!Spec

-----------------------------------------------------------------------------
(* CheckoutPage, for a shopper who waits for the answers. *)

\* A post carries the chosen address; once the handler has saved, its copy of
\* the cookie has it too, and once it is done, the payment id.
CallOK(call) ==
    /\ call \in AddressPatient!Call
    /\ call.address = selected
    /\ call.state \in {"saved", "done"} => call.cookie.address = call.address
    /\ call.state = "done" => call.cookie.payment

\* At most one post is under way, and none once the button is there: the cookie
\* is then the one that the successful post brought, with the address that was
\* chosen at that moment.
PatientInv ==
    /\ pageCookie \in AddressPatient!Cookie
    /\ \A c, d \in DOMAIN calls : c = d
    /\ \A c \in DOMAIN calls : CallOK(calls[c])
    /\ live => /\ DOMAIN calls = {}
               /\ pageCookie.address = offered
               /\ pageCookie.payment

\* A post on a page where none is under way is the only one.
LEMMA PatientPost ==
    ASSUME NEW a \in Addresses, NEW k \in AddressPatient!Cookie,
           NEW pending, DOMAIN pending = {}, AddressPatient!Post(a, k, pending)
    PROVE  /\ \A c, d \in DOMAIN calls' : c = d
           /\ \A c \in DOMAIN calls' :
                 calls'[c] = [address |-> a, cookie |-> k, state |-> "sent"]
BY DEF AddressPatient!Post

\* What the handler saves has the address of the post.
LEMMA SavedCookie ==
    ASSUME NEW call \in AddressPatient!Call
    PROVE  /\ AddressPatient!Saved(call) \in AddressPatient!Cookie
           /\ AddressPatient!Saved(call).address = call.address
           /\ AddressPatient!Done(call) \in AddressPatient!Cookie
           /\ AddressPatient!Done(call).address = call.address
           /\ AddressPatient!Done(call).payment
<1>1. /\ call.cookie \in AddressPatient!Cookie /\ call.address \in Addresses
  BY DEF AddressPatient!Call
<1>2. /\ AddressPatient!Saved(call) \in AddressPatient!Cookie
      /\ AddressPatient!Saved(call).address = call.address
  BY <1>1 DEF AddressPatient!Saved, AddressPatient!Cookie
<1> QED
  BY <1>1, <1>2 DEF AddressPatient!Done, AddressPatient!Cookie

\* Whatever becomes of a post, it stays one of the chosen address.
LEMMA ServedOK ==
    ASSUME NEW call, CallOK(call), NEW s \in {"refused", "saved", "done"}, NEW n,
           n = [call EXCEPT !.state = s,
                            !.cookie = CASE s = "refused" -> @
                                         [] s = "saved" -> AddressPatient!Saved(call)
                                         [] s = "done" -> AddressPatient!Done(call)]
    PROVE  CallOK(n)
<1> DEFINE k == CASE s = "refused" -> call.cookie
                  [] s = "saved" -> AddressPatient!Saved(call)
                  [] s = "done" -> AddressPatient!Done(call)
<1>1. call \in AddressPatient!Call /\ call.address = selected
  BY DEF CallOK
<1>2. /\ k \in AddressPatient!Cookie
      /\ s \in {"saved", "done"} => k.address = call.address
      /\ s = "done" => k.payment
  BY <1>1, SavedCookie DEF AddressPatient!Call
<1>3. n = [call EXCEPT !.state = s, !.cookie = k]
  OBVIOUS
<1> HIDE DEF k
<1>4. n \in AddressPatient!Call /\ n.address = call.address /\ n.state = s /\ n.cookie = k
  BY <1>1, <1>2, <1>3 DEF AddressPatient!Call
<1> QED
  BY <1>1, <1>2, <1>4 DEF CallOK

\* Every step of the patient shopper keeps it.
LEMMA PatientStep == PatientInv /\ [AddressPatient!Next]_addressVars => PatientInv'
<1> SUFFICES ASSUME PatientInv, [AddressPatient!Next]_addressVars
             PROVE  PatientInv'
  OBVIOUS
<1>1. CASE AddressPatient!Load
  <2>1. pageCookie' \in AddressPatient!Cookie
    BY <1>1 DEF AddressPatient!Load, AddressPatient!Cookie, PatientInv
  <2>2. CASE selected' = Nothing
    BY <1>1, <2>1, <2>2 DEF AddressPatient!Load, PatientInv
  <2>3. CASE selected' # Nothing
    <3>1. selected' \in Addresses /\ AddressPatient!Post(selected', pageCookie', [c \in {} |-> Nothing])
      BY <1>1, <2>3 DEF AddressPatient!Load
    <3>2. /\ \A c, d \in DOMAIN calls' : c = d
          /\ \A c \in DOMAIN calls' :
                calls'[c] = [address |-> selected', cookie |-> pageCookie', state |-> "sent"]
      BY <2>1, <3>1 DEF AddressPatient!Post
    <3>3. \A c \in DOMAIN calls' : CallOK(calls[c])'
      BY <2>1, <3>1, <3>2 DEF CallOK, AddressPatient!Call
    <3> QED
      BY <1>1, <2>1, <3>2, <3>3 DEF AddressPatient!Load, PatientInv
  <2> QED
    BY <2>2, <2>3
<1>2. CASE AddressPatient!Pay
  BY <1>2 DEF AddressPatient!Pay, PatientInv
<1>3. ASSUME NEW a \in Addresses, AddressPatient!Choose(a)
      PROVE  PatientInv'
  <2>1. /\ DOMAIN calls = {} /\ selected' = a
        /\ UNCHANGED <<pageCookie, live, offered>>
        /\ pageCookie \in AddressPatient!Cookie
    BY <1>3 DEF AddressPatient!Choose, AddressPatient!Busy, PatientInv
  <2>2. CASE live
    <3>1. UNCHANGED calls
      BY <1>3, <2>2 DEF AddressPatient!Choose
    <3> QED
      BY <2>1, <2>2, <3>1 DEF PatientInv
  <2>3. CASE ~live
    <3>1. AddressPatient!Post(a, pageCookie, calls)
      BY <1>3, <2>3 DEF AddressPatient!Choose
    <3>2. /\ \A c, d \in DOMAIN calls' : c = d
          /\ \A c \in DOMAIN calls' :
                calls'[c] = [address |-> a, cookie |-> pageCookie, state |-> "sent"]
      BY <2>1, <3>1, PatientPost
    <3>3. \A c \in DOMAIN calls' : CallOK(calls[c])'
      BY <2>1, <3>2 DEF CallOK, AddressPatient!Call
    <3> QED
      BY <2>1, <2>3, <3>2, <3>3 DEF PatientInv
  <2> QED
    BY <2>2, <2>3
<1>4. ASSUME NEW c \in AddressPatient!Busy, AddressPatient!Serve(c)
      PROVE  PatientInv'
  <2>1. /\ c \in DOMAIN calls /\ CallOK(calls[c]) /\ ~live
        /\ UNCHANGED <<pageCookie, selected, live>>
    BY <1>4 DEF AddressPatient!Serve, AddressPatient!page, AddressPatient!Busy, PatientInv
  <2>2. DOMAIN calls' = DOMAIN calls
    BY <1>4 DEF AddressPatient!Serve
  <2>3. PICK s \in {"refused", "saved", "done"} :
           calls'[c] = [calls[c] EXCEPT !.state = s,
                                        !.cookie = CASE s = "refused" -> @
                                                     [] s = "saved" -> AddressPatient!Saved(calls[c])
                                                     [] s = "done" -> AddressPatient!Done(calls[c])]
    BY <1>4, <2>1 DEF AddressPatient!Serve
  <2>4. CallOK(calls'[c])
    BY <2>1, <2>3, ServedOK
  <2> QED
    BY <2>1, <2>2, <2>4 DEF PatientInv, CallOK
<1>5. ASSUME NEW c \in AddressPatient!Busy, AddressPatient!Succeed(c)
      PROVE  PatientInv'
  <2>1. /\ DOMAIN calls' = {} /\ ~live /\ pageCookie' = calls[c].cookie
        /\ CallOK(calls[c]) /\ calls[c].state = "done"
    BY <1>5 DEF AddressPatient!Succeed, AddressPatient!Without, AddressPatient!Busy,
                PatientInv
  <2>2. live' => offered' = selected
    BY <1>5, <2>1 DEF AddressPatient!Succeed, AddressPatient!InitializePayPhone,
                      AddressPatient!Shows
  <2> QED
    BY <2>1, <2>2 DEF PatientInv, CallOK, AddressPatient!Call
<1>6. ASSUME NEW c \in AddressPatient!Busy, AddressPatient!Fail(c)
      PROVE  PatientInv'
  <2>1. /\ DOMAIN calls' = {} /\ ~live' /\ CallOK(calls[c])
        /\ pageCookie' \in {pageCookie, calls[c].cookie}
    BY <1>6 DEF AddressPatient!Fail, AddressPatient!Without, AddressPatient!Busy,
                PatientInv
  <2> QED
    BY <2>1 DEF PatientInv, CallOK, AddressPatient!Call
<1>7. CASE UNCHANGED addressVars
  BY <1>7 DEF addressVars, PatientInv, CallOK
<1> QED
  BY <1>1, <1>2, <1>3, <1>4, <1>5, <1>6, <1>7
     DEF AddressPatient!Next, AddressPatient!Answered

\* ... so it holds of every behaviour of that shopper.
LEMMA PatientInvariant == AddressPatient!Spec => []PatientInv
<1>1. AddressPatient!Init => PatientInv
  BY DEF AddressPatient!Init, PatientInv, AddressPatient!Cookie
<1>2. PatientInv /\ [AddressPatient!Next]_AddressPatient!vars => PatientInv'
  BY PatientStep DEF AddressPatient!vars, addressVars
<1> QED
  BY <1>1, <1>2, PTL DEF AddressPatient!Spec

\* A shopper who waits for the answers, and may then choose again, pays with the
\* address that was chosen when the button appeared (checkout-payphone.js
\* validateShippingAddress).
THEOREM PatientShips == AddressPatient!Spec => []ShipsToOffered
<1>1. PatientInv => ShipsToOffered
  BY DEF PatientInv, ShipsToOffered, AddressPatient!ShipsToOffered
<1> QED
  BY <1>1, PatientInvariant, PTL

\* ... and with the payment id of the attempt in the cookie
\* (checkout-payphone.js createPaymentRecord, initializePayPhone).
THEOREM PatientPays == AddressPatient!Spec => []PaysRecorded
<1>1. PatientInv => PaysRecorded
  BY DEF PatientInv, PaysRecorded, AddressPatient!PaysRecorded
<1> QED
  BY <1>1, PatientInvariant, PTL

-----------------------------------------------------------------------------
(* CheckoutPage: the kinds of its values, for both shoppers. *)

\* A shopper who waits does what one who does not wait might do.
LEMMA PatientChoosesToo == AddressPatient!Next => AddressRace!Next
<1>1. (AddressPatient!Load => AddressRace!Load) /\ (AddressPatient!Pay => AddressRace!Pay)
  BY DEF AddressPatient!Load, AddressRace!Load, AddressPatient!Post, AddressRace!Post,
         AddressPatient!Pay, AddressRace!Pay
<1>2. ASSUME NEW a \in Addresses, AddressPatient!Choose(a)
      PROVE  AddressRace!Choose(a)
  BY <1>2 DEF AddressPatient!Choose, AddressRace!Choose, AddressPatient!Post,
              AddressRace!Post
<1>3. ASSUME NEW c \in DOMAIN calls, AddressPatient!Answered(c)
      PROVE  AddressRace!Answered(c)
  BY <1>3 DEF AddressPatient!Answered, AddressRace!Answered, AddressPatient!Serve,
              AddressRace!Serve, AddressPatient!Saved, AddressRace!Saved,
              AddressPatient!Done, AddressRace!Done, AddressPatient!page, AddressRace!page,
              AddressPatient!Succeed, AddressRace!Succeed, AddressPatient!Fail,
              AddressRace!Fail, AddressPatient!Without, AddressRace!Without,
              AddressPatient!Busy, AddressRace!Busy,
              AddressPatient!InitializePayPhone, AddressRace!InitializePayPhone,
              AddressPatient!Shows, AddressRace!Shows
<1> QED
  BY <1>1, <1>2, <1>3 DEF AddressPatient!Next, AddressRace!Next, AddressPatient!Busy,
                          AddressRace!Busy

\* A post that is added to others is one.
LEMMA PostTyped ==
    ASSUME NEW a \in Addresses, NEW k \in AddressRace!Cookie, NEW pending,
           DOMAIN pending \subseteq Calls,
           \A c \in DOMAIN pending : pending[c] \in AddressRace!Call,
           AddressRace!Post(a, k, pending)
    PROVE  /\ DOMAIN calls' \subseteq Calls
           /\ \A c \in DOMAIN calls' : calls'[c] \in AddressRace!Call
<1>1. [address |-> a, cookie |-> k, state |-> "sent"] \in AddressRace!Call
  BY DEF AddressRace!Call
<1>2. PICK c \in Calls \ DOMAIN pending :
         calls' = [d \in DOMAIN pending \cup {c} |->
                      IF d = c THEN [address |-> a, cookie |-> k, state |-> "sent"]
                               ELSE pending[d]]
  BY DEF AddressRace!Post
<1> QED
  BY <1>1, <1>2

\* Whatever becomes of a post, it stays one.
LEMMA ServedTyped ==
    ASSUME NEW call \in AddressRace!Call, NEW s \in {"refused", "saved", "done"}
    PROVE  [call EXCEPT !.state = s,
                        !.cookie = CASE s = "refused" -> @
                                     [] s = "saved" -> AddressRace!Saved(call)
                                     [] s = "done" -> AddressRace!Done(call)]
              \in AddressRace!Call
<1>1. call.cookie \in AddressRace!Cookie /\ call.address \in Addresses
  BY DEF AddressRace!Call
<1>2. AddressRace!Saved(call) \in AddressRace!Cookie
  BY <1>1 DEF AddressRace!Saved, AddressRace!Cookie
<1>3. AddressRace!Done(call) \in AddressRace!Cookie
  BY <1>2 DEF AddressRace!Done, AddressRace!Cookie
<1> DEFINE k == CASE s = "refused" -> call.cookie
                  [] s = "saved" -> AddressRace!Saved(call)
                  [] s = "done" -> AddressRace!Done(call)
<1>4. k \in AddressRace!Cookie
  BY <1>1, <1>2, <1>3
<1> HIDE DEF k
<1>5. [call EXCEPT !.state = s, !.cookie = k] \in AddressRace!Call
  BY <1>4 DEF AddressRace!Call
<1> QED
  BY <1>5 DEF k

\* Every step of the page and of its posts keeps the kinds of the values.
LEMMA AddressTypeStep ==
    AddressRace!TypeOK /\ [AddressRace!Next]_addressVars => AddressRace!TypeOK'
<1> SUFFICES ASSUME AddressRace!TypeOK, [AddressRace!Next]_addressVars
             PROVE  AddressRace!TypeOK'
  OBVIOUS
<1> USE DEF AddressRace!TypeOK, AddressRace!Busy
<1>1. CASE AddressRace!Load
  <2>1. pageCookie' \in AddressRace!Cookie
    BY <1>1 DEF AddressRace!Load, AddressRace!Cookie
  <2>2. /\ DOMAIN calls' \subseteq Calls
        /\ \A c \in DOMAIN calls' : calls'[c] \in AddressRace!Call
    <3> DEFINE none == [c \in {} |-> Nothing]
    <3>1. DOMAIN none = {}
      OBVIOUS
    <3>2. \/ calls' = none
          \/ selected' \in Addresses /\ AddressRace!Post(selected', pageCookie', none)
      BY <1>1 DEF AddressRace!Load
    <3> HIDE DEF none
    <3> QED
      BY <2>1, <3>1, <3>2, PostTyped
  <2>3. loads' \in 0 .. MaxLoads
    BY <1>1, PartsAssumption DEF AddressRace!Load
  <2> QED
    BY <1>1, <2>1, <2>2, <2>3 DEF AddressRace!Load
<1>2. CASE AddressRace!Pay
  BY <1>2 DEF AddressRace!Pay
<1>3. ASSUME NEW a \in Addresses, AddressRace!Choose(a)
      PROVE  AddressRace!TypeOK'
  BY <1>3, PostTyped DEF AddressRace!Choose
<1>4. ASSUME NEW c \in DOMAIN calls, AddressRace!Serve(c)
      PROVE  AddressRace!TypeOK'
  <2>1. PICK s \in {"refused", "saved", "done"} :
           calls' = [calls EXCEPT
                        ![c].state = s,
                        ![c].cookie = CASE s = "refused" -> @
                                        [] s = "saved" -> AddressRace!Saved(calls[c])
                                        [] s = "done" -> AddressRace!Done(calls[c])]
    BY <1>4 DEF AddressRace!Serve
  <2> DEFINE n == [calls[c] EXCEPT
                      !.state = s,
                      !.cookie = CASE s = "refused" -> @
                                   [] s = "saved" -> AddressRace!Saved(calls[c])
                                   [] s = "done" -> AddressRace!Done(calls[c])]
  <2>2. n \in AddressRace!Call
    BY ServedTyped
  <2>3. /\ DOMAIN calls' = DOMAIN calls /\ calls'[c] = n
        /\ \A d \in DOMAIN calls \ {c} : calls'[d] = calls[d]
    BY <2>1
  <2> HIDE DEF n
  <2> QED
    BY <1>4, <2>2, <2>3 DEF AddressRace!Serve, AddressRace!page
<1>5. ASSUME NEW c \in DOMAIN calls, AddressRace!Succeed(c) \/ AddressRace!Fail(c)
      PROVE  AddressRace!TypeOK'
  <2>1. /\ calls[c].cookie \in AddressRace!Cookie
        /\ pageCookie' \in {pageCookie, calls[c].cookie}
        /\ UNCHANGED <<widget, selected, loads>>
    BY <1>5 DEF AddressRace!Succeed, AddressRace!Fail, AddressRace!Call
  <2>2. /\ DOMAIN calls' \subseteq DOMAIN calls
        /\ \A d \in DOMAIN calls' : calls'[d] = calls[d]
    BY <1>5 DEF AddressRace!Succeed, AddressRace!Fail, AddressRace!Without
  <2> USE DEF AddressRace!InitializePayPhone, AddressRace!Shows
  <2>3. /\ live' \in BOOLEAN /\ recorded' \in BOOLEAN
        /\ offered' \in {offered, selected}
    BY <1>5 DEF AddressRace!Succeed, AddressRace!Fail
  <2>4. buttons' \in {buttons, buttons + 1} /\ status' \in {"initializing", "ready", "failed"}
    BY <1>5 DEF AddressRace!Succeed, AddressRace!Fail
  <2>5. buttons' \in Nat
    BY <2>4
  <2> QED
    BY <2>1, <2>2, <2>3, <2>4, <2>5
<1>6. CASE UNCHANGED addressVars
  BY <1>6 DEF addressVars
<1> QED
  BY <1>1, <1>2, <1>3, <1>4, <1>5, <1>6 DEF AddressRace!Next, AddressRace!Answered

-----------------------------------------------------------------------------
(* CartPage, for a shopper who does not wait. *)

\* What makes the page show the basket in the end: a reload that has read it
\* has what is in the basket or missed a change; a post whose page is gone is a
\* reason to call the page overtaken; and a page that shows something else has
\* a reason for it, or a post of its own under way.
CartInv ==
    /\ \A l \in DOMAIN posts : posts[l] \in CartRace!Posts
    /\ reload \in {"none", "asked", "read"}
    /\ reasons \subseteq CartRace!Reasons
    /\ reload = "read" => snapshot = cart \/ reasons \ {"failed"} # {}
    /\ reload = "none" =>
          \/ "overtaken" \in reasons
          \/ \A l \in DOMAIN posts : posts[l].state # "lost"
    /\ reload = "none" /\ open =>
          shown = cart \/ reasons # {} \/ DOMAIN posts # {}

\* A change of the basket by anyone but a post of the page becomes a reason.
LEMMA CartMissed ==
    ASSUME CartInv, NEW r \in {"late", "elsewhere"}, CartRace!Missed(r),
           UNCHANGED <<shown, open, posts, reload, snapshot>>
    PROVE  CartInv'
<1>1. /\ reasons \subseteq reasons' /\ reasons' \subseteq CartRace!Reasons
      /\ reload # "asked" /\ cart' # cart => r \in reasons'
  BY DEF CartRace!Missed, CartRace!Reasons, CartInv
<1>2. r # "failed"
  OBVIOUS
<1> QED
  BY <1>1, <1>2 DEF CartInv

\* The handler of a post, which changes the basket or fails.
LEMMA CartServe ==
    ASSUME CartInv, NEW l \in CartRace!Busy, CartRace!Serve(l)
    PROVE  CartInv'
<1> USE DEF CartRace!Busy
<1>1. /\ posts[l] \in CartRace!Posts
      /\ UNCHANGED <<shown, open, reload, snapshot>>
      /\ reasons \subseteq reasons' /\ reasons' \subseteq CartRace!Reasons
      /\ reload = "read" /\ cart' # cart => "overtaken" \in reasons'
  BY DEF CartRace!Serve, CartRace!Missed, CartRace!Reasons, CartInv
<1>2. CASE posts[l].state = "lost"
  <2>1. posts' = [m \in DOMAIN posts \ {l} |-> posts[m]]
    BY <1>2 DEF CartRace!Serve
  <2>2. reload = "none" => "overtaken" \in reasons
    BY <1>2 DEF CartInv
  <2> QED
    BY <1>1, <2>1, <2>2 DEF CartInv
<1>3. CASE posts[l].state = "sent"
  <2>1. PICK s \in {"ok", "error"} : posts' = [posts EXCEPT ![l].state = s]
    BY <1>3 DEF CartRace!Serve
  <2>2. /\ DOMAIN posts' = DOMAIN posts
        /\ posts'[l] = [posts[l] EXCEPT !.state = s]
        /\ \A m \in DOMAIN posts \ {l} : posts'[m] = posts[m]
    BY <2>1
  <2>3. posts'[l] \in CartRace!Posts /\ posts'[l].state # "lost"
    BY <1>1, <2>2 DEF CartRace!Posts
  <2>4. /\ l \in DOMAIN posts'
        /\ \A m \in DOMAIN posts' : posts'[m] \in CartRace!Posts
        /\ \/ "overtaken" \in reasons
           \/ \A m \in DOMAIN posts' : posts'[m].state # "lost"
           \/ reload # "none"
    BY <2>2, <2>3 DEF CartInv
  <2>5. reload = "read" => snapshot = cart' \/ reasons' \ {"failed"} # {}
    BY <1>1 DEF CartInv
  <2> HIDE DEF CartRace!Busy
  <2> QED
    BY <1>1, <2>4, <2>5 DEF CartInv
<1> QED
  BY <1>2, <1>3 DEF CartRace!Serve

\* Every step of the cart page, of the basket service and of other tabs keeps it.
LEMMA CartStep == CartInv /\ [CartRace!Next]_cartVars => CartInv'
<1> SUFFICES ASSUME CartInv, [CartRace!Next]_cartVars
             PROVE  CartInv'
  OBVIOUS
<1> USE DEF CartRace!Busy
<1>1. ASSUME NEW x \in Items, NEW op \in CartRace!Ops, CartRace!Click(x, op)
      PROVE  CartInv'
  <2>1. PICK l \in Lines \ DOMAIN posts :
           posts' = [m \in DOMAIN posts \cup {l} |->
                        IF m = l THEN [call |-> <<x, op>>, state |-> "sent"]
                                 ELSE posts[m]]
    BY <1>1 DEF CartRace!Click
  <2>2. [call |-> <<x, op>>, state |-> "sent"] \in CartRace!Posts
    BY DEF CartRace!Posts, CartRace!BasketCalls
  <2>3. /\ l \in DOMAIN posts'
        /\ \A m \in DOMAIN posts' : posts'[m] \in CartRace!Posts
        /\ \A m \in DOMAIN posts' : posts'[m].state = "sent" \/ (m \in DOMAIN posts /\ posts'[m] = posts[m])
    BY <2>1, <2>2 DEF CartInv
  <2> QED
    BY <1>1, <2>3 DEF CartRace!Click, CartInv
<1>2. ASSUME NEW l \in CartRace!Busy, CartRace!Done(l)
      PROVE  CartInv'
  <2>1. posts' = [m \in DOMAIN posts \ {l} |-> posts[m]]
    BY <1>2 DEF CartRace!Done
  <2>2. reasons' \subseteq CartRace!Reasons
    BY <1>2 DEF CartRace!Done, CartRace!Reasons, CartInv
  <2> QED
    BY <1>2, <2>1, <2>2 DEF CartRace!Done, CartInv
<1>3. ASSUME NEW w \in CartRace!BasketCalls, CartRace!Land(w) \/ CartRace!Elsewhere(w)
      PROVE  CartInv'
  BY <1>3, CartMissed DEF CartRace!Land, CartRace!Elsewhere
<1>4. CASE CartRace!Open
  BY <1>4 DEF CartRace!Open, CartInv
<1>5. CASE CartRace!Read
  BY <1>5 DEF CartRace!Read, CartInv
<1>6. CASE CartRace!Replace
  <2>1. /\ DOMAIN posts' \subseteq DOMAIN posts
        /\ \A l \in DOMAIN posts' : posts'[l] = [posts[l] EXCEPT !.state = "lost"]
    BY <1>6 DEF CartRace!Replace
  <2>2. \A l \in DOMAIN posts' : posts'[l] \in CartRace!Posts
    BY <2>1 DEF CartInv, CartRace!Posts
  <2>3. /\ reasons' \subseteq CartRace!Reasons
        /\ reasons \ {"failed"} \subseteq reasons'
        /\ DOMAIN posts' # {} => "overtaken" \in reasons'
    BY <1>6 DEF CartRace!Replace, CartRace!Reasons, CartInv
  <2> QED
    BY <1>6, <2>2, <2>3 DEF CartRace!Replace, CartInv
<1>7. CASE UNCHANGED cartVars
  BY <1>7 DEF cartVars, CartInv
<1> QED
  BY <1>1, <1>2, <1>3, <1>4, <1>5, <1>6, <1>7, CartServe DEF CartRace!Next

\* A settled cart page that shows quantities the basket does not have owes it to
\* a post that failed, to a reload that overtook one, to an attempt that was
\* given up and applied after the page was read, or to another tab, and to
\* nothing else (buttons-operations.js performOperation, basketremote.go).
THEOREM CartWrongForAReason == CartRace!Spec => []WrongForAReason
<1>1. CartRace!Init => CartInv
  BY DEF CartRace!Init, CartInv
<1>2. CartInv => WrongForAReason
  BY DEF CartInv, WrongForAReason, CartRace!WrongForAReason, CartRace!Settled,
         CartRace!Busy
<1>3. CartInv /\ [CartRace!Next]_CartRace!vars => CartInv'
  BY CartStep DEF CartRace!vars, cartVars
<1> QED
  BY <1>1, <1>2, <1>3, PTL DEF CartRace!Spec

-----------------------------------------------------------------------------
(* CartPage, for a shopper who waits until the page has settled. *)

\* Nothing is under way but one post or one reload, and attempts given up: so
\* nothing is overtaken.
SettledInv ==
    /\ reasons \subseteq {"failed", "late"}
    /\ \A l, m \in DOMAIN posts : l = m
    /\ \A l \in DOMAIN posts : posts[l].state # "lost"
    /\ DOMAIN posts # {} => reload = "none"

\* A shopper who waits does what one who does not wait might do.
LEMMA PatientIsRace == CartPatient!Next => CartRace!Next
<1>1. ASSUME NEW x \in Items, NEW op \in CartRace!Ops, CartPatient!Click(x, op)
      PROVE  CartRace!Click(x, op)
  BY <1>1 DEF CartPatient!Click, CartRace!Click, CartPatient!Busy, CartRace!Busy,
              CartPatient!Displayed, CartRace!Displayed
<1>2. ASSUME NEW l \in CartRace!Busy, CartPatient!Serve(l) \/ CartPatient!Done(l)
      PROVE  CartRace!Serve(l) \/ CartRace!Done(l)
  BY <1>2 DEF CartPatient!Serve, CartRace!Serve, CartPatient!Done, CartRace!Done,
              CartPatient!Busy, CartRace!Busy, CartPatient!Applied, CartRace!Applied,
              CartPatient!Missed, CartRace!Missed
<1>3. CartPatient!Open => CartRace!Open
  BY DEF CartPatient!Open, CartRace!Open
<1>4. (CartPatient!Read => CartRace!Read) /\ (CartPatient!Replace => CartRace!Replace)
  BY DEF CartPatient!Read, CartRace!Read, CartPatient!Replace, CartRace!Replace,
         CartPatient!Busy, CartRace!Busy
<1>5. ASSUME NEW w \in CartRace!BasketCalls, CartPatient!Land(w) \/ CartPatient!Elsewhere(w)
      PROVE  CartRace!Land(w)
  BY <1>5 DEF CartPatient!Land, CartRace!Land, CartPatient!Elsewhere,
              CartPatient!Applied, CartRace!Applied, CartPatient!Missed, CartRace!Missed
<1> QED
  BY <1>1, <1>2, <1>3, <1>4, <1>5
     DEF CartPatient!Next, CartRace!Next, CartPatient!Busy, CartRace!Busy,
         CartPatient!Ops, CartRace!Ops, CartPatient!BasketCalls, CartRace!BasketCalls

\* A shopper who waits never has a reload overtake a post.
LEMMA SettledStep ==
    CartInv /\ SettledInv /\ [CartPatient!Next]_cartVars => SettledInv'
<1> SUFFICES ASSUME CartInv, SettledInv, [CartPatient!Next]_cartVars
             PROVE  SettledInv'
  OBVIOUS
<1> USE DEF CartPatient!Busy, SettledInv
<1>1. ASSUME NEW x \in Items, NEW op \in CartPatient!Ops, CartPatient!Click(x, op)
      PROVE  SettledInv'
  <2>1. PICK l : posts' = [m \in DOMAIN posts \cup {l} |->
                              IF m = l THEN [call |-> <<x, op>>, state |-> "sent"]
                                       ELSE posts[m]]
    BY <1>1 DEF CartPatient!Click
  <2>2. DOMAIN posts = {} /\ reload' = "none" /\ UNCHANGED reasons
    BY <1>1 DEF CartPatient!Click
  <2>3. DOMAIN posts' = {l} /\ posts'[l].state = "sent"
    BY <2>1, <2>2
  <2> QED
    BY <2>2, <2>3
<1>2. ASSUME NEW l \in CartPatient!Busy, CartPatient!Serve(l)
      PROVE  SettledInv'
  <2>1. /\ posts[l].state = "sent" /\ posts[l] \in CartRace!Posts
        /\ reload = "none" /\ UNCHANGED <<reload, reasons>>
    BY <1>2 DEF CartPatient!Serve, CartInv
  <2>2. PICK s \in {"ok", "error"} : posts' = [posts EXCEPT ![l].state = s]
    BY <1>2, <2>1 DEF CartPatient!Serve
  <2>3. DOMAIN posts' = DOMAIN posts /\ posts'[l] = [posts[l] EXCEPT !.state = s]
    BY <2>2
  <2>4. posts'[l].state # "lost"
    BY <2>1, <2>3 DEF CartRace!Posts
  <2> QED
    BY <2>1, <2>3, <2>4
<1>3. ASSUME NEW l \in CartPatient!Busy, CartPatient!Done(l)
      PROVE  SettledInv'
  <2>1. DOMAIN posts' = {} /\ reasons' \subseteq {"failed", "late"}
    BY <1>3 DEF CartPatient!Done
  <2> QED
    BY <2>1
<1>8. ASSUME NEW w \in CartPatient!BasketCalls, CartPatient!Land(w)
      PROVE  SettledInv'
  <2>1. UNCHANGED <<posts, reload>> /\ reasons' \subseteq {"failed", "late"}
    BY <1>8 DEF CartPatient!Land, CartPatient!Missed
  <2> QED
    BY <2>1
<1>4. CASE CartPatient!Open
  BY <1>4 DEF CartPatient!Open
<1>5. CASE CartPatient!Read
  BY <1>5 DEF CartPatient!Read
<1>6. CASE CartPatient!Replace
  <2>1. DOMAIN posts = {}
    BY <1>6 DEF CartPatient!Replace
  <2>2. DOMAIN posts' = {} /\ reasons' \subseteq {"failed", "late"}
    BY <1>6, <2>1 DEF CartPatient!Replace
  <2> QED
    BY <2>2
<1>7. CASE UNCHANGED cartVars
  BY <1>7 DEF cartVars
<1> QED
  BY <1>1, <1>2, <1>3, <1>4, <1>5, <1>6, <1>7, <1>8
     DEF CartPatient!Next, CartPatient!Elsewhere

\* For a shopper with one tab who waits until the page has settled a failed post
\* and an attempt applied after the page was read remain (buttons-operations.js
\* performOperation, basketremote.go).
THEOREM CartShownUnlessFailedOrLate == CartPatient!Spec => []ShownUnlessFailedOrLate
<1>1. CartPatient!Init => CartInv /\ SettledInv
  BY DEF CartPatient!Init, CartInv, SettledInv
<1>2. CartInv /\ SettledInv => ShownUnlessFailedOrLate
  BY DEF CartInv, SettledInv, ShownUnlessFailedOrLate, CartPatient!ShownUnlessFailedOrLate,
         CartPatient!Settled, CartPatient!Busy
<1>3. CartInv /\ [CartPatient!Next]_CartPatient!vars => CartInv'
  BY CartStep, PatientIsRace DEF CartPatient!vars, cartVars
<1>4. CartInv /\ SettledInv /\ [CartPatient!Next]_CartPatient!vars => SettledInv'
  BY SettledStep DEF CartPatient!vars, cartVars
<1> QED
  BY <1>1, <1>2, <1>3, <1>4, PTL DEF CartPatient!Spec

-----------------------------------------------------------------------------
(* CartPage: the kinds of its values, for both shoppers. *)

\* What a post does to the basket, and a click to the page, leaves quantities.
LEMMA QuantitiesStay ==
    ASSUME NEW q \in [Items -> Nat], NEW x \in Items, NEW k \in Nat
    PROVE  /\ [q EXCEPT ![x] = @ + k] \in [Items -> Nat]
           /\ [q EXCEPT ![x] = IF @ > k THEN @ - k ELSE 0] \in [Items -> Nat]
OBVIOUS

\* Every step of the cart page keeps the kinds of the values; CartInv has those of
\* the posts.
LEMMA CartTypeStep ==
    /\ CartRace!TypeOK
    /\ CartInv
    /\ [CartRace!Next]_cartVars
    => CartRace!TypeOK'
<1> SUFFICES ASSUME CartRace!TypeOK, CartInv, [CartRace!Next]_cartVars
             PROVE  CartRace!TypeOK'
  OBVIOUS
<1> USE DEF CartRace!Busy
<1>0. \A l \in DOMAIN posts' : posts'[l] \in CartRace!Posts
  BY CartStep DEF CartInv
<1>1. ASSUME NEW x \in Items, NEW op \in CartRace!Ops, CartRace!Click(x, op)
      PROVE  CartRace!TypeOK'
  <2>1. CartRace!Displayed(shown[x], op) \in Nat
    BY DEF CartRace!Displayed, CartRace!TypeOK
  <2>2. shown' \in [Items -> Nat]
    BY <1>1, <2>1 DEF CartRace!Click, CartRace!TypeOK
  <2>3. DOMAIN posts' \subseteq Lines
    BY <1>1 DEF CartRace!Click, CartRace!TypeOK
  <2>4. clicks' \in 0 .. MaxClicks
    BY <1>1, PartsAssumption DEF CartRace!Click, CartRace!TypeOK
  <2> QED
    BY <1>0, <1>1, <2>2, <2>3, <2>4 DEF CartRace!Click, CartRace!TypeOK
<1>9. \A w \in CartRace!BasketCalls, k \in Nat : CartRace!Applied(w, k) \in [Items -> Nat]
  BY QuantitiesStay DEF CartRace!Applied, CartRace!BasketCalls, CartRace!TypeOK
<1>2. ASSUME NEW l \in DOMAIN posts, CartRace!Serve(l)
      PROVE  CartRace!TypeOK'
  <2> DEFINE w == posts[l].call
  <2>1. w \in CartRace!BasketCalls /\ late[w] \in 0 .. MaxLate
    BY DEF CartInv, CartRace!Posts, CartRace!TypeOK
  <2>2. PICK k, j \in 0 .. MaxAttempts :
           /\ cart' = CartRace!Applied(w, k)
           /\ late[w] + j <= MaxLate
           /\ late' = [late EXCEPT ![w] = @ + j]
    BY <1>2 DEF CartRace!Serve
  <2>3. k \in Nat /\ j \in Nat /\ MaxLate \in Nat
    BY PartsAssumption
  <2>4. cart' \in [Items -> Nat]
    BY <1>9, <2>1, <2>2, <2>3
  <2>5. late[w] + j \in 0 .. MaxLate
    BY <2>1, <2>2, <2>3
  <2>6. late' \in [CartRace!BasketCalls -> 0 .. MaxLate]
    BY <2>1, <2>2, <2>5 DEF CartRace!TypeOK
  <2>7. DOMAIN posts' \subseteq DOMAIN posts
    BY <1>2 DEF CartRace!Serve
  <2>8. reasons' \subseteq CartRace!Reasons
    BY CartStep DEF CartInv
  <2> QED
    BY <1>0, <1>2, <2>4, <2>6, <2>7, <2>8 DEF CartRace!Serve, CartRace!TypeOK
<1>7. ASSUME NEW w \in CartRace!BasketCalls, CartRace!Land(w) \/ CartRace!Elsewhere(w)
      PROVE  CartRace!TypeOK'
  <2>1. cart' \in [Items -> Nat] /\ reasons' \subseteq CartRace!Reasons
    BY <1>7, <1>9, CartStep DEF CartRace!Land, CartRace!Elsewhere, CartInv
  <2>2. late' \in [CartRace!BasketCalls -> 0 .. MaxLate]
    <3>1. late[w] \in 0 .. MaxLate /\ MaxLate \in Nat
      BY PartsAssumption DEF CartRace!TypeOK
    <3>2. late[w] > 0 => late[w] - 1 \in 0 .. MaxLate
      BY <3>1
    <3> QED
      BY <1>7, <3>2 DEF CartRace!Land, CartRace!Elsewhere, CartRace!TypeOK
  <2>3. clicks' \in 0 .. MaxClicks
    BY <1>7, PartsAssumption DEF CartRace!Land, CartRace!Elsewhere, CartRace!TypeOK
  <2> QED
    BY <1>0, <1>7, <2>1, <2>2, <2>3
       DEF CartRace!Land, CartRace!Elsewhere, CartRace!TypeOK
<1>3. ASSUME NEW l \in DOMAIN posts, CartRace!Done(l)
      PROVE  CartRace!TypeOK'
  BY <1>0, <1>3, CartStep DEF CartRace!Done, CartRace!TypeOK, CartInv
<1>4. CASE CartRace!Open \/ CartRace!Read
  BY <1>0, <1>4, CartStep DEF CartRace!Open, CartRace!Read, CartRace!TypeOK, CartInv
<1>5. CASE CartRace!Replace
  <2>1. DOMAIN posts' \subseteq DOMAIN posts
    BY <1>5 DEF CartRace!Replace
  <2>2. shown' \in [Items -> Nat]
    BY <1>5 DEF CartRace!Replace, CartRace!TypeOK
  <2> QED
    BY <1>0, <1>5, <2>1, <2>2, CartStep DEF CartRace!Replace, CartRace!TypeOK, CartInv
<1>6. CASE UNCHANGED cartVars
  BY <1>6 DEF cartVars, CartRace!TypeOK
<1> QED
  BY <1>1, <1>2, <1>3, <1>4, <1>5, <1>6, <1>7 DEF CartRace!Next

-----------------------------------------------------------------------------
(* ThemeControl. *)

\* Each of the three readings of a load took up the stored choice, as long as
\* nothing has changed behind the tab's back.
UpToDate(t) ==
    /\ tab[t].phase # "closed" => tab[t].attr = Theme!Look(theme)
    /\ tab[t].phase \in {"body", "ready"} => tab[t].icon = theme
    /\ tab[t].phase = "ready" => tab[t].mark = theme

ThemeInv ==
    /\ Theme!TypeOK
    /\ \A t \in Tabs : tab[t].phase = "closed" \/ outdated[t] \/ UpToDate(t)

\* A step of tab t that changes nothing of the other tabs keeps what they have
\* taken up, unless it passes them by.
LEMMA ThemeOfTab ==
    ASSUME ThemeInv, Theme!TypeOK', NEW t \in Tabs,
           \A u \in Tabs \ {t} : tab'[u] = tab[u],
           system' = system,
           (theme' = theme /\ outdated' = outdated) \/ Theme!Passes(t),
           outdated'[t] \/ UpToDate(t)'
    PROVE  ThemeInv'
<1>1. ASSUME NEW u \in Tabs \ {t}
      PROVE  tab'[u].phase = "closed" \/ outdated'[u] \/ UpToDate(u)'
  <2>1. outdated'[u] \/ (theme' = theme /\ outdated'[u] = outdated[u])
    BY <1>1 DEF Theme!Passes, Theme!TypeOK, ThemeInv
  <2> QED
    BY <1>1, <2>1 DEF ThemeInv, UpToDate, Theme!Look
<1> QED
  BY <1>1 DEF ThemeInv

\* Every load, choice and change behind the page keeps it.
LEMMA ThemeStep == ThemeInv /\ [Theme!Next]_themeVars => ThemeInv'
<1> SUFFICES ASSUME ThemeInv, [Theme!Next]_themeVars
             PROVE  ThemeInv'
  OBVIOUS
<1>1. ASSUME NEW t \in Tabs, Theme!ConfigJs(t)
      PROVE  ThemeInv'
  <2>1. theme' \in Theme!Themes /\ Theme!Look(theme') \in Theme!Looks /\ system' = system
    BY <1>1 DEF Theme!ConfigJs, ThemeInv, Theme!TypeOK, Theme!Look, Theme!Looks, Theme!Themes
  <2>2. /\ tab'[t] = [phase |-> "head", attr |-> Theme!Look(theme'),
                      icon |-> Nothing, mark |-> Nothing]
        /\ \A u \in Tabs \ {t} : tab'[u] = tab[u]
    BY <1>1 DEF Theme!ConfigJs, ThemeInv, Theme!TypeOK
  <2>3. Theme!TypeOK'
    <3>1. tab' \in [Tabs -> Theme!Tab]
      BY <1>1, <2>1 DEF Theme!ConfigJs, ThemeInv, Theme!TypeOK, Theme!Tab
    <3> QED
      BY <1>1, <2>1, <3>1 DEF Theme!ConfigJs, Theme!Passes, ThemeInv, Theme!TypeOK
  <2>4. UpToDate(t)'
    BY <2>1, <2>2 DEF UpToDate, Theme!Look
  <2> QED
    BY <1>1, <2>1, <2>2, <2>3, <2>4, ThemeOfTab DEF Theme!ConfigJs
<1>2. ASSUME NEW t \in Tabs, Theme!ThemeJs(t) \/ Theme!DocReady(t)
      PROVE  ThemeInv'
  <2>1. UNCHANGED <<theme, system, outdated>> /\ theme \in Theme!Themes \cup {Nothing}
        /\ tab \in [Tabs -> Theme!Tab]
    BY <1>2 DEF Theme!ThemeJs, Theme!DocReady, ThemeInv, Theme!TypeOK
  <2>2. \/ /\ tab[t].phase = "head"
           /\ tab' = [tab EXCEPT ![t].phase = "body", ![t].icon = theme]
        \/ /\ tab[t].phase = "body"
           /\ tab' = [tab EXCEPT ![t].phase = "ready", ![t].mark = theme]
    BY <1>2 DEF Theme!ThemeJs, Theme!DocReady
  <2>3. tab' \in [Tabs -> Theme!Tab] /\ \A u \in Tabs \ {t} : tab'[u] = tab[u]
    BY <2>1, <2>2 DEF Theme!Tab
  <2>4. outdated[t] \/ UpToDate(t)'
    BY <2>1, <2>2 DEF ThemeInv, UpToDate, Theme!Tab, Theme!Look
  <2> QED
    BY <2>1, <2>3, <2>4, ThemeOfTab DEF ThemeInv, Theme!TypeOK
<1>3. ASSUME NEW t \in Tabs, NEW v \in Theme!Themes, Theme!Click(t, v)
      PROVE  ThemeInv'
  <2>1. theme' = v /\ Theme!Look(v) \in Theme!Looks /\ system' = system
        /\ tab \in [Tabs -> Theme!Tab]
    BY <1>3 DEF Theme!Click, ThemeInv, Theme!TypeOK, Theme!Look, Theme!Looks
  <2>2. tab' = [tab EXCEPT ![t].attr = Theme!Look(v), ![t].icon = v, ![t].mark = v]
    BY <1>3 DEF Theme!Click
  <2>3. tab' \in [Tabs -> Theme!Tab] /\ \A u \in Tabs \ {t} : tab'[u] = tab[u]
    BY <2>1, <2>2 DEF Theme!Tab
  <2>4. Theme!TypeOK'
    BY <1>3, <2>1, <2>3 DEF Theme!Click, Theme!Passes, ThemeInv, Theme!TypeOK
  <2>5. UpToDate(t)'
    BY <2>1, <2>2 DEF UpToDate, Theme!Look, Theme!Tab
  <2> QED
    BY <1>3, <2>1, <2>3, <2>4, <2>5, ThemeOfTab DEF Theme!Click
<1>4. CASE Theme!SystemChanges \/ Theme!Clear
  <2>1. UNCHANGED tab /\ \A t \in Tabs : outdated'[t]
    BY <1>4, PartsAssumption DEF Theme!SystemChanges, Theme!Clear, Theme!Passes
  <2>2. Theme!TypeOK'
    BY <1>4, <2>1 DEF Theme!SystemChanges, Theme!Clear, Theme!Passes, ThemeInv, Theme!TypeOK
  <2> QED
    BY <2>1, <2>2 DEF ThemeInv
<1>5. CASE UNCHANGED themeVars
  BY <1>5 DEF themeVars, ThemeInv, Theme!TypeOK, UpToDate, Theme!Look
<1> QED
  BY <1>1, <1>2, <1>3, <1>4, <1>5 DEF Theme!Next

\* ... so it holds of every behaviour of the tabs.
LEMMA ThemeInvariant == Theme!Spec => []ThemeInv
<1>1. Theme!Init => ThemeInv
  BY DEF Theme!Init, ThemeInv, Theme!TypeOK, Theme!Tab, Theme!Looks
<1>2. ThemeInv /\ [Theme!Next]_Theme!vars => ThemeInv'
  BY ThemeStep DEF Theme!vars, themeVars
<1> QED
  BY <1>1, <1>2, PTL DEF Theme!Spec

\* A page shows the stored theme in attribute, icon and menu unless storage or
\* system changed behind its back (config.js; theme.js themeControl).
THEOREM ThemeShowsTheChoice == Theme!Spec => []ShowsTheChoice
<1>1. ThemeInv => ShowsTheChoice
  BY DEF ThemeInv, UpToDate, ShowsTheChoice, Theme!ShowsTheChoice, Theme!Agrees,
         Theme!Look, Theme!Looks
<1> QED
  BY <1>1, ThemeInvariant, PTL

\* What changes a ready page is a choice made on it, which all three places show.
LEMMA ThemeMends ==
    ThemeInv /\ [Theme!Next]_Theme!vars =>
      [\A t \in Tabs :
          tab[t].phase = "ready" /\ tab'[t].phase = "ready" /\ tab'[t] # tab[t]
             => Theme!Agrees(t)']_Theme!vars
<1> SUFFICES ASSUME ThemeInv, Theme!Next, NEW t \in Tabs,
                    tab[t].phase = "ready", tab'[t].phase = "ready", tab'[t] # tab[t]
             PROVE  Theme!Agrees(t)'
  OBVIOUS
<1>1. tab \in [Tabs -> Theme!Tab]
  BY DEF ThemeInv, Theme!TypeOK
<1>2. ASSUME NEW u \in Tabs, Theme!ConfigJs(u) \/ Theme!ThemeJs(u) \/ Theme!DocReady(u)
      PROVE  FALSE
  <2>1. CASE u = t
    BY <1>1, <1>2, <2>1 DEF Theme!ConfigJs, Theme!ThemeJs, Theme!DocReady, Theme!Tab
  <2>2. CASE u # t
    BY <1>1, <1>2, <2>2 DEF Theme!ConfigJs, Theme!ThemeJs, Theme!DocReady
  <2> QED
    BY <2>1, <2>2
<1>3. ASSUME NEW u \in Tabs, NEW v \in Theme!Themes, Theme!Click(u, v)
      PROVE  u = t
  BY <1>1, <1>3 DEF Theme!Click
<1>4. ~(Theme!SystemChanges \/ Theme!Clear)
  BY DEF Theme!SystemChanges, Theme!Clear
<1>5. PICK v \in Theme!Themes : Theme!Click(t, v)
  BY <1>2, <1>3, <1>4 DEF Theme!Next
<1>6. tab'[t].attr = Theme!Look(v) /\ tab'[t].icon = v /\ tab'[t].mark = v
  BY <1>1, <1>5 DEF Theme!Click, Theme!Tab
<1> QED
  BY <1>6 DEF Theme!Agrees, Theme!Look, Theme!Looks

\* A page torn by a change during its load agrees with itself again after the
\* next choice made on it (theme.js themeControl, changeTheme).
THEOREM ThemeChoiceMends == Theme!Spec => ChoiceMends
BY ThemeMends, ThemeInvariant, PTL DEF Theme!Spec, ChoiceMends, Theme!ChoiceMends

-----------------------------------------------------------------------------
(* OrdersList. *)

\* What \div is, for a positive divisor.
LEMMA Quotient ==
    ASSUME NEW n \in Nat, NEW d \in Nat \ {0}
    PROVE  /\ n \div d \in Nat /\ n % d \in 0 .. d - 1
           /\ n = d * (n \div d) + (n % d)
OBVIOUS

\* Products grow with their factors.
LEMMA TimesGrows ==
    ASSUME NEW x \in Int, NEW y \in Int, NEW d \in Nat, x <= y
    PROVE  d * x <= d * y
<1>1. PICK k \in Nat : y = x + k
  <2>1. y - x \in Nat /\ y = x + (y - x)
    OBVIOUS
  <2> QED
    BY <2>1
<1>2. d * y = d * x + d * k /\ d * k \in Nat
  BY <1>1
<1> QED
  BY <1>2

\* Quotient and remainder are unique.
LEMMA QuotientIs ==
    ASSUME NEW k \in Nat, NEW d \in Nat \ {0}, NEW r \in 0 .. d - 1
    PROVE  (d * k + r) \div d = k /\ (d * k + r) % d = r
<1> DEFINE n == d * k + r
           q == n \div d
<1>1. n \in Nat
  BY SMT
<1>2. q \in Nat /\ n % d \in 0 .. d - 1 /\ n = d * q + (n % d)
  BY <1>1, Quotient
<1>3. ~(q >= k + 1)
  BY <1>2, TimesGrows, d * (k + 1) = d * k + d
<1>4. ~(k >= q + 1)
  BY <1>2, TimesGrows, d * (q + 1) = d * q + d
<1> QED
  BY <1>2, <1>3, <1>4

\* A page number is one of the list's exactly if the page has a first row.
LEMMA HasFirstRow ==
    ASSUME orderCount \in Nat, NEW p \in Nat \ {0}
    PROVE  /\ Orders!pageQuantity \in Nat
           /\ p <= Orders!pageQuantity <=> (p - 1) * PerPage + 1 <= orderCount
<1> DEFINE n == orderCount + PerPage - 1
           q == n \div PerPage
<1>1. PerPage \in Nat \ {0} /\ n \in Nat
  BY PartsAssumption
<1>2. q \in Nat /\ n % PerPage \in 0 .. PerPage - 1 /\ n = PerPage * q + (n % PerPage)
  BY <1>1, Quotient
<1>3. (p - 1) * PerPage = PerPage * p - PerPage /\ PerPage * p \in Nat
  BY <1>1
<1>4. p <= q => PerPage * p <= PerPage * q
  BY <1>1, <1>2, TimesGrows
<1>5. p >= q + 1 => PerPage * p >= PerPage * q + PerPage
  BY <1>1, <1>2, TimesGrows, PerPage * (q + 1) = PerPage * q + PerPage
<1>6. Orders!pageQuantity = q
  BY DEF Orders!pageQuantity
<1>7. (p - 1) * PerPage + 1 <= orderCount <=> PerPage * p <= n
  BY <1>1, <1>3
<1> HIDE DEF n, q
<1>8. p <= q <=> PerPage * p <= n
  BY <1>1, <1>2, <1>3, <1>4, <1>5
<1> QED
  BY <1>2, <1>6, <1>7, <1>8

\* The table shows page q, and the counter is q unless it is lost.
OnPage(q) ==
    /\ q <= Orders!pageQuantity
    /\ firstRow = (q - 1) * PerPage + 1
    /\ pageCount # Orders!NaN => pageCount = q

OrdersInv ==
    /\ orderCount \in Nat \ {0}
    /\ pageCount \in Nat
    /\ \E q \in Nat \ {0} : OnPage(q)
    /\ prevOff = (pageCount = 1)
    /\ nextOff = (pageCount = Orders!pageQuantity)

\* Every click on the pager keeps it.
LEMMA OrdersStep == OrdersInv /\ [Orders!Next]_ordersVars => OrdersInv'
<1> SUFFICES ASSUME OrdersInv, [Orders!Next]_ordersVars
             PROVE  OrdersInv'
  OBVIOUS
<1> USE DEF Orders!NaN
<1> DEFINE pq == Orders!pageQuantity
<1>1. PICK q \in Nat \ {0} : OnPage(q)
  BY DEF OrdersInv
<1>2. /\ orderCount \in Nat \ {0} /\ pageCount \in Nat /\ PerPage \in Nat \ {0}
      /\ pq \in Nat /\ q <= pq /\ firstRow = (q - 1) * PerPage + 1
      /\ pageCount # 0 => pageCount = q
      /\ prevOff = (pageCount = 1) /\ nextOff = (pageCount = pq)
  BY <1>1, HasFirstRow, PartsAssumption DEF OrdersInv, OnPage
<1>3. \A p \in Nat \ {0} : p <= pq <=> (p - 1) * PerPage + 1 <= orderCount
  BY <1>2, HasFirstRow
<1>4. orderCount' = orderCount => pq' = pq
  BY DEF Orders!pageQuantity
<1> HIDE DEF pq
<1>5. CASE Orders!NextClick
  <2>1. /\ orderCount' = orderCount /\ pageCount # pq
        /\ pageCount' = IF pageCount = 0 THEN 0 ELSE pageCount + 1
        /\ prevOff' = (pageCount' = 1) /\ nextOff' = (pageCount' = pq)
        /\ firstRow' = IF firstRow + PerPage <= orderCount THEN firstRow + PerPage
                                                           ELSE firstRow
    BY <1>2, <1>5 DEF Orders!NextClick, Orders!Controls, pq
  <2>2. firstRow + PerPage = ((q + 1) - 1) * PerPage + 1
    BY <1>2
  <2>3. q + 1 <= pq <=> firstRow + PerPage <= orderCount
    BY <1>2, <1>3, <2>2
  <2>4. CASE q + 1 <= pq
    <3>1. OnPage(q + 1)'
      BY <1>2, <1>4, <2>1, <2>2, <2>3, <2>4 DEF OnPage, pq
    <3> QED
      BY <1>2, <1>4, <2>1, <3>1 DEF OrdersInv, pq
  <2>5. CASE q = pq
    <3>1. pageCount = 0 /\ pageCount' = 0 /\ firstRow' = firstRow
      BY <1>2, <2>1, <2>3, <2>5
    <3>2. OnPage(q)'
      BY <1>2, <1>4, <2>1, <3>1 DEF OnPage, pq
    <3> QED
      BY <1>2, <1>4, <2>1, <3>1, <3>2 DEF OrdersInv, pq
  <2> QED
    BY <1>2, <2>4, <2>5
<1>6. CASE Orders!PrevClick
  <2>1. /\ orderCount' = orderCount /\ pageCount # 1
        /\ pageCount' = IF pageCount = 0 THEN 0 ELSE pageCount - 1
        /\ prevOff' = (pageCount' = 1) /\ nextOff' = (pageCount' = pq)
        /\ firstRow' = IF firstRow > PerPage THEN firstRow - PerPage ELSE firstRow
    BY <1>2, <1>6 DEF Orders!PrevClick, Orders!Controls, pq
  <2>2. CASE q > 1
    <3>1. /\ firstRow - PerPage = ((q - 1) - 1) * PerPage + 1
          /\ firstRow = (q - 2) * PerPage + PerPage + 1
          /\ (q - 2) * PerPage \in Nat
      BY <1>2, <2>2
    <3>2. OnPage(q - 1)'
      BY <1>2, <1>4, <2>1, <2>2, <3>1 DEF OnPage, pq
    <3> QED
      BY <1>2, <1>4, <2>1, <2>2, <3>2 DEF OrdersInv, pq
  <2>3. CASE q = 1
    <3>1. firstRow = 1 /\ pageCount = 0 /\ pageCount' = 0
      BY <1>2, <2>1, <2>3
    <3>2. OnPage(q)'
      BY <1>2, <1>4, <2>1, <2>3, <3>1 DEF OnPage, pq
    <3> QED
      BY <1>2, <1>4, <2>1, <3>1, <3>2 DEF OrdersInv, pq
  <2> QED
    BY <1>2, <2>2, <2>3
<1>7. ASSUME NEW p \in 1 .. pq, Orders!PageClick(p)
      PROVE  OrdersInv'
  <2>1. /\ orderCount' = orderCount /\ pageCount' = p
        /\ prevOff' = (p = 1) /\ nextOff' = (p = pq)
        /\ firstRow' = (p - 1) * PerPage + 1
    BY <1>7 DEF Orders!PageClick, Orders!Controls, pq
  <2>2. p \in Nat \ {0} /\ OnPage(p)'
    BY <1>2, <1>4, <2>1 DEF OnPage, pq
  <2> QED
    BY <1>2, <1>4, <2>1, <2>2 DEF OrdersInv, pq
<1>8. CASE Orders!DotsClick
  <2>1. /\ orderCount' = orderCount /\ pageCount' = 0 /\ firstRow' = firstRow
        /\ prevOff' = (0 = 1) /\ nextOff' = (0 = pq)
    BY <1>8 DEF Orders!DotsClick, Orders!Controls, pq
  <2>2. OnPage(q)'
    BY <1>2, <1>4, <2>1 DEF OnPage, pq
  <2> QED
    BY <1>2, <1>4, <2>1, <2>2 DEF OrdersInv, pq
<1>9. CASE UNCHANGED ordersVars
  BY <1>9 DEF ordersVars, OrdersInv, OnPage, Orders!pageQuantity
<1> QED
  BY <1>5, <1>6, <1>7, <1>8, <1>9 DEF Orders!Next, pq

\* The pager begins on the first page.
LEMMA OrdersBegin ==
    ASSUME Orders!Init
    PROVE  OrdersInv
<1>1. /\ orderCount \in Nat \ {0} /\ firstRow = 1 /\ pageCount = 1
      /\ prevOff = (pageCount = 1) /\ nextOff = (pageCount = Orders!pageQuantity)
  <2>1. /\ orderCount \in 1 .. MaxOrders /\ firstRow = 1 /\ pageCount = 1
        /\ prevOff = TRUE /\ nextOff = (Orders!pageQuantity = 1)
    BY DEF Orders!Init
  <2>2. (TRUE = (pageCount = 1)) /\ (Orders!pageQuantity = 1 <=> pageCount = Orders!pageQuantity)
    BY <2>1
  <2>3. orderCount \in Nat \ {0}
    BY <2>1, PartsAssumption
  <2>4. nextOff = (pageCount = Orders!pageQuantity)
    BY <2>1, <2>2
  <2>5. prevOff = (pageCount = 1)
    BY <2>1, <2>2
  <2> QED
    BY <2>1, <2>3, <2>4, <2>5
<1>2. 1 <= Orders!pageQuantity /\ (1 - 1) * PerPage = 0
  BY <1>1, HasFirstRow, PartsAssumption
<1>3. OnPage(1)
  BY <1>1, <1>2 DEF OnPage
<1> QED
  BY <1>1, <1>3 DEF OrdersInv

\* ... so it holds of every list and every sequence of clicks.
LEMMA OrdersInvariant == Orders!Spec => []OrdersInv
<1>1. OrdersInv /\ [Orders!Next]_Orders!vars => OrdersInv'
  BY OrdersStep DEF Orders!vars, ordersVars
<1> QED
  BY OrdersBegin, <1>1, PTL DEF Orders!Spec

\* What the three guarantees need of the page that is shown.
LEMMA OfPage ==
    ASSUME OrdersInv, NEW q \in Nat \ {0}, OnPage(q)
    PROVE  /\ firstRow \in Nat /\ firstRow <= orderCount
           /\ firstRow % PerPage = 1 % PerPage
           /\ Orders!CurrentPage = q
           /\ firstRow = 1 <=> q = 1
           /\ firstRow + PerPage <= orderCount <=> q # Orders!pageQuantity
           /\ Orders!pageQuantity \in Nat \ {0}
<1> DEFINE pq == Orders!pageQuantity
<1>1. /\ orderCount \in Nat /\ PerPage \in Nat \ {0} /\ q - 1 \in Nat
      /\ pq \in Nat /\ q <= pq
      /\ firstRow = (q - 1) * PerPage + 1 /\ (q - 1) * PerPage \in Nat
  BY HasFirstRow, PartsAssumption DEF OrdersInv, OnPage
<1>2. (q - 1) * PerPage = PerPage * (q - 1)
  BY <1>1
<1>3. firstRow <= orderCount
  BY <1>1, HasFirstRow
<1>4. q + 1 <= pq <=> ((q + 1) - 1) * PerPage + 1 <= orderCount
  BY <1>1, HasFirstRow, q + 1 \in Nat \ {0}
<1>5. ((q + 1) - 1) * PerPage + 1 = firstRow + PerPage
  BY <1>1
<1>6. firstRow = 1 <=> q = 1
  BY <1>1
<1>7. firstRow % PerPage = 1 % PerPage
  <2>1. CASE PerPage = 1
    BY <1>1, <2>1
  <2>2. CASE PerPage # 1
    <3>1. 1 \in 0 .. PerPage - 1
      BY <1>1, <2>2
    <3>2. \A k \in Nat : (PerPage * k + 1) % PerPage = 1
      BY <1>1, <3>1, QuotientIs
    <3>3. (PerPage * (q - 1) + 1) % PerPage = 1 /\ (PerPage * 0 + 1) % PerPage = 1
      BY <1>1, <3>2
    <3>4. PerPage * 0 + 1 = 1
      BY <1>1
    <3> QED
      BY <1>1, <1>2, <3>3, <3>4
  <2> QED
    BY <2>1, <2>2
<1>8. Orders!CurrentPage = q
  <2>1. (PerPage * q + 0) \div PerPage = q
    BY <1>1, QuotientIs
  <2>2. firstRow + PerPage - 1 = PerPage * q + 0
    BY <1>1
  <2> QED
    BY <2>1, <2>2 DEF Orders!CurrentPage
<1> QED
  BY <1>1, <1>3, <1>4, <1>5, <1>6, <1>7, <1>8

\* Whatever is clicked on the pager in whatever order, "..." included, the
\* orders table shows a page of the list from its first row on (theme.js
\* listInit).
THEOREM OrdersShowAPage == Orders!Spec => []ShowsAPage
<1>1. OrdersInv => ShowsAPage
  BY OfPage DEF OrdersInv, ShowsAPage, Orders!ShowsAPage
<1> QED
  BY <1>1, OrdersInvariant, PTL

\* The buttons are off only at the ends of the list.
LEMMA ReachesAll ==
    ASSUME OrdersInv
    PROVE  NoPageCutOff
<1>1. PICK q \in Nat \ {0} : OnPage(q)
  BY DEF OrdersInv
<1>2. /\ firstRow = 1 <=> q = 1
      /\ firstRow + PerPage <= orderCount <=> q # Orders!pageQuantity
      /\ Orders!pageQuantity \in Nat \ {0} /\ firstRow \in Nat
  BY <1>1, OfPage
<1>3. pageCount # 0 => pageCount = q
  BY <1>1 DEF OnPage, Orders!NaN
<1>4. /\ firstRow + PerPage <= orderCount => pageCount # Orders!pageQuantity
      /\ firstRow > 1 => pageCount # 1
  BY <1>2, <1>3
<1> QED
  BY <1>4 DEF OrdersInv, NoPageCutOff, Orders!NoPageCutOff

\* No page of orders is out of reach, also when the theme's counter is lost
\* (theme.js updateListControls).
THEOREM OrdersNoPageCutOff == Orders!Spec => []NoPageCutOff
BY ReachesAll, OrdersInvariant, PTL

\* A counter that is a number is the page shown.
LEMMA CountsRight ==
    ASSUME OrdersInv
    PROVE  CounterIsPage
<1>1. PICK q \in Nat \ {0} : OnPage(q)
  BY DEF OrdersInv
<1>2. /\ firstRow = 1 <=> q = 1
      /\ firstRow + PerPage <= orderCount <=> q # Orders!pageQuantity
      /\ Orders!CurrentPage = q
      /\ firstRow + PerPage > orderCount <=> ~(firstRow + PerPage <= orderCount)
  BY <1>1, OfPage, PartsAssumption DEF OrdersInv
<1>3. pageCount # Orders!NaN => pageCount = q
  BY <1>1 DEF OnPage
<1> QED
  BY <1>2, <1>3 DEF OrdersInv, CounterIsPage, Orders!CounterIsPage

\* While the theme's counter is a number it is the page that the list library
\* shows (theme.js listInit).
THEOREM OrdersCounterIsPage == Orders!Spec => []CounterIsPage
BY CountsRight, OrdersInvariant, PTL

\* The pager keeps the number of orders, and its values are numbers.
LEMMA OrdersTypeStep ==
    /\ OrdersInv
    /\ Orders!TypeOK
    /\ [Orders!Next]_ordersVars
    => Orders!TypeOK'
<1> SUFFICES ASSUME OrdersInv, Orders!TypeOK, [Orders!Next]_ordersVars
             PROVE  Orders!TypeOK'
  OBVIOUS
<1>1. OrdersInv'
  BY OrdersStep
<1>2. orderCount' = orderCount
  BY DEF Orders!Next, Orders!NextClick, Orders!PrevClick, Orders!PageClick,
         Orders!DotsClick, ordersVars
<1>3. firstRow' \in Nat
  <2>1. PICK q \in Nat \ {0} : OnPage(q)'
    BY <1>1 DEF OrdersInv
  <2>2. firstRow' = (q - 1) * PerPage + 1 /\ q - 1 \in Nat /\ PerPage \in Nat
    BY <2>1, PartsAssumption DEF OnPage
  <2> QED
    BY <2>2
<1>4. prevOff' \in BOOLEAN /\ nextOff' \in BOOLEAN
  BY <1>1 DEF OrdersInv
<1> QED
  BY <1>1, <1>2, <1>3, <1>4 DEF Orders!TypeOK, OrdersInv
=============================================================================
