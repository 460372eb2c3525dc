---------------------------- MODULE PaymentSaga ----------------------------
(***************************************************************************)
(* What confirming a payment promises, with nothing said about requests,   *)
(* cookies, retries or carts.  A run of the saga fixes, when it begins,    *)
(* the confirmed payment it rests on, the basket and the lines to order.   *)
(* It orders each line at most once, with the quantity fixed at the start, *)
(* and closes the basket only when no line is left; it may give up at any  *)
(* point, and then what it has done stays done (there is no compensation)  *)
(* and the call it gave up on may still take effect, once.                 *)
(***************************************************************************)
EXTENDS Naturals, Sequences

CONSTANTS Runs, Baskets, Txs, Stores, Addresses, MaxQty, Copies, NoRun

VARIABLES
    confirmed,  \* the payments the gateway has confirmed
    orders,     \* the orders created
    closed,     \* the baskets checked out
    late,       \* (numbered) calls that runs gave up on, still under way
    run         \* the runs in progress

vars == <<confirmed, orders, closed, late, run>>

Init ==
    /\ confirmed = {}
    /\ orders = << >>
    /\ closed = {}
    /\ late = {}
    /\ run = [r \in Runs |-> NoRun]

\* The gateway confirms a payment, for good.
ConfirmTx(x) ==
    /\ confirmed' = confirmed \cup {x}
    /\ UNCHANGED <<orders, closed, late, run>>

Begin(r) ==
    /\ run[r] = NoRun
    /\ \E x \in confirmed, b \in Baskets, c \in [Stores -> 0 .. MaxQty] :
          run' = [run EXCEPT ![r] =
                    [basket |-> b, tx |-> x, lines |-> c,
                     left |-> {s \in Stores : c[s] > 0}]]
    /\ UNCHANGED <<confirmed, orders, closed, late>>

\* The orders a run may still create.
OrdersLeft(r) ==
    {[basket |-> run[r].basket, store |-> s, qty |-> run[r].lines[s],
      paymentID |-> p, shippingAddressID |-> a, tx |-> run[r].tx] :
        s \in run[r].left, p \in Txs, a \in Addresses}

\* A line's order is created; the run goes on, or gives up not knowing that.
Place(r) ==
    /\ run[r] # NoRun
    /\ \E o \in OrdersLeft(r) :
          /\ orders' = Append(orders, o)
          /\ run' \in {[run EXCEPT ![r].left = @ \ {o.store}],
                       [run EXCEPT ![r] = NoRun]}
    /\ UNCHANGED <<confirmed, closed, late>>

Close(r) ==
    /\ run[r] # NoRun
    /\ run[r].left = {}
    /\ closed' = closed \cup {run[r].basket}
    /\ run' = [run EXCEPT ![r] = NoRun]
    /\ UNCHANGED <<confirmed, orders, late>>

\* The calls a run may leave behind under way.
UnderWay(r) ==
    IF run[r].left = {}
    THEN {[call |-> "checkoutBasket", basket |-> run[r].basket,
           tx |-> run[r].tx, lines |-> run[r].lines]}
    ELSE {[call |-> "createOrder", order |-> o] : o \in OrdersLeft(r)}

GiveUp(r) ==
    /\ run[r] # NoRun
    /\ run' = [run EXCEPT ![r] = NoRun]
    /\ \/ late' = late
       \/ \E w \in UnderWay(r), n \in Copies :
             <<n, w>> \notin late /\ late' = late \cup {<<n, w>>}
    /\ UNCHANGED <<confirmed, orders, closed>>

\* A call left behind takes effect.
Land(v) ==
    /\ late' = late \ {v}
    /\ \/ /\ v[2].call = "createOrder"
          /\ orders' = Append(orders, v[2].order)
          /\ UNCHANGED closed
       \/ /\ v[2].call = "checkoutBasket"
          /\ closed' = closed \cup {v[2].basket}
          /\ UNCHANGED orders
    /\ UNCHANGED <<confirmed, run>>

Next ==
    \/ \E x \in Txs : ConfirmTx(x)
    \/ \E r \in Runs : Begin(r) \/ Place(r) \/ Close(r) \/ GiveUp(r)
    \/ \E v \in late : Land(v)

Spec == Init /\ [][Next]_vars
=============================================================================
