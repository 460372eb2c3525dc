\* Two tabs check out, pay and confirm at the same time; old confirm URLs are
\* opened again.  Every confirm in flight reserves the basket it may open: with
\* three of them two confirms overlap, and one follows another that succeeded.
CONSTANTS
    Tabs = {t1, t2}
    Baskets = {b1, b2, b3}
    Txs = {x1, x2, x3, x4}
    Stores = {s1, s2}
    Addresses = {a1}
    None = None
    Activities = {"checkout", "processPayment", "confirm"}
    MaxQty = 1
    MaxRetries = 1
    MaxOrders = 4
    MaxLate = 0
    Revisits = TRUE
    EmptyBodies = FALSE
    EmptyMessages = FALSE
SYMMETRY Symmetry
SPECIFICATION Spec
INVARIANTS
    TypeOK
    IInv
    OrdersOnlyForConfirmedPayments
    OneOrderPerStorePerConfirm
    PaymentIDIsOfCurrentAttempt
PROPERTIES
    CheckoutOnlyAfterOrders
    ImplementsSaga
\* The shopper may stop: the bounded supply of ids runs out.
CHECK_DEADLOCK FALSE
