\* Calls that time out and take effect later, while the shopper tries again;
\* services may answer with empty bodies.
CONSTANTS
    Tabs = {t1}
    Baskets = {b1, b2}
    Txs = {x1, x2}
    Stores = {s1, s2}
    Addresses = {a1}
    None = None
    Activities = {"checkout", "processPayment", "confirm", "addItem", "removeItem"}
    MaxQty = 1
    MaxRetries = 0
    MaxOrders = 4
    MaxLate = 2
    Revisits = TRUE
    EmptyBodies = TRUE
    EmptyMessages = FALSE
SYMMETRY Symmetry
SPECIFICATION Spec
INVARIANTS
    IInv
PROPERTIES
    CheckoutOnlyAfterOrders
    ImplementsSaga
\* An empty answer to CreateBasket leaves a cookie without a basket.
CHECK_DEADLOCK FALSE
