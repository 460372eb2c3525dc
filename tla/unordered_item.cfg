\* An item is added in another tab while a payment is confirmed.
CONSTANTS
    Tabs = {t1, t2}
    Baskets = {b1, b2}
    Txs = {x1, x2}
    Stores = {s1, s2}
    Addresses = {a1}
    None = None
    Activities = {"checkout", "processPayment", "confirm", "addItem"}
    MaxQty = 1
    MaxRetries = 0
    MaxOrders = 2
    MaxLate = 0
    Revisits = FALSE
    EmptyBodies = FALSE
    EmptyMessages = FALSE
SYMMETRY Symmetry
SPECIFICATION Spec
INVARIANTS
    CheckedOutStoresHaveOrders
\* The shopper may stop: the bounded supply of ids runs out.
CHECK_DEADLOCK FALSE
