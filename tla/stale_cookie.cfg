\* A search of another tab is in flight while a payment is confirmed.
CONSTANTS
    Tabs = {t1, t2}
    Baskets = {b1, b2}
    Txs = {x1, x2}
    Stores = {s1}
    Addresses = {a1}
    None = None
    Activities = {"checkout", "processPayment", "confirm", "search"}
    MaxQty = 1
    MaxRetries = 1
    MaxOrders = 1
    MaxLate = 0
    Revisits = FALSE
    EmptyBodies = FALSE
    EmptyMessages = FALSE
SYMMETRY Symmetry
SPECIFICATION Spec
PROPERTIES
    PaidBasketNotShownAgain
\* The shopper may stop: the bounded supply of ids runs out.
CHECK_DEADLOCK FALSE
