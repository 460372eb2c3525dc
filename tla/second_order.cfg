\* A confirm that failed after creating an order is tried again.
CONSTANTS
    Tabs = {t1}
    Baskets = {b1, b2}
    Txs = {x1, x2}
    Stores = {s1}
    Addresses = {a1}
    None = None
    Activities = {"checkout", "processPayment", "confirm"}
    MaxQty = 1
    MaxRetries = 1
    MaxOrders = 2
    MaxLate = 0
    Revisits = TRUE
    EmptyBodies = FALSE
    EmptyMessages = FALSE
SYMMETRY Symmetry
SPECIFICATION Spec
INVARIANTS
    NoSecondOrderForCheckout
\* The shopper may stop: the bounded supply of ids runs out.
CHECK_DEADLOCK FALSE
