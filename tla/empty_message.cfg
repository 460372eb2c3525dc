\* PayPhone refuses a payment with an empty message.
CONSTANTS
    Tabs = {t1}
    Baskets = {b1, b2}
    Txs = {x1, x2}
    Stores = {s1}
    Addresses = {a1}
    None = None
    Activities = {"checkout", "processPayment", "confirm"}
    MaxQty = 1
    MaxRetries = 1
    MaxOrders = 1
    MaxLate = 0
    Revisits = FALSE
    EmptyBodies = FALSE
    EmptyMessages = TRUE
SYMMETRY Symmetry
SPECIFICATION Spec
INVARIANTS
    OrdersOnlyForConfirmedPayments
\* The shopper may stop: the bounded supply of ids runs out.
CHECK_DEADLOCK FALSE
