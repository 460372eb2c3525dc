\* One tab, every kind of request, every failure; no confirm URL opened twice.
CONSTANTS
    Tabs = {t1}
    Baskets = {b1, b2}
    Txs = {x1, x2, x3}
    Stores = {s1, s2}
    Addresses = {a1}
    None = None
    Activities = {"checkout", "checkoutPost", "processPayment", "confirm", "addItem", "removeItem", "searchAdd", "search"}
    MaxQty = 1
    MaxRetries = 1
    MaxOrders = 4
    MaxLate = 0
    Revisits = FALSE
    EmptyBodies = FALSE
    EmptyMessages = FALSE
SPECIFICATION FairSpec
INVARIANTS
    OrdersMatchCharge
    CheckedOutBasketHasItsOrders
PROPERTIES
    SearchAddRecovers
    EveryRequestAnswered
