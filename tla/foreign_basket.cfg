\* One tab, two shoppers one after the other.
CONSTANTS
    Tabs = {t1}
    Users = {u1, u2}
    NoUser = NoUser
    Kinds = {"login", "getProfile", "profile"}
    MaxLogins = 2
    MaxTokens = 2
SYMMETRY Symmetry
SPECIFICATION Spec
INVARIANTS
    BasketOfTheUser
