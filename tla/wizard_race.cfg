\* Two tabs of one shopper going through the wizard, every failure.
CONSTANTS
    Tabs = {t1, t2}
    Users = {u1}
    NoUser = NoUser
    Kinds = {"login", "getProfile", "getAddress", "profile", "address"}
    MaxLogins = 1
    MaxTokens = 1
SYMMETRY Symmetry
SPECIFICATION Spec
INVARIANTS
    RecordBacked
