\* A refresh in flight while another tab logs out.
CONSTANTS
    Tabs = {t1, t2}
    Users = {u1}
    NoUser = NoUser
    Kinds = {"login", "logout", "getProfile"}
    MaxLogins = 1
    MaxTokens = 2
SYMMETRY Symmetry
SPECIFICATION Spec
INVARIANTS
    EndedStaysEnded
