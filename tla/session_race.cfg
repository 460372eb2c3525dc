\* Two tabs, two shoppers who log in and out, every failure of the middleware.
\* The third token is for a refresh whose Save meets the second session; the
\* handlers that read the record once more are in wizard_race.
CONSTANTS
    Tabs = {t1, t2}
    Users = {u1, u2}
    NoUser = NoUser
    Kinds = {"login", "logout"}
    MaxLogins = 2
    MaxTokens = 3
SYMMETRY Symmetry
SPECIFICATION Spec
INVARIANTS
    TypeOK
    ServesOwner
