\* Every part on its own; liveness, so no symmetry.
CONSTANTS
    MaxAmount = 15
    Nothing = Nothing
    Addresses = {a1, a2}
    Calls = {c1, c2}
    MaxLoads = 2
    Items = {i1, i2}
    Lines = {l1, l2}
    MaxClicks = 2
    MaxAttempts = 2
    MaxLate = 1
    PerPage = 10
    MaxOrders = 65
    Window = 2
    Tabs = {t1, t2}
    Terms = {q1, q2}
    PageSize = 2
    MaxTotal = 3
    MaxRaceTotal = 1
    Conns = {n1, n2, n3}
    OneTab = {t1}
    Users = {u1}
    NoUser = NoUser
    Kinds = {"login", "logout", "getProfile", "getAddress", "profile", "address", "newAddress"}
    MaxLogins = 1
    MaxTokens = 2
SPECIFICATION PartsSpec
INVARIANTS
    TypeOK
    OneButtonAfterRecord
    ShipsToOffered
    PaysRecorded
    WrongForAReason
    ShownUnlessFailedOrLate
    ShowsAPage
    NoPageCutOff
    CounterIsPage
    ShowsTheChoice
    RememberedTogether
    LinksStayInSearch
    DriftBounded
    WholeCentsExact
    CleanShutdown
    EndedStaysEnded
PROPERTIES
    StatusSettles
    ClicksShow
    ChoiceMends
    SignalEnds
    TokenReplacedWhenDue
    OnboardingKept
    RequestsAnswered
\* The server's process ends and the widget is configured once.
CHECK_DEADLOCK FALSE
