---------------------------- MODULE CheckoutPage ----------------------------
(***************************************************************************)
(* The script of the checkout page.  Choosing a shipping address posts     *)
(* /payphone/create-payment, whose handler puts the address and a payment  *)
(* id into the cookie; the first answer that succeeds makes PayPhone's     *)
(* button appear.  The posts are fire-and-forget: the shopper can choose   *)
(* again while one is under way, several are handled at once, each on the  *)
(* copy of the cookie it was sent with, and their answers come back in any *)
(* order.  The orders will later be shipped to the address in the cookie.  *)
(***************************************************************************)
EXTENDS Naturals, FiniteSets

CONSTANTS
    Addresses,  \* the radio buttons of the page
    None,       \* no address
    Calls,      \* bound: posts that may be under way at once
    MaxLoads,   \* bound: times the page is loaded
    Patient     \* TRUE: the shopper chooses only while nothing is under way

VARIABLES
    jar,       \* the cookie: shippingAddressID, and whether it has a paymentID
    config,    \* window.payphoneConfig is defined
    selected,  \* selectedShippingAddress
    live,      \* payphoneInitialized
    status,    \* what the status line says
    calls,     \* the posts under way
    buttons,   \* history: buttons rendered on this page
    offered,   \* history: the address chosen when the button appeared
    recorded,  \* history: a post of this page was answered with success
    loads      \* times the page was loaded

page == <<config, selected, live, status, buttons, offered, recorded>>
vars == <<jar, config, selected, live, status, calls, buttons, offered, recorded,
          loads>>

-----------------------------------------------------------------------------
Cookie == [address : Addresses \cup {None}, payment : BOOLEAN]

\* A post: the address it carries, the copy of the cookie it was sent with and
\* what became of it; "saved" and "done" answer with the cookie, the one with
\* the address only (the handler failed after its first Save).
Call == [address : Addresses, cookie : Cookie,
         state : {"sent", "refused", "saved", "done"}]

Busy == DOMAIN calls

Init ==
    /\ jar = [address |-> None, payment |-> FALSE]
    /\ config = TRUE
    /\ selected = None
    /\ live = FALSE
    /\ status = "left"
    /\ calls = [c \in {} |-> None]
    /\ buttons = 0
    /\ offered = None
    /\ recorded = FALSE
    /\ loads = 0

\* createPaymentRecord: post the chosen address (on a free line).
Post(a, cookie, pending) ==
    \E c \in Calls \ DOMAIN pending :
        calls' = [d \in DOMAIN pending \cup {c} |->
                     IF d = c
                     THEN [address |-> a, cookie |-> cookie, state |-> "sent"]
                     ELSE pending[d]]

\* GET /checkout: a fresh attempt forgets the payment id; a basket without
\* items gets no widget configuration.  Then DOMContentLoaded runs
\* validateShippingAddress: the browser may have restored a choice.  What the
\* page left had under way is aborted.
Load ==
    /\ loads < MaxLoads
    /\ loads' = loads + 1
    /\ config' \in BOOLEAN
    /\ jar' = IF config' THEN [jar EXCEPT !.payment = FALSE] ELSE jar
    /\ selected' \in Addresses \cup {None}
    /\ live' = FALSE
    /\ buttons' = 0
    /\ offered' = None
    /\ recorded' = FALSE
    /\ IF selected' # None
       THEN status' = "creating" /\ Post(selected', jar', [c \in {} |-> None])
       ELSE status' = "choose" /\ calls' = [c \in {} |-> None]

\* validateShippingAddress: the shopper chooses an address.  Once the button is
\* there nothing is posted any more, and nothing on the page says so.
Choose(a) ==
    /\ status # "left"
    /\ a # selected
    /\ Patient => Busy = {}
    /\ selected' = a
    /\ IF live THEN UNCHANGED <<status, calls>>
               ELSE status' = "creating" /\ Post(a, jar, calls)
    /\ UNCHANGED <<jar, config, live, buttons, offered, recorded, loads>>

-----------------------------------------------------------------------------
(* The handler of the post, ProcessPayment: refused before anything is saved; *)
(* an error after the address was saved; or done.                             *)

\* The variant forgets to save the address.
SavedForgetful(call) == call.cookie

Saved(call) == [call.cookie EXCEPT !.address = call.address]

Done(call) == [Saved(call) EXCEPT !.payment = TRUE]

Serve(c) ==
    /\ calls[c].state = "sent"
    /\ \E s \in {"refused", "saved", "done"} :
          calls' = [calls EXCEPT ![c].state = s,
                                 ![c].cookie = CASE s = "refused" -> @
                                                 [] s = "saved" -> Saved(calls[c])
                                                 [] s = "done" -> Done(calls[c])]
    /\ UNCHANGED <<jar, page, loads>>

-----------------------------------------------------------------------------
(* The answers. *)

Without(c) == calls' = [d \in Busy \ {c} |-> calls[d]]

Shows ==
    /\ live' = TRUE /\ status' = "ready"
    /\ buttons' = buttons + 1 /\ offered' = selected

\* The variant lacks the early return.
InitializePayPhoneAgain ==
    IF config
    THEN Shows
    ELSE status' = "failed" /\ UNCHANGED <<live, buttons, offered>>

\* initializePayPhone, after the status line was set to "initializing": nothing
\* if the button is there; otherwise the button appears, unless the
\* configuration is missing or PayPhone's script fails.
InitializePayPhone ==
    \/ /\ live
       /\ status' = "initializing"
       /\ UNCHANGED <<live, buttons, offered>>
    \/ /\ ~live /\ config
       /\ Shows
    \/ /\ ~live
       /\ status' = "failed"
       /\ UNCHANGED <<live, buttons, offered>>

\* A success with a readable body.
Succeed(c) ==
    /\ calls[c].state = "done"
    /\ jar' = calls[c].cookie
    /\ recorded' = TRUE
    /\ InitializePayPhone
    /\ Without(c)
    /\ UNCHANGED <<config, selected, loads>>

\* The catch: an error page (with or without a cookie), a success that cannot
\* be read, or no answer at all.  One variant shows the button all the same,
\* the other leaves the status line as it was.
FailAndShow(c) ==
    /\ calls[c].state # "sent"
    /\ jar' = calls[c].cookie
    /\ InitializePayPhone
    /\ Without(c)
    /\ UNCHANGED <<config, selected, recorded, loads>>

FailSilently(c) ==
    /\ jar' = calls[c].cookie
    /\ Without(c)
    /\ UNCHANGED <<config, selected, live, status, buttons, offered, recorded, loads>>

Fail(c) ==
    /\ jar' \in {jar} \cup {d \in {calls[c].cookie} :
                               calls[c].state \in {"saved", "done"}}
    /\ status' = "failed"
    /\ Without(c)
    /\ UNCHANGED <<config, selected, live, buttons, offered, recorded, loads>>

\* The shopper presses PayPhone's button and leaves the page.
Pay ==
    /\ live
    /\ status' = "left"
    /\ live' = FALSE
    /\ calls' = [c \in {} |-> None]
    /\ UNCHANGED <<jar, config, selected, buttons, offered, recorded, loads>>

Answered(c) == Serve(c) \/ Succeed(c) \/ Fail(c)

Next ==
    \/ Load \/ Pay
    \/ \E a \in Addresses : Choose(a)
    \/ \E c \in Busy : Answered(c)

\* The handler and the browser answer every post; the shopper need not act.
Fairness == \A c \in Calls : WF_vars(c \in Busy /\ Answered(c))

Spec == Init /\ [][Next]_vars /\ Fairness

-----------------------------------------------------------------------------
TypeOK ==
    /\ jar \in Cookie
    /\ config \in BOOLEAN
    /\ selected \in Addresses \cup {None}
    /\ live \in BOOLEAN
    /\ status \in {"left", "choose", "creating", "initializing", "ready", "failed"}
    /\ Busy \subseteq Calls /\ \A c \in Busy : calls[c] \in Call
    /\ buttons \in Nat
    /\ offered \in Addresses \cup {None}
    /\ recorded \in BOOLEAN
    /\ loads \in 0 .. MaxLoads

\* However many posts were under way and in whatever order they are answered,
\* the page shows at most one PayPhone button, and only after one of its posts
\* succeeded (checkout-payphone.js initializePayPhone: "after payment record is
\* created").
OneButtonAfterRecord == buttons <= 1 /\ (live => recorded)

\* When the button is there and nothing is under way, the orders will be shipped
\* to the address that was chosen when the button appeared: to none that was
\* posted before it, and to none that is chosen after it, since the page then
\* posts no more (checkout-payphone.js validateShippingAddress, whose header
\* says that a selection "triggers payment record creation").
ShipsToOffered == live /\ Busy = {} => jar.address = offered

\* When the button is there and nothing is under way, the cookie holds the
\* payment id of the attempt (checkout-payphone.js initializePayPhone:
\* "payment record must exist").
PaysRecorded == live /\ Busy = {} => jar.payment

\* Choosing an address leads to a final word on the status line, not to a
\* message that something is still going on (checkout-payphone.js).
StatusSettles ==
    status \in {"creating", "initializing"}
        ~> status \notin {"creating", "initializing"}
=============================================================================
