------------------------------ MODULE CartPage ------------------------------
(***************************************************************************)
(* The shopping cart page.  A click on + or - does two independent things: *)
(* the theme's quantity script changes the number in the row at once, and  *)
(* the page's own script posts /basket/add-item or /basket/remove-item.    *)
(* When the post (whose redirect loads /basket) ends with 200 the page is  *)
(* reloaded; when it ends otherwise the error is only logged.  A reload    *)
(* reads the basket and, later, replaces the page: posts of the old page   *)
(* are then nobody's, though the server still handles them.                *)
(*                                                                         *)
(* The handler retries the basket call, which is not idempotent: an        *)
(* attempt that timed out may be applied at any later time, also after the *)
(* page has been reloaded.  Other tabs change the same basket.             *)
(***************************************************************************)
EXTENDS Integers, FiniteSets

CONSTANTS
    Items,       \* products
    Lines,       \* bound: posts that may be under way at once
    MaxClicks,   \* bound: clicks on + and -, here and in other tabs
    MaxAttempts, \* attempts at the basket call one post is worth
    MaxLate,     \* bound: attempts at one call given up and still under way
    Patient      \* TRUE: the shopper has this tab only, and waits until the
                 \* page has settled

VARIABLES
    basket,     \* quantities in the basket (0: not in it)
    shown,      \* quantities the page shows (0: no row)
    open,       \* the cart page is on the screen (not an error or login page)
    posts,      \* posts under way
    late,       \* attempts given up that the basket service has yet to apply
    reload,     \* "none", "asked", "read": a reload and how far it is
    snapshot,   \* the basket the reload read
    clicks,     \* clicks made
    reasons     \* history: why the page may lack what the basket holds

vars == <<basket, shown, open, posts, late, reload, snapshot, clicks, reasons>>

-----------------------------------------------------------------------------
Ops == {"plus", "minus"}

BasketCalls == Items \X Ops

\* "lost": its page is gone.
Posts == [call : BasketCalls, state : {"sent", "lost", "ok", "error"}]

\* "failed": a post of this page ended without 200; "overtaken": the page was
\* replaced with posts unhandled, or handled after the reload had read the
\* basket; "late", "elsewhere": since the basket was read for the page, an
\* attempt given up or another tab has changed it.
Reasons == {"failed", "overtaken", "late", "elsewhere"}

Busy == DOMAIN posts

Init ==
    /\ basket \in [Items -> 0 .. 1]
    /\ shown = basket
    /\ open = TRUE
    /\ posts = [l \in {} |-> "none"]
    /\ late = [w \in BasketCalls |-> 0]
    /\ reload = "none"
    /\ snapshot = basket
    /\ clicks = 0
    /\ reasons = {}

\* quantityInit: - stops at the input's min, 1.
Displayed(n, op) ==
    IF op = "plus" THEN n + 1 ELSE IF n > 1 THEN n - 1 ELSE n

\* The click listeners of both scripts; performOperation sends the post.
Click(i, op) ==
    /\ open /\ shown[i] > 0
    /\ clicks < MaxClicks
    /\ Patient => Busy = {} /\ reload = "none"
    /\ clicks' = clicks + 1
    /\ shown' = [shown EXCEPT ![i] = Displayed(@, op)]
    /\ \E l \in Lines \ Busy :
          posts' = [m \in Busy \cup {l} |->
                       IF m = l THEN [call |-> <<i, op>>, state |-> "sent"]
                                ELSE posts[m]]
    /\ UNCHANGED <<basket, open, late, reload, snapshot, reasons>>

\* The basket after the call w took effect k times.
Applied(w, k) ==
    [basket EXCEPT ![w[1]] =
        IF w[2] = "plus" THEN @ + k ELSE IF @ > k THEN @ - k ELSE 0]

\* A change of the basket that the page, or its reload, has read too early for.
Missed(reason) ==
    reasons' = reasons \cup (IF reload # "asked" /\ basket' # basket
                             THEN {reason} ELSE {})

\* POST /basket/add-item or remove-item and the page its redirect leads to: k
\* attempts take effect before it is answered, j are given up and take effect
\* later.  A 200 means that one attempt was answered, or that none was made:
\* without a session the post is redirected to /login, which is a 200 too.  An
\* error does not mean that nothing happened: the cookie, the redirected page
\* or the answer may be what failed.
Serve(l) ==
    LET w == posts[l].call IN
    /\ posts[l].state \in {"sent", "lost"}
    /\ \E k, j \in 0 .. MaxAttempts, ok \in BOOLEAN :
          /\ k + j <= MaxAttempts
          /\ ok => k > 0 \/ j = 0
          /\ late[w] + j <= MaxLate
          /\ basket' = Applied(w, k)
          /\ late' = [late EXCEPT ![w] = @ + j]
          /\ posts' = IF posts[l].state = "lost"
                      THEN [m \in Busy \ {l} |-> posts[m]]
                      ELSE [posts EXCEPT ![l].state = IF ok THEN "ok" ELSE "error"]
    /\ IF reload = "read" THEN Missed("overtaken") ELSE UNCHANGED reasons
    /\ UNCHANGED <<shown, open, reload, snapshot, clicks>>

\* The basket service (external) applies an attempt that was given up.
Land(w) ==
    /\ late[w] > 0
    /\ late' = [late EXCEPT ![w] = @ - 1]
    /\ basket' = Applied(w, 1)
    /\ Missed("late")
    /\ UNCHANGED <<shown, open, posts, reload, snapshot, clicks>>

\* Another tab adds to the basket or takes from it.
Elsewhere(w) ==
    /\ ~Patient
    /\ clicks < MaxClicks
    /\ clicks' = clicks + 1
    /\ basket' = Applied(w, 1)
    /\ Missed("elsewhere")
    /\ UNCHANGED <<shown, open, posts, late, reload, snapshot>>

\* performOperation's onreadystatechange: 200 reloads the page (and starts a
\* reload under way again), anything else is logged.  The variants: only log,
\* and show a page read before the operation.
DoneLogging(l) ==
    /\ posts[l].state \in {"ok", "error"}
    /\ posts' = [m \in Busy \ {l} |-> posts[m]]
    /\ reasons' = reasons \cup {r \in {"failed"} : posts[l].state = "error"}
    /\ UNCHANGED <<basket, shown, open, late, reload, snapshot, clicks>>

DoneGoingOn(l) ==
    /\ posts[l].state \in {"ok", "error"}
    /\ posts' = [m \in Busy \ {l} |-> posts[m]]
    /\ reload' = IF posts[l].state = "ok" THEN "read" ELSE reload
    /\ reasons' = reasons \cup {r \in {"failed"} : posts[l].state = "error"}
    /\ UNCHANGED <<basket, shown, open, late, snapshot, clicks>>

Done(l) ==
    /\ posts' = [m \in Busy \ {l} |-> posts[m]]
    /\ \/ /\ posts[l].state = "ok"
          /\ reload' = "asked"
          /\ reasons' = reasons \cap {"failed"}
       \/ /\ posts[l].state = "error"
          /\ reasons' = reasons \cup {"failed"}
          /\ UNCHANGED reload
    /\ UNCHANGED <<basket, shown, open, late, snapshot, clicks>>

\* The shopper opens the page (again).
Open ==
    /\ reload = "none"
    /\ Patient => Busy = {}
    /\ reload' = "asked"
    /\ reasons' = reasons \cap {"failed"}
    /\ UNCHANGED <<basket, shown, open, posts, late, snapshot, clicks>>

\* GET /basket reads the basket.
Read ==
    /\ reload = "asked"
    /\ reload' = "read"
    /\ snapshot' = basket
    /\ UNCHANGED <<basket, shown, open, posts, late, clicks, reasons>>

\* The answer replaces the page: by the cart, or by an error or login page.
Replace ==
    /\ reload = "read"
    /\ reload' = "none"
    /\ open' \in BOOLEAN
    /\ shown' = IF open' THEN snapshot ELSE [i \in Items |-> 0]
    /\ posts' = [l \in {m \in Busy : posts[m].state \in {"sent", "lost"}} |->
                    [posts[l] EXCEPT !.state = "lost"]]
    /\ reasons' = (reasons \ {"failed"})
                     \cup (IF DOMAIN posts' = {} THEN {} ELSE {"overtaken"})
    /\ UNCHANGED <<basket, late, snapshot, clicks>>

Next ==
    \/ \E i \in Items, op \in Ops : Click(i, op)
    \/ \E l \in Busy : Serve(l) \/ Done(l)
    \/ \E w \in BasketCalls : Land(w) \/ Elsewhere(w)
    \/ Open \/ Read \/ Replace

\* The server and the browser go on by themselves; the shopper need not, and an
\* attempt that was given up may never be applied.
Fairness ==
    /\ WF_vars(Read \/ Replace)
    /\ \A l \in Lines : WF_vars(l \in Busy /\ (Serve(l) \/ Done(l)))

Spec == Init /\ [][Next]_vars /\ Fairness

-----------------------------------------------------------------------------
Settled == open /\ Busy = {} /\ reload = "none"

TypeOK ==
    /\ basket \in [Items -> Nat] /\ shown \in [Items -> Nat]
    /\ snapshot \in [Items -> Nat]
    /\ Busy \subseteq Lines /\ \A l \in Busy : posts[l] \in Posts
    /\ late \in [BasketCalls -> 0 .. MaxLate]
    /\ reload \in {"none", "asked", "read"}
    /\ clicks \in 0 .. MaxClicks
    /\ open \in BOOLEAN
    /\ reasons \subseteq Reasons

\* A settled page that shows quantities the basket does not have owes it to one
\* of four things, and to nothing else: a post of the page failed, the reload
\* overtook a post (buttons-operations.js performOperation reloads on 200
\* without looking at the other posts), an attempt that the handler had given
\* up was applied after the page was read (basketremote.go BasketAddItem,
\* BasketRemoveItem under DoWithRetry), or another tab changed the basket.
WrongForAReason == Settled /\ shown # basket => reasons # {}

\* For a shopper with one tab who waits until the page has settled two remain:
\* a post that failed, and an attempt applied after the page was read.  An add
\* that is applied twice before its answer is shown as it is in the basket.
ShownUnlessFailedOrLate ==
    Settled /\ reasons \cap {"failed", "late"} = {} => shown = basket

\* For that shopper every click is followed by a settled page that shows the
\* basket as it was read after the click, by a failure, or by an error page
\* (buttons-operations.js performOperation: reload on 200).
ClicksShow ==
    Busy # {} ~> \/ Settled /\ (shown = basket \/ "late" \in reasons)
                 \/ "failed" \in reasons
                 \/ ~open
=============================================================================
