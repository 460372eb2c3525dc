----------------------------- MODULE OrdersList -----------------------------
(***************************************************************************)
(* The pager of the orders page.  The list library knows the first row it  *)
(* shows; the theme keeps a page counter of its own, from which it decides *)
(* whether the buttons Previous and Next are disabled.  The numbered       *)
(* buttons are drawn by the library around the current page, with "..." in *)
(* place of a far first or last page; both scripts listen to them.         *)
(***************************************************************************)
EXTENDS Integers

CONSTANTS
    PerPage,    \* rows of a page (10 in the template)
    MaxOrders,  \* bound: orders of the shopper
    Window      \* numbered buttons on each side of the current one (2)

VARIABLES
    total,      \* orders; the page of a shopper without any has no pager
    i,          \* list.i: the first row shown
    pageCount,  \* the theme's counter; NaN after a click on "..."
    prevOff,    \* Previous is disabled
    nextOff     \* Next is disabled

vars == <<total, i, pageCount, prevOff, nextOff>>

\* JavaScript's NaN: arithmetic keeps it, and it equals no number.
NaN == 0

-----------------------------------------------------------------------------
pageQuantity == (total + PerPage - 1) \div PerPage

\* The page the list library shows.
CurrentPage == (i + PerPage - 1) \div PerPage

\* updateListControls.
Controls(p) ==
    /\ prevOff' = (p = 1)
    /\ nextOff' = (p = pageQuantity)

\* listInit.
Init ==
    /\ total \in 1 .. MaxOrders
    /\ i = 1
    /\ pageCount = 1
    /\ prevOff = TRUE
    /\ nextOff = (pageQuantity = 1)

\* Next: count on, show the rows after these if there are any.  The variant
\* trusts the button to be disabled in time.
NextClickTrusting ==
    /\ ~nextOff
    /\ pageCount' = IF pageCount = NaN THEN NaN ELSE pageCount + 1
    /\ i' = i + PerPage
    /\ Controls(pageCount')
    /\ UNCHANGED total

NextClick ==
    /\ ~nextOff
    /\ pageCount' = IF pageCount = NaN THEN NaN ELSE pageCount + 1
    /\ i' = IF i + PerPage <= total THEN i + PerPage ELSE i
    /\ Controls(pageCount')
    /\ UNCHANGED total

\* Previous.
PrevClick ==
    /\ ~prevOff
    /\ pageCount' = IF pageCount = NaN THEN NaN ELSE pageCount - 1
    /\ i' = IF i > PerPage THEN i - PerPage ELSE i
    /\ Controls(pageCount')
    /\ UNCHANGED total

\* The numbered buttons that are drawn, and whether "..." is.
Numbered == {p \in 1 .. pageQuantity : p <= CurrentPage + Window /\ CurrentPage <= p + Window}
Dotted == 1 \notin Numbered \/ pageQuantity \notin Numbered

\* A numbered button: the theme counts, the library shows.  The variant leaves
\* the counting to Previous and Next.
PageClickUncounted(p) ==
    /\ p \in Numbered
    /\ i' = (p - 1) * PerPage + 1
    /\ UNCHANGED <<total, pageCount, prevOff, nextOff>>

PageClick(p) ==
    /\ p \in Numbered
    /\ pageCount' = p
    /\ Controls(p)
    /\ i' = (p - 1) * PerPage + 1
    /\ UNCHANGED total

\* "..." is a button of the same class, whose text is no number.
DotsClick ==
    /\ Dotted
    /\ pageCount' = NaN
    /\ Controls(NaN)
    /\ UNCHANGED <<total, i>>

Next ==
    \/ NextClick \/ PrevClick \/ DotsClick
    \/ \E p \in 1 .. pageQuantity : PageClick(p)

Spec == Init /\ [][Next]_vars

-----------------------------------------------------------------------------
TypeOK ==
    /\ total \in 1 .. MaxOrders
    /\ i \in Nat
    /\ pageCount \in Nat
    /\ prevOff \in BOOLEAN /\ nextOff \in BOOLEAN

\* Whatever is clicked in whatever order, "..." included, the table shows a
\* page of the list from its first row on, never an empty one (theme.js
\* listInit guards list.show by list.size() and by 0).
ShowsAPage == i <= total /\ i % PerPage = 1 % PerPage

\* No page is out of reach: Next works unless the last page is shown and
\* Previous works unless the first one is, also when the counter is lost
\* (theme.js updateListControls).
NoPageCutOff ==
    /\ i + PerPage <= total => ~nextOff
    /\ i > 1 => ~prevOff

\* While the counter is a number it is the page that the library shows, and the
\* buttons are disabled exactly at the two ends (theme.js listInit keeps
\* pageCount beside list.i; the "numbering pagination" handler of the one and
\* the library's handler of the other must agree).
CounterIsPage ==
    pageCount # NaN =>
        /\ pageCount = CurrentPage
        /\ prevOff <=> i = 1
        /\ nextOff <=> i + PerPage > total
=============================================================================
