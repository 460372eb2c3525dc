---------------------------- MODULE ThemeControl ----------------------------
(***************************************************************************)
(* The light / dark / auto switch of the pages.  The choice is kept in the *)
(* browser's local storage, which all tabs share; no tab listens to the    *)
(* others, nor to the system's theme.  A page that is loaded reads it three *)
(* times: config.js in the head sets the theme attribute, theme.js at the  *)
(* end of the body picks the icon, and themeControl, once the document is  *)
(* ready, marks the entry of the menu.  Other tabs may act in between.     *)
(***************************************************************************)
EXTENDS Naturals

CONSTANTS Tabs, None

VARIABLES
    store,     \* localStorage's theme
    system,    \* the system's theme
    tab,       \* what each tab shows
    outdated   \* history: storage or system changed since the tab took them up

vars == <<store, system, tab, outdated>>

-----------------------------------------------------------------------------
Themes == {"light", "dark", "auto"}
Looks == {"light", "dark"}

Tab == [phase : {"closed", "head", "body", "ready"}, attr : Looks,
        icon : Themes \cup {None}, mark : Themes \cup {None}]

Init ==
    /\ store = None
    /\ system \in Looks
    /\ tab = [t \in Tabs |-> [phase |-> "closed", attr |-> "light",
                              icon |-> None, mark |-> None]]
    /\ outdated = [t \in Tabs |-> FALSE]

\* The look a choice stands for; the page's own attribute is light.
Look(v) == CASE v = "auto" -> system [] v = "dark" -> "dark" [] OTHER -> "light"

\* A change of the storage, or of the system, passes all tabs by but t.
Passes(t) ==
    outdated' = [u \in Tabs |->
        u # t /\ (outdated[u] \/ store' # store \/ system' # system)]

\* config.js: the default is stored, the attribute set.
ConfigJs(t) ==
    /\ store' = IF store = None THEN "light" ELSE store
    /\ tab' = [tab EXCEPT ![t] = [phase |-> "head", attr |-> Look(store'),
                                  icon |-> None, mark |-> None]]
    /\ UNCHANGED system
    /\ Passes(t)

\* theme.js, when it runs: handleThemeDropdownIcon(getItemFromStore('theme')).
ThemeJs(t) ==
    /\ tab[t].phase = "head"
    /\ tab' = [tab EXCEPT ![t].phase = "body", ![t].icon = store]
    /\ UNCHANGED <<store, system, outdated>>

\* themeControl on a ready document: initialDomSetup.  The variant marks the
\* default.
DocReadyDefault(t) ==
    /\ tab[t].phase = "body"
    /\ tab' = [tab EXCEPT ![t].phase = "ready", ![t].mark = "light"]
    /\ UNCHANGED <<store, system, outdated>>

DocReady(t) ==
    /\ tab[t].phase = "body"
    /\ tab' = [tab EXCEPT ![t].phase = "ready", ![t].mark = store]
    /\ UNCHANGED <<store, system, outdated>>

\* A click on an entry: stored, shown, the icon by the clickControl event, the
\* mark by changeTheme.  The variant skips changeTheme.
ClickUnmarked(t, v) ==
    /\ tab[t].phase = "ready"
    /\ store' = v
    /\ tab' = [tab EXCEPT ![t].attr = Look(v), ![t].icon = v]
    /\ UNCHANGED system
    /\ Passes(t)

Click(t, v) ==
    /\ tab[t].phase = "ready"
    /\ store' = v
    /\ tab' = [tab EXCEPT ![t].attr = Look(v), ![t].icon = v, ![t].mark = store']
    /\ UNCHANGED system
    /\ Passes(t)

\* The shopper switches the system's theme, or clears the site's data.
SystemChanges ==
    /\ system' \in Looks \ {system}
    /\ UNCHANGED <<store, tab>>
    /\ Passes(None)

Clear ==
    /\ store # None
    /\ store' = None
    /\ UNCHANGED <<system, tab>>
    /\ Passes(None)

Next ==
    \/ \E t \in Tabs : ConfigJs(t) \/ ThemeJs(t) \/ DocReady(t)
    \/ \E t \in Tabs, v \in Themes : Click(t, v)
    \/ SystemChanges \/ Clear

Spec == Init /\ [][Next]_vars

-----------------------------------------------------------------------------
TypeOK ==
    /\ store \in Themes \cup {None}
    /\ system \in Looks
    /\ tab \in [Tabs -> Tab]
    /\ outdated \in [Tabs -> BOOLEAN]

\* The attribute, the icon and the mark of the menu belong to one choice.
Agrees(t) ==
    /\ tab[t].icon = tab[t].mark
    /\ tab[t].icon \in Looks => tab[t].attr = tab[t].icon

\* The three readings of a load and the click handler's four effects come to
\* the same: a page shows the stored choice in all three places unless storage
\* or system changed behind its back (config.js; theme.js themeControl).
ShowsTheChoice ==
    \A t \in Tabs : tab[t].phase = "ready" /\ ~outdated[t] =>
        /\ Agrees(t)
        /\ tab[t].icon = store
        /\ tab[t].attr = Look(store)

\* A page torn by a change during its load stays so only until a choice is made
\* on it: what changes a ready page makes it agree with itself (theme.js
\* themeControl, changeTheme).
ChoiceMends ==
    [][\A t \in Tabs :
          tab[t].phase = "ready" /\ tab'[t].phase = "ready" /\ tab'[t] # tab[t]
              => Agrees(t)']_vars
=============================================================================
