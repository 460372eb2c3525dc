# Verification of the storefront

TLA+ models, TLC runs and TLAPS proofs for the Go web storefront in `src/`
(a chi server in a hexagonal layout: handlers, core services, HTTP adapters).
The storefront keeps no database of its own. What it owns is *coordination*:
a browser cookie holding the cart and payment state, a session record in Redis,
and sequences of calls to remote services (users, baskets, orders, products,
PayPhone) that it must keep consistent although every call can fail, time out
after having taken effect, or be repeated.

## Inventory

| Part | State | Operations | Hard because | Correct when |
|---|---|---|---|---|
| Checkout and payment (`handler/payment.go`, `core/payment`) | cookie keys `basketID`, `basketItems`, `shippingAddressID`, `clientTransactionID`, `paymentID` | GET/POST `/checkout`, `/payphone/create-payment`, `/payphone/confirm`, `/payphone/cancel` | five remote calls in a row without compensation; whole-cookie Saves of concurrent requests; confirm URLs opened again; PayPhone's reversal | orders only for confirmed payments, each store's order at most once per confirm, no checkout before its orders, what is charged is what is ordered |
| Cart (`handler/basket.go`, `core/basket`) | the same cookie; the remote basket | add, remove, add from search (with recovery from a checked-out basket) | retried, non-idempotent adds; a cookie that points at a checked-out basket | a shopper always gets a usable cart back |
| HTTP adapters (`infrastructure/http`) | none | one method per remote call; `Do` (single shot) or `DoWithRetry` | lost answers, late effects, empty bodies, refusals without a message | a call reports success only if it took effect; single-shot calls are never repeated |
| Checkout page script (`checkout-payphone.js`) | selected address, widget initialised, posts under way | address chosen, create-payment call, widget rendered | callbacks in any order, page older than the cookie | one widget, only after a payment record; ships to the address it was made for |
| Cart page (`buttons-operations.js`, quantity script of `theme.js`) | shown quantities | click, post, reload | two scripts on one click; a reload overtakes other posts; a retried call is applied twice, or once more after the reload | a settled page shows the basket, or lacks what one of four reasons explains |
| Product search (`handler/product.go`) | term and page in the cookie | search, page link, typed page | tabs share the remembered search | links stay in the search shown and within its results |
| Session (`web/session.go`, `home.go`, `redis/session`) | one Redis record per session, with a TTL | load, refresh the access token, logout, wizard Saves | whole-record Saves race with refresh and with Delete | a session serves its owner; one that was ended stays ended |
| Middleware (`web/middleware.go`) | request context | authenticate, require (anonymous) user, CSRF, panic recovery | the session is resolved up to twice | no handler runs without the user it assumes; every request ends |
| Login, signup, activation, passwords (`handler/auth.go`, `core/auth`) | session record, cookie | login, signup, activate, forgot, reset | several remote calls, swallowed errors | a logged-in, onboarded shopper has a basket, and his own |
| Onboarding wizard and addresses (`handler/user.go`, `handler/address.go`) | session record fields, cookie | update user, create and update address | each POST creates a basket; retried POSTs; failure between Save and basket | the record claims only what the services hold, and keeps it |
| Orders page pager (`theme.js` listInit) | first row, page counter, disabled buttons | Next, Previous, page numbers | two scripts count on their own; "..." is a button too | a page is always shown and none is cut off |
| Theme switch (`config.js`, `theme.js`) | local storage; attribute, icon and mark of each tab | load, choose | three readings per load, tabs share the storage | what is shown is the choice |
| PayPhone amounts (`payphoneremote.go`) | none | widget configuration | floating point, rounded one by one | parts add up |
| Server (`web/server.go`, `cmd/web`) | two goroutines, a result channel, connections | start, signal, drain, exit | shutdown period shorter than the write timeout; signal before it is watched for | success means nothing was cut off; a signal ends the process |
| Admin token and HTTP client (vendored `beecore-eda`, `kawa`) | token cache; attempts and back-off | get token, refresh ahead; retry, classify, deadline | single flight, background refresh | bounded retries |
| Templates, forms, validators, passwords, logging | | | | |

## Modules

* `Storefront` - the shopping core: one logged-in shopper, any number of
  requests in flight (`Tabs`), the cookie, the checkout page of each tab, the
  baskets, the orders and the transactions at PayPhone. A request is a record
  whose `pc` names the remote call it makes next; `jar` is the copy of the
  cookie it works on. A handler is the chain of actions from its `Start...`
  action to the step that ends the request; what it computes between two remote
  calls belongs to the step before. `Answer` is `session.Save` followed by the
  response (the browser replaces its whole cookie), `Fail` is `serverError`.
* `PaymentSaga` - the abstract specification of `ConfirmPayment`: a run fixes a
  confirmed payment, a basket and the lines to order; it orders each line at
  most once, closes the basket only when no line is left, may give up at any
  point, and a call it gave up on may still take effect once.
* `StorefrontInv` - the inductive invariant, and the one for a single careful
  shopper.
* `StorefrontProofs`, `PaymentProofs`, `RefinementProofs`, `OneTabProofs` - the
  theorems.
* `Session` - who is logged in: the cookie's session id, the Redis records, the
  middleware, login, logout and the wizard, every call of Redis or of a service
  a step of its own. Tokens are numbered in the order of their issue, so "close
  to expiry" is a bound on the number (`aged`). `SessionProofs` - its theorems.
* `CheckoutPage` - the checkout page's script and the handler of its posts, which
  overlap and are answered in any order. `Storefront` has one such post per page
  load; this module is about what happens with several.
* `CartPage` - a click changes the number shown at once and posts; a 200 reloads.
  The post's handler retries a call that is not idempotent: each attempt is applied
  before the answer, or given up and applied later (`late`, `Land`), also after the
  reload; other tabs change the same basket (`Elsewhere`).
* `ProductSearch` - the search that tabs share in the cookie, and its pages.
* `OrdersList`, `ThemeControl` - the parts of the theme's script that keep state of
  their own on this shop's pages.
* `PayPhoneAmounts` - cents of the widget's configuration, in mills with every
  floating-point error of less than a mill; `AmountsProofs` - its theorems.
* `Server` - serving, the signal goroutine, draining, the exit.
* `MCStorefront`, `MCSession` - the instances of the two large modules that TLC
  checks.
* `MCParts` - the parts that can be explored on their own, side by side: each
  behaviour belongs to one part, named by `part` in its first state, and leaves
  the variables of the others at an initial value. The checkout page, the cart
  and the search come twice, for a shopper who waits for each answer and for one
  who does not; the session comes with one tab. A property of one variant names
  it (`part = "addressPatient" => ...`); the others hold of all states.
* `PagesProofs`, `PartsProofs` - the theorems about the pages' scripts, and about
  the server, the search and the session of one tab, in the instances that
  `MCParts` names; and those about `PartsSpec` itself.

A definition whose name extends that of the one below it (`NeedsRefreshEarly`
and `NeedsRefresh`) is a faulty variant that no action uses: the mutant with
which a property is shown to be able to fail.

### Correspondence

| Code | Model |
|---|---|
| `PaymentHandler.Checkout` (GET) | `StartCheckout`, `CheckoutRead` (addresses, breakdown, new transaction id), `CheckoutConfig` (user lookup, Save, page) |
| `PaymentHandler.Checkout` (POST) | `StartCheckoutPost`, `CheckoutPost` |
| `PaymentHandler.ProcessPayment` and the page's callback | `StartProcessPayment` (first Save), `ProcessPayment` (breakdown, ids, checks, second Save, widget) |
| `PaymentHandler.ConfirmPayment` and `paymentService.ConfirmPayment` | `StartConfirm`, `ConfirmAtGateway`, `ConfirmFinancials`, `CreateOrder` (once per store), `CheckoutBasket`, `CreateBasket` (with the final Save) |
| `PaymentHandler.CancelPayment` | `CancelPayment` |
| `BasketHandler.AddItem`, `RemoveItem`, `SearchAddItem` and `basketService` | `StartCartRequest`, `PutItem` (one attempt of a retried call), `SearchCreateBasket`, `FindBasket` (with the Save) |
| `ProductHandler.FindProducts` | `StartSearch`, `Search` |
| `app.currentSession`, `refreshIfNeeded` | `Load`, `Refresh`, `SaveToken`, `Reject` |
| `authenticate`, `requireAuthenticatedUser`, `requireAnonymousUser` | `FindUser` with `Authenticated` and `Unauthenticated`, which lead to the handler, the second look or the redirect |
| `AuthHandler.Login`, `authService.Login` | `Login`, `HasAddresses`, `CreateSession`, `FindBasket` |
| `app.logout` | `Logout` |
| `UserHandler.UpdateWizard` | `Reload`, `UpdateProfile`, `SaveProfile`, `CreateBasket` |
| `AddressHandler.CreateAddressWizard`, `CreateAddress` | `Reload`, `InsertAddress`, `SaveAddress` |
| `validateShippingAddress`, `createPaymentRecord`, `initializePayPhone` | `Choose` and `Load`, `Post` with `Succeed` and `Fail`, `InitializePayPhone` |
| `performOperation`, `quantityInit` | `Click` with `Displayed`, `Done` |
| `AddItem`, `RemoveItem` as the cart page sees them | `Serve` (with the redirect to `/login`, which the script takes for a success), `Land` |
| `listInit`, `updateListControls` | `NextClick`, `PrevClick`, `PageClick`, `DotsClick`, `Controls` |
| `config.js`, `handleThemeDropdownIcon`, `initialDomSetup`, `themeControl` | `ConfigJs`, `ThemeJs`, `DocReady`, `Click` |
| `FindProducts`, `renderProductSearch` | `Post`, `GetPage`, `Get`, `Answer` |
| `GeneratePayPhoneConfig` | `GeneratePayPhoneConfig`, `Round`, `Product` |
| `serveHTTP`, `run`, `main` | `Watch`, `Shutdown`, `Drained`, `Deadline`, `ListenReturns`, `ListenFails`, `Result`, `CloseAllClients`, `Exit` |
| the shopper, PayPhone, the services (external) | `Pay`, `Reverse`, `Land`, `AfterConfirm`, `CanApply`, `Apply`, `OpenBasket` |

A remote call has these outcomes: an answer; an error without effect; an error
after the effect (the answer is lost); a timeout of a call the service still
applies later (`late`, applied by `Land`). The single-shot calls end the request
on an error, `PutItem` is tried again up to `MaxRetries` times. A late
`CreateBasket` is the same as one applied before the error, since nobody learns
the id; it has no case of its own. `EmptyBodies` adds the success without a
body, which the adapters turn into an empty result; `EmptyMessages` adds
PayPhone's refusal with an empty message.

Abstracted: a product is identified with the store that sells it (orders are per
store); money is what was in the cart when an amount was computed (`charged`);
the cart count in the cookie is absent, zero or some, which is all that any
handler asks of it. `tx` and `made` in orders and requests, and `tx` and `lines`
in late calls, are history. Equal calls may be under way at once (`late` holds
numbered copies), so a retried add can land twice.
Left out of `Storefront`: what is only displayed, the session record (the shopper
stays logged in; `Session` is about the rest), the cookie keys no handler reads
back (`payphoneConfirmation`, `orderID`) and the paging keys (`ProductSearch`).

In `Session` a DNI and an address matter only as present or absent, a basket id
stands for the user whose basket it is, and an expired record is simply gone.

## Runs

The runs without liveness use symmetric sets of ids. Bounds on ids and orders
(`Baskets`, `Txs`, `MaxOrders`, `MaxLate`) are in the guards of the actions that *start* a
request, so a request that was started never runs out of them; `MaxQty` stands
for stock. Deadlock is not checked where a shopper can run out of ids.

| Run | Instance | Shows |
|---|---|---|
| `payment_race` | 2 tabs, 3 baskets, 2 stores, 4 transactions, old confirm URLs opened again | `OrdersOnlyForConfirmedPayments`, `OneOrderPerStorePerConfirm`, `PaymentIDIsOfCurrentAttempt`, `CheckoutOnlyAfterOrders`, `TypeOK`, the inductive invariant `IInv` and the refinement `ImplementsSaga` hold when two confirms interleave at every remote call, half way through their orders, and when one follows another that succeeded |
| `late_calls` | 1 tab, 2 stores, two calls under way after a timeout, empty bodies | `IInv`, `CheckoutOnlyAfterOrders` and `ImplementsSaga` when effects arrive late and out of order |
| `one_tab` | 1 tab, every request, no late effects, each confirm URL opened once, fairness | `OrdersMatchCharge`, `CheckedOutBasketHasItsOrders`, `SearchAddRecovers`: the guarantees that one careful shopper gets and that a second tab, a late effect or a repeated confirm takes away; `EveryRequestAnswered` |
| `session_race` | 2 tabs, 2 users, 2 logins and a refresh | `TypeOK`, `ServesOwner`: whatever interleaves between a Load and a Save, a session id serves the user whose login created it |
| `wizard_race` | 2 tabs, the wizard's requests, one token (no refresh) | `RecordBacked`: a record never claims onboarding that the services do not hold |
| `parts` | see below, fairness | the properties of the parts on their own |
| `empty_message` | violation | a refusal with an empty message is taken for an approval |
| `second_order` | violation | opening a failed confirm again duplicates an order |
| `stale_cookie` | violation | a slow search brings the paid basket back |
| `unordered_item` | violation | an item added during a confirm is checked out unordered |
| `logout_final` | violation, 2 tabs | a refresh in flight brings a session back after logout |
| `foreign_basket` | violation | a login keeps the basket of the user before |

What `parts` explores and shows:

| Part | Instance | Properties |
|---|---|---|
| `addressRace` | 2 addresses, 2 posts under way, 2 page loads | `OneButtonAfterRecord` |
| `addressPatient` | the same for a shopper who waits for each answer, and may choose again once the button is there | `ShipsToOffered`, `PaysRecorded`, `StatusSettles` |
| `cartRace` | 2 items, 2 clicks here or in another tab, posts applied twice or late, reloads in between | `WrongForAReason` |
| `cartPatient` | the same for a shopper with one tab who waits, attempts applied late included | `ShownUnlessFailedOrLate`, `ClicksShow` |
| `orders` | every number of orders up to seven pages | `ShowsAPage`, `NoPageCutOff`, `CounterIsPage` |
| `theme` | 2 tabs, system changes, storage cleared | `ShowsTheChoice`, `ChoiceMends` |
| `searchRace` | 2 tabs, 2 terms, typed pages, changing catalogue | `RememberedTogether` |
| `searchCalm` | results in one tab at a time, catalogue at rest | `LinksStayInSearch` |
| `amounts` | every fraction of a cent and floating-point error | `DriftBounded`, `WholeCentsExact` |
| `server` | 3 connections, a signal at any moment | `CleanShutdown`, `SignalEnds` |
| `session` | 1 tab, all requests | `EndedStaysEnded`, `TokenReplacedWhenDue`, `OnboardingKept`, `RequestsAnswered`: the guarantees under the assumption `refreshIfNeeded` states, one tab at a time |

The variants belong together: the patient one states what one careful user gets,
the other what remains when requests overlap. What the overlap takes away: with a
second tab a session that was ended comes back (`logout_final`), a token is
exchanged twice and a record may lose what the wizard wrote; which of two addresses
the orders go to depends on the order of the answers; a second success leaves the
status line at "Initializing"; a reload overtakes other posts; a page link continues
another tab's search. Waiting does not help against two things, and the properties
of the patient shopper say so: an address chosen once the button is there is shown
as chosen but never posted, so `ShipsToOffered` speaks of the address the button was
made for; and an attempt at a retried add that the handler gave up on may be applied
after the page was reloaded, so `ShownUnlessFailedOrLate` names it as a reason.

Three further disagreements with comments are plain from the code and have no
run: `CreateBasket` turns a success without a body into an empty basket id, so a
confirm may succeed without a fresh basket (`port/service/payment.go` says
"always non-empty when err is nil"); orders carry the id that `ProcessPayment`
mints, not the one the widget charged (`payphoneremote.go` wants "consistency
between PayPhone config generation and payment processing"); and `UpdateWizard`
saves the DNI before it creates the basket, so a user may complete the wizard
without one (`auth.go`: "by this point (fully onboarded), the cookie's basket ID
must already exist").

Why the bounds suffice: a checkout attempt uses two transaction ids (the page's
and the create-payment call's), so four let two attempts overlap fully; two
stores make a loop that can fail half way; two orders per store are a
duplicate. Each confirm in flight reserves the basket it may open, so `payment_race`
has one in use and two to open: two confirms overlap, or one runs in the basket
that another opened. Empty bodies would multiply its states and are in
`late_calls`, where a cookie without a basket leaves the shopper nothing to do, so
deadlock is not checked there. Two sessions and three tokens are a refresh whose
Save meets a second login; the refresh beside the wizard's Saves is beyond the
instance of `wizard_race`, and `SessionRecordBacked` is proved for any number of
tokens. One late attempt per call and two attempts per post double an add and apply
one after the reload; a third
post, click or tab repeats what two do to each other; seven pages draw "..." on
both sides of the numbered buttons; amounts repeat after ten mills.

Fairness (`FairSpec`): weak fairness of `Serve(t)`, the application's own steps
for a request. The code justifies it: every attempt has a deadline and every
retry loop a budget, so each call ends. Nothing is assumed of the shopper,
PayPhone or late calls. `Session`, `CheckoutPage` and `CartPage` assume the same
of a request that was sent and of the browser's callbacks; `Server` that its two
goroutines run and that the shutdown period passes, not that requests end.

## Proofs

For every value of the constants allowed by `ConstantsAssumption` (any number of
tabs, baskets, transactions, stores, retries and late calls):

* `TypeCorrect`: `Spec => []TypeOK`. `TypeOK` alone is not inductive: an order
  is well formed only because a confirm past its early returns has a basket, a
  transaction and an address, and a store to order only because `todo` is part
  of the breakdown. `TypeInv` adds those facts per request (`RequestOK`) and
  per page (`PageOK`).
* `PaymentOfCurrentAttempt`: `Spec => []PaymentIDIsOfCurrentAttempt`. The cookie
  alone says too little, since any request may replace it by the copy it took
  earlier; `JarsOK` says the same of every copy.
* `InductiveInvariant`: `Spec => []IInv`. `IInv` joins `TypeInv`, the two facts
  above and `SagaInv`: every confirm past the gateway rests on a confirmed
  payment and has created one order for each store it is done with (`ConfirmOK`),
  and a call it left behind carries the same guarantee (`LateOK`), so that it may
  land at any later moment. The proof separates the steps no confirm takes
  (`OutsideInv`: such a step takes back no order and no confirmation) from the
  six that matter, and each of those only has to account for the request, the
  order or the late call it adds (`SagaStep`).
* `OrdersConfirmed`, `OneOrderPerStore`, `CheckoutAfterOrders`: the safety
  properties `OrdersOnlyForConfirmedPayments`, `OneOrderPerStorePerConfirm` and
  `CheckoutOnlyAfterOrders`, from `IInv`. The first and the last assume
  `~EmptyMessages`; the run `empty_message` shows that the assumption is needed.
* `StorefrontImplementsSaga`: `Spec => Saga!Spec`, under `~EmptyMessages`. A
  request at `createOrder` or `checkoutBasket` is a run of the saga; reading the
  breakdown begins it, an order of the loop places a line, the checkout closes
  the basket, every other end gives up; all else is a stutter. `IInv` supplies
  the confirmed payment a run begins with and the empty rest it closes with.
* `SessionTypes`, `SessionServesOwner`, `SessionRecordBacked`: `TypeOK`,
  `ServesOwner` and `RecordBacked` of `Session` for any number of tabs, users,
  logins and tokens. None is inductive alone: a record is written from a copy
  some request took earlier, so `SessionInv` says of every request, by its label,
  what it relies on (`RequestOK`): the copy it holds belongs to its session's
  owner and claims no more than the services hold, and nobody is in its context
  before the middleware has put someone there. A session id gets an owner once
  and the services take nothing back (`Grows`), so what the other requests rely
  on survives any step (`RequestKept`), and each action only has to account for
  the one request and the one record it changes (`OneRequest`).
* `DriftIsBounded`, `WholeCentsAreExact`: the two properties of the amounts for
  amounts of any size. The invariant says how each field was made (a rounding of
  one of the possible products, `FieldsRounded`); the rest is arithmetic about one
  rounding (`RoundNear`).

The guarantees for one tab, in `Storefront` and in `Session`. Both `OneTab`s are
formulas about the constants, not axioms: a theorem `ASSUME OneTab PROVE Spec =>
...` is about the instances that satisfy it. The runs `second_order`,
`unordered_item`, `stale_cookie` and `logout_final` show what a repeated confirm
and a second tab take away.

* `OrdersAsCharged`, `BasketsOrderedCompletely`, `SearchRecovers`
  (`OrdersMatchCharge`, `CheckedOutBasketHasItsOrders`, `SearchAddRecovers`), for
  one tab, no late effects, no confirm URL opened twice and services that answer
  with bodies; any number of baskets, transactions, stores and retries, and any
  loss of answers, also where PayPhone refuses with an empty message and the
  refusal is taken for an approval: the order then rests on no payment, but it
  holds what was on the page. `OneTabInv` follows the amount: what the page
  shows is in the basket (`PageOfCart`), what PayPhone was told is in it too while
  a confirm runs, and what is still to be ordered has no order yet
  (`ConfirmsCharge`); the copy of the cookie a request holds is of the same basket
  (`OfCookie`). It needs `IInv` for the kinds of the values and for what a
  confirm has ordered when it checks the basket out, and `TriedInv` for a new
  checkout's transaction to be one that nothing has been ordered under.
  Each assumption but the first was also dropped in TLC on the instance of
  `one_tab`: with an empty body, one late effect or a confirm URL opened again at
  least one of the first two properties fails.
* `NothingUntried`: `Spec => []TriedInv`, for any number of tabs and whatever is
  lost, late or refused without a message. Whoever is redirected, confirms, orders
  or is ordered for by a late call has tried to pay the transaction in question;
  statuses only move on (`StaysTried`), so each action only accounts for the page,
  the request, the order or the call it changes.
* `OneTabSessionStaysEnded`, `OneTabSessionTokenWhenDue`,
  `OneTabSessionOnboardingKept`, from theorems of `SessionProofs`
  (`EndedStaysEnded`, `TokenReplacedWhenDue`, `OnboardingKept`), for one tab and
  any number of users, logins and tokens. Nobody saves between the Load of the
  only request and its Save, so its copy is the record, or the record has expired
  (`CopyOK`), and its session has not ended; the two action properties are one
  fact about what any step may do to a record (`MayBecome`). The proofs are about
  `Session`; `PartsProofs` carries them over to the instance that `parts` checks,
  whose steps are the same (`SameStep`, `SameNext`).

The parts, each about the specification of its component in the instance that
`MCParts` names, with `PartsAssumption`:

* `OneButton` (`OneButtonAfterRecord`), `PatientShips`, `PatientPays`: any number
  of addresses and overlapping posts. `ButtonInv` ties the button to the first
  success on a page that was not left; `PatientInv` says that with one post at a
  time the cookie the button was made for is the cookie of the address then chosen,
  and that no later choice changes it.
* `CartWrongForAReason`, `CartShownUnlessFailedOrLate`: any number of products,
  clicks, posts and attempts, applied in time, twice or late. `CartInv` weighs what
  the page shows, or the snapshot its reload took, against the basket: a change by
  anyone but a post of the page becomes a reason (`CartMissed`), and so does a post
  that is handled too late (`CartServe`). The patient shopper's steps are steps of
  the other's (`PatientIsRace`), and `SettledInv` adds that nothing is overtaken and
  no other tab interferes.
* `ThemeShowsTheChoice`, `ThemeChoiceMends`: any number of tabs. A tab is up to
  date with what it has read so far in its load, or has been passed by (`ThemeInv`).
* `OrdersShowAPage`, `OrdersNoPageCutOff`, `OrdersCounterIsPage`: any number of
  orders and any page size. The first row is `(q - 1) * PerPage + 1` for a page `q`
  (`OrdersInv`); the two scripts' page counts agree because a quotient is the only
  number with its remainder (`QuotientIs`, `TimesGrows`).
* `ServerCleanShutdown`: any number of connections. `ServerInv` says what each
  value of the result channel means for the connections.
* `SearchRememberedTogether`: any number of tabs and terms, changing catalogue
  (`RaceInv`). `SearchLinksStay`: results in one tab at a time, any page size and
  any number of results; `CalmInv` says that what the tab shows is what the cookie
  remembers and that a page after the first has results on it.

And the specification that the run `parts` checks, in which they stand side by
side:

* `PartsInvariant`: `PartsSpec => []PartsInv`, the invariants above and the types
  of all parts. A step of the whole is, for each part, a step of its own or none,
  and whoever waits does what one who does not might do (`PartsSteps`,
  `PatientChoosesToo`, `PatientIsRace`, `EitherAsks`); `PatientInv`, `SettledInv`
  and `CalmInv` hold where the patient shopper acts.
* `PartsTypes`: `PartsSpec => []TypeOK`. The types are inductive only beside the
  other invariants: a page of results has no more pages than its bound because a
  search under way has a term (`RaceInv`) and quotients grow with their dividend
  (`MorePages`); a post of the cart is about a product (`CartInv`); the first row
  is a number because it is a page's (`OrdersInv`).
* `PartsPages`, `PartsServices`, `PartsMend`, `PartsSession`: the properties of the
  parts as properties of `PartsSpec`; those of the session for one tab.

Before it was proved, TLC checked each inductive invariant that is new to it on an
instance: `OneTabInv` and `TriedInv` on that of `one_tab` (also with empty
messages), `TriedInv` on that of `late_calls`, the session's on one tab, two users
and two logins, those of the parts on that of `parts`. `IInv` is an invariant of
two runs; the others are in no configuration, since the proof subsumes the check.

Only model-checked: liveness (`EveryRequestAnswered`, `RequestsAnswered`,
`StatusSettles`, `ClicksShow`, `SignalEnds`; the prover does not reason about
fairness). Every other property that a passing run checks is a theorem.

## Not modelled

* Most of `theme.js` (14 000 of the repository's lines of JavaScript), and the
  scripts under `vendors/`: a third-party theme transpiled into one file. Of its
  111 start-up functions almost all look for an element no template of this shop
  has (charts, maps, calendars, chat, kanban, editors, demo tables) and return,
  so there is no state of this program in which they do anything. Those that do
  run and keep state are modelled (`CartPage`, `OrdersList`, `ThemeControl`);
  the others that find an element only decorate it (the wizard's step markers,
  tooltips, the slider and gallery of the product page, the typed headline and
  the navbar's colour on the landing page, input masks, the date picker). The
  share of JavaScript lines behind the models is therefore small, and more of
  them could only be modelled as code that never runs here.
* Signup, activation, forgotten and reset passwords: each is one call of the
  users service and leaves neither record nor cookie behind; `UpdateAddress` and
  the done page likewise.
* The orders handlers and the reading of products: they read and render. An
  orders page without orders has no pager (the list library fails at start-up).
* In `CartPage`, a confirm in another tab that replaces the basket (`Storefront` has
  it); in `ProductSearch`, a typed page that is no positive number; in `Server`,
  `cfg.Stop` and the wait for `a.wg`, to which nothing is ever added; in
  `Storefront`, the retries of PayPhone's confirm, which is idempotent there, and
  the cookie of a second Save whose response fails.
* The number of addresses a user has; a retried `InsertAddress` may store one
  twice.
* Rendering, forms, validators, password rules and logging: stateless.
* The vendored HTTP client and admin token cache are represented by the outcomes
  of a call; back-off and deadlines are not.
* CSRF and cookie signing (libraries), security headers, panic recovery, metrics.

## What could follow

The vendored HTTP client: its retry loop against the deadline, and the token cache
with its single flight, now stand behind the outcomes of a call. The theorems for
one tab assume that no effect is late; when a late effect does no harm is a question
that neither the runs nor the theorems answer.
