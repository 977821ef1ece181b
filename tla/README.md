# Take A Sip: verification project

TLA+ models of the Take A Sip ordering system, TLC runs that check them on small
instances, and TLAPS proofs of the results that matter most for every instance.
Paths below are relative to the repository (`src/` is its root).

## 1. The system

Customers order drinks and desserts with a mobile app; a shop tablet (the
"frontdesk", a Sunmi device with a receipt printer) accepts the orders; drivers
deliver them; an admin web and admin screens in the mobile app manage the menu,
promotions, staff and the store. All of them talk to one FastAPI backend over
PostgreSQL.

| Component | State | Operations | Talks to |
| --- | --- | --- | --- |
| Order lifecycle (`backend/app/services/order_service.py`) | `orders`, `order_items`, `order_events`, `order_ratings` | checkout, reorder, accept, assign driver, set status, rate, lists and analytics | store switch, promotions, claims, users; emits broadcasts and pushes after the commit |
| First-time offer claims (`offer_identity_service.py`) | `first_time_offer_claims`, keyed by phone fingerprint | claim with `ON CONFLICT DO NOTHING`, look up | checkout, finished orders, account deletion |
| Promotions (`promotion_service.py`, `promotion_rules_service.py`) | `promotions`, rules, loyalty | evaluate for a cart, administer | checkout |
| Store switch and hours (`store_service.py`) | one `store_settings` row | set the switch, set hours and minima, check while ordering | checkout |
| Accounts (`user_service.py`) | `users`, `user_events` | ban, unban, create staff, archive, delete | everything that authenticates |
| OTP login (`otp_service.py`, `sms_service.py`) | `otp_challenges`, keyed by phone | send, verify, clear | SMS provider |
| Sign-up, tokens, deletion (`auth_service.py`) | `user_refresh_tokens`, `users` | verify OTP, refresh, kiosk login, delete account | OTP, claims, push tokens |
| Row policies and sessions (`core/deps.py`, `core/database.py`, migrations 0020 and 0022) | the role and settings of a database session | authenticate, activate, reset | every request |
| Push notifications (`notification_service.py`) | `user_push_tokens` | register, deactivate, dispatch | FCM, APNs |
| Frontdesk websocket (`websocket/manager.py`) | a set of connections per channel | connect, disconnect, broadcast | order routes |
| Response cache and rate limiter (`core/cache.py`, `core/rate_limit.py`) | dictionaries in the process | get, set, delete; count and prune | public routes; every request |
| Menu, schedules, delivery bands (`menu_service.py`, `delivery_service.py`) | menu rows, schedules, bands | edit, availability, fee lookup | checkout |
| Frontdesk tablet (`frontdesk/src/hooks/useFrontdeskOrders.ts`) | the board of orders, alerts, failed prints | push handlers, poll, buttons | orders API, pushes |
| Mobile session (`mobile/src/services/http.ts`) | tokens, one shared refresh | retry after 401 | refresh endpoint |

What makes it hard:

* Requests run concurrently, each in one `READ COMMITTED` transaction. Orders are
  read without a lock and written back by primary key, so a request may act on a
  snapshot another one has made stale. Only three things are locked: the customer's
  `users` row while an order is created, the settings row (`FOR SHARE` by checkouts,
  `FOR UPDATE` by the switch), and an OTP challenge.
* Rules span tables and requests: one active order per customer, one first-time
  offer per phone, an audit trail that mirrors the row.
* Constraints and row policies in the database, not the code, decide some races:
  unique claims and ratings, `ON DELETE SET NULL` on drivers, the drivers' update
  policy.
* The clients handle asynchronous answers that arrive in any order, lost pushes,
  expired tokens.

What makes each component correct, in short: an order's status agrees with its
type, its driver, its timestamps and its history; a customer has one order in
progress; the first-time offer goes once, to a first order; a pause waits for
running checkouts; a driver changes only their own order; an OTP locks after its
attempts; a login has one redeemable refresh token and a session survives concurrent
refreshes; the tablet's board converges to the open ones among the newest orders; caches do
not outlive their data; what the public menu shows is what checkout accepts and what the
admins' screens say; what the phone shows and enables is what the server charges and
takes. `PROJECT.json` lists the hazards behind these at their lines, with the property
that covers each or the reason none does.

## 2. Modules

| Module | What it is |
| --- | --- |
| `CustomerOrders` | The promise to the customer: an order is placed by a customer with none open, stays open until fulfilled or cancelled, and is then never touched again. |
| `OrderLifecycle` | The backend's orders: every request that writes an order, as a step that reads and validates and a step that writes; plus accounts and the store switch. |
| `OrderScreens` | What the tablet and the phone apps of customer, driver and admin make of an order: lists, copies, buttons, the dashboard's figures. |
| `FrontdeskBoard` | The shop's tablet: its board of orders fed by pushes, polls and answers, and the receipts it prints. |
| `OtpChallenges` | Login codes of one phone: sending, verifying and clearing them, against the clock. |
| `Sessions` | Refresh tokens and the customers' app that keeps and shares them. |
| `ResponseCache`, `RateLimiter`, `Broadcast`, `PushTokens` | The small parts every request shares. |
| `Accounts` | The rows of users: sign-up, bans, staff, deletion, and the welcome offer they decide. |
| `MenuTree` | The menu's five levels and its schedules, the public menu and the checkout's rule. |
| `MenuScreens` | The preview of the admin app and the badges of both menu editors. |
| `MenuProductEditor`, `ScheduleEditor`, `MobileMenuEditor`, `WebMenuEditor` | The four editors, each with a copy of the menu that others change. |
| `StoreHours` | The weekly table, the status it gives at a moment, and the phone that follows it. |
| `Offers`, `OfferEditor` | What promotions take off a cart; the admin's editor of them. |
| `DeliveryBands` | Distance bands and their overlap check. |
| `Cart`, `Checkout` | The phone's cart and checkout against the server that takes the order. |
| `MCOrderLifecycle`, `MCServices`, `MCAccounts`, `MCMenu`, `MCCheckout` | Instances for TLC: values, symmetry, views, and which part a behaviour takes. |
| `OrderSafetyProofs` | Types, and what holds however requests about an order overlap. |
| `OrderSerialProofs` | What holds when requests about one order do not overlap, and the refinement of `CustomerOrders`. |
| `FrontdeskBoardProofs`, `OtpChallengesProofs`, `SessionsProofs`, `ServiceProofs`, `MenuProofs`, `CheckoutProofs` | Invariants and proofs of the tablet, the codes, the sessions, the five services, the menu with its editors, and the bands, fees and hours. |

`OrderScreens` extends `OrderLifecycle`; `MenuScreens` and the editors extend `MenuTree`
and take steps of it as the requests they send and as what other admins do; `OfferEditor`
extends `Offers`; `Checkout` extends `Cart` and `DeliveryBands`.

### OrderLifecycle and the code

State: `status`, `orderType`, `owner`, `driver`, `completedAt`, `rated` are the
columns of `orders` (and the existence of an `order_ratings` row), as functions of
the order's id; `welcome` records that a first-time offer was applied; `audit` is
what replaying the order's events gives; `claims` is the claims table by customer
(a customer stands for their phone); `account` folds `is_active`, `is_banned` and
the existence of the row; `ordering` is the switch, or "missing" before the
settings row exists; `txn` is the request each database session is serving, with
the snapshot it took and the values it will write.

A request is two steps. `Begin...` authenticates, reads and validates as the handler
does; a request the handler refuses changes nothing and is no step. `Commit...` is
the flush and commit: SQLAlchemy writes only columns whose value differs from the
snapshot's, by primary key, whatever the row holds by then. The order's event is in
the same commit. `Rollback` ends any request without effect: lost connection,
violated constraint or policy, refusal after a lock was granted. The retry after an
order-number conflict is a `Rollback` followed by a new `Begin`.

Checkout has three steps, because it waits for the customer's row lock in the middle
(`BeginCheckout`, `LockUserForCheckout`, `CommitCreate`); the settings row is locked
`FOR SHARE` from the first and the customer's `users` row `FOR UPDATE` from the second.
Inserts whose foreign key names the actor take `FOR KEY SHARE` on that row and so wait
for a running checkout of the same customer (`ActorRowFree`).

Abstractions, and why they lose nothing the properties see:

* Menu, schedule, quantity, minimum and address checks can only refuse a checkout;
  prices and items are left out. Whether a promotion of the first-time kind is running
  and is the best one is a free choice.
* A ban and an archived account have the same effect on requests: "blocked". Staff
  accounts are stable. Reading and writing an account in one step is equivalent, as
  its writers overwrite the flags with constants.
* The claim insert is part of the commit: its row is invisible to others before it,
  and an insert that conflicts waits for the other to end.
* Working hours are time only; like the pause they refuse checkouts.
* A driver cannot read the customer's row under the row policies, so a delivery
  finished by a driver writes no claim (`order.user` is NULL for them).
* Deleting an account and signing up again with the same phone need identities apart
  from phones; they are the subject of `Accounts`.

`OneRequestPerOrder` is an assumption about the environment that nothing in the code
enforces: when TRUE, requests about one order do not overlap. Checkouts overlap them
in either case. Properties are split by it: those that hold however requests overlap
are checked and proved with it FALSE or free; those that need it are the measure of
what the missing row lock on `orders` would buy.

### FrontdeskBoard and the code

State: `board` is the array `orders` of `useFrontdeskOrders`, as the status on each
order's card; `load` is `loadInFlightRef` and the list on its way; `call` holds the
requests about single orders (a fetch after a push, a button, the second fetch after
an acceptance); `receipt` folds the queue `failedPrints` and whether a receipt came
out; `pushes` are the notifications on their way; `srv` and `placed` are the orders on
the server and the sequence they were placed in.

The tablet asks for the 50 newest orders (`useFrontdeskOrders.ts:112`), and the server
lists the newest of any status (`list_latest_orders`), so `Newest` has at most `Limit`
orders, finished ones among them. An open order behind that many newer ones loses its card
with the next list, or never gets one. What the board promises is stated with that:
`BoardAgrees` allows an order that is not among the newest to have no card, never a wrong
one, and `NewOrderShown` speaks of an order as long as it is among them.

A request is two or three steps: it is sent, the server carries it out (`Serve`,
`ListOrders`), its answer is handled (`Receive`, `ShowList`). `Fail` and `LoadEnds` may
come before or after the server's step: the request or the answer was lost.
`PrintAccepted` follows an acceptance whose answer came. `LoadEnds` is the `finally`
of `loadNewOrders`, after the drivers or after an error, also one of status 401 with
its session recovery.

Abstractions:

* ACCEPTED to OUT_FOR_DELIVERY are one status, "OPEN": the board treats them alike, but
  for which of the buttons of an open card is offered, and the server refuses a wrong
  one.
* A push stays on its way after it was handled, as it may be late, lost or repeated.
  Reorders, for which the backend sends none, are among the lost ones.
* `srv` follows the order statuses as one request after another leaves them; their
  overlap is the subject of `OrderLifecycle`. A request the server carries out after the
  tablet gave up waiting is a change made elsewhere.
* Time in the background only puts the poll off. The alert loop follows the NEW cards
  and has no state of its own that matters here. Drivers, banners, the printer test,
  the registration for pushes and the tablet's session are left out.
* `printOrder` fetches the order first and prints what it has when that fails; the
  fetch changes nothing on the board.

### OtpChallenges and the code

State: `challenge` is the phone's row of `otp_challenges`, with a serial in place of the
code's hash; `holder` is the request whose transaction holds the row's lock; `req` is
what each request is doing, with its reading of the clock and the row it found; `sms` and
`uses` record what became of each code.

`generate_and_store` is `BeginSend` (the clock is read first), `LookForSend` (the row is
locked, if there is one) and `ReplaceRow` or `InsertRow` (the commit, or the violated
key); `send_otp` goes on with the SMS, which is taken, refused, or never reaches the
provider, and `Clear`. `verify` is `LookForVerify` and `Check`, which acts on the row
that was found, as the code does: only the lock makes it the row that is.

Abstractions: whether the code that was typed is right is a free choice. Phones share
nothing but the process' dictionary of codes for tests, which is left out, as are the
accounts that bypass the code and the rate limiter in front of the routes. Times are
ticks; NULL in `locked_until` is 0.

### OrderScreens and the code

`OrderScreens` has no actions of its own. Its operators are the lists the routes serve
(`LatestOrders`, `DriverLatest`, with READY shown as ASSIGNED to an app that does not
know it), the conditions under which each screen offers a button, and the rules by which
the server takes the request behind it (`MayAccept`, `MayAssign`, ... of
`OrderLifecycle`). A copy is as just loaded; stale copies are `FrontdeskBoard`'s.

### Sessions and the code

State: `account` and `grant` are users and `user_refresh_tokens` (a grant keeps the login
it descends from); `srv` the server's transactions; `store`, `header` and `ui` what the
phone has in secure storage, in its HTTP client and on screen; `call` the app's requests
and `renewal` the promise they share in `http.ts`. `refresh_session` reads the token
without a lock and revokes it later, so it is two steps (`ReadGrant`, `RotateGrant`, with the
flush between them). `OneRefreshPerGrant` says that no two refreshes of one token are at the
server at the same time; nothing in the server enforces it, the app's shared promise does
unless the app is killed and started again within one round trip.

On the phone every wait for the server or for SecureStore is a point where the user, another
request or a kill comes in. A sign-in shows its user and sets the header at once (`SignedIn`)
and stores the tokens later (`StoreSignIn`, while `storing` has them); a logout, a deletion or an
expired session empties header and screen at once and the store later (`ClearLocalSession`,
then `ClearStore`; `removals` counts those to come); a failed refresh removes the stored
tokens, and then header and waiting requests hear of it (`DropTokens`, `GiveUp`); a logout has
work of its own before it ends the session, whoever's that is by then (`Logout`, `EndSession`).
`SignIn` starts whatever is still under way. An access token is its user's name; any request
may be answered 401, so when a token runs out need not be said.

What an earlier session left when a code is accepted is remembered in `overlap`, because the
races are real: a refresh that returns after a logout puts tokens back into the store, where
`docs/deployment-readiness.md:101` calls logout the removal of the tokens on the client; a late
refresh, removal or `EndSession` hits the session of the next user; an old request is sent again
with the new user's token. `ActsAsSignedIn` promises a user's own tokens only where nothing was
left, and a token in the header in any case.

Left out: the two keys of a session are written one after the other, and are one write here;
failures of SecureStore; `updateProfile`, which sets the user it was answered with; tokens
of a format older installations had.

### The services and the code

* `ResponseCache`: a miss reads and then stores; an edit commits and then drops the key of
  its own kind only. A copy carries its age, for how long the database has disagreed with
  it, instead of its contents.
* `RateLimiter`: `_resolve_limit` and `enforce_rate_limit`, with buckets whose window
  begins at their first request and pruning above a size. The admitted requests of the last
  window are kept as history, for the property.
* `Broadcast`: `broadcast` awaits between two sends and loops over the live set; a change of
  its size raises, as in Python.
* `PushTokens`: one token per installation; register, take-over, deactivate, dispatch with
  answers of any kind, and the retirement of dead ones committed later.
* `Accounts`: a request reads and then commits only the columns it changed. Signing in is
  one step. A driver's completion sees no customer because of the row policies. Profile
  names, `user_events` and ratings are left out, as is the expiry of tokens, which is in
  `Sessions`. At most one bypass account per telephone.

### The menu and the code

`nodes` holds every row of the five levels with its parent and its switch; `schedules` the
windows on them. `MenuTree(now)` is `get_menu_tree` with its pruning, `LineAccepted` and
`AddonAccepted` what `order_service` accepts; `now` has seconds where the server's clock
has, since stored times are whole minutes. Requests are atomic, with two exceptions. The creation
of a schedule looks for its target and inserts later (in `ScheduleEditor`). A deletion selects the
rows of the tree and their schedules (`LookForDelete`) and deletes and commits what it selected
(`FinishDelete`), without a lock, and schedules have no foreign key to their row
(`menu_service.py:464-486`): every request may come in between, and a schedule made then, or
whose row was moved there then, stays behind without its row. `SchedulesHaveOwners` excepts these
and no others; `deletions` are those under way.

The preview of the admin app goes by the phone's own weekday, time and timezone, to the minute
(`AdminWholeMenuPreviewScreen.tsx:90`, `adminMenuPreview.ts:40-44`), the server by the store's,
to the second. `PreviewMenu` takes the phone's reading (`PhoneClocks`), and what is claimed is
that it shows what the server shows when the store's clock reads the same (`StoreReading`): in
another timezone that is the menu of another hour. The screen also does not look at the clock
again until it is opened or its menu is loaded anew.

* `MenuProductEditor`: the draft is saved row by row from the top, each after the answer to
  the one before; a failed save leaves rows behind, and they are made again by the next one:
  such duplicates are not counted by any property. The screen stays usable while it saves:
  `draft` is what it shows, `saving.sent` the draft as it was when save was pressed, which is
  what is saved; what is typed meanwhile is lost when the screen closes. It can be left, too,
  and the save goes on; it is opened again once that save is over. That the save then closes
  whatever screen is in front is not modelled.
* `ScheduleEditor`: the menu is read again and one request per target sent at once; the
  first failure ends the save on screen while others are under way, and the rows those make
  are made again when save is pressed again: left-over rows of failed saves are not counted.
  Every field and the way back stay usable while it saves (`screen`), and the save goes by what
  the form said when save was pressed (`form`): what is typed meanwhile is lost when it succeeds,
  and is what the editor goes on with when it fails. The editor is opened again after a save that was
  left is over; that such a save closes another screen is not modelled. The list's buttons act on listed
  schedules only, and nobody switches or deletes the rows of the save under way before it is
  over. The modes for types, sizes and addons behave as the one for a product.
* `MobileMenuEditor`: loads overlap and answer in any order; one alert, one request at a
  time, single or for a selection; a deletion is the server's two steps. That a toggle reads
  and writes without a lock on the server is left out.
* `WebMenuEditor`: a page with parents in hand, a form and a dialog over an old copy; a
  request and its answer are one step, but for the deletion's two; an answer may be lost. The
  counts in the delete dialog are left out.

Names and prices are read by none of these decisions and left out.

### Hours, offers, bands, cart and checkout, and the code

* `StoreHours`: `evaluate_working_hours` over a week of `WeekDays` days of `DayLength` ticks,
  with openings past midnight; the phone keeps the last answer, sets a timer for the next
  change, asks again on return and on focus. Answers are late (`MaxDelay`), lost or out of
  order. The clocks agree.
* `Offers`: eligibility, targets, the discount of each type and which offer wins; amounts in
  hundredths, rounded as the code rounds. `FIRST_TIME_FREE_ITEM` without targets is eligible
  for no cart, though `promotion_service.py:165-168` words it "One free item from any menu
  item". The `is_active` of a loyalty rule is read by nothing.
* `OfferEditor`: the admin's form, its summary and what it sends. `SameOffer` compares what
  two rows take off every cart of every customer, which is what "as shown" means. `editor` is
  the screen and `sent` the form as it was when save was pressed, which is what the save checks,
  regroups and sends while the screen can be typed in, cancelled, deleted from or left. Lost
  requests are modelled (`SaveLost`), lost answers are not. Until a save that was left is over the
  admin does nothing else with offers; that it then closes another screen, and the preview of
  the whole menu opened during a save, are not modelled.
* `DeliveryBands`: a request reads, checks and commits in separate steps; nothing but the
  band's own row is locked.
* `Cart`, `Checkout`: lines keep the size they were added with; the fee is asked for whenever
  place or type changes, answers to earlier places may be late; the button needs cart,
  minimum, address and fee; the server decides from what it then holds. The length limit of
  addresses and the preview of offers in the cart are left out; offers and hours are in
  their own modules.

## 3. Runs

| Run | Instance | Shows |
| --- | --- | --- |
| `orders_overlap` | 1 customer, 2 drivers, 1 staff, 1 order, 2 sessions, overlap allowed | Dispatched orders keep a driver; the buttons of all screens send what the server takes; no order is stranded |
| `orders_serial` | the same with 2 orders and no overlap per order | One active order, the audit trail mirrors the row, the first-time offer goes once and to a first order, the dashboard accounts for deliveries, and `CustomerOrders` is implemented |
| `tablet_board` | 2 orders, one of them a delivery, a list with room for 1, 1 request | The board converges to the open ones among the newest orders, a new one among them is shown without its push, receipts follow acceptance |
| `login_codes` | 2 requests, 3 codes, 5 ticks | Attempts are never overdrawn, a code logs in once, locks last |
| `sessions` | 2 people, 2 tokens, 2 requests, 1 database session | One redeemable token per login, the app acts as who it shows unless an earlier session left something, waiting requests are released |
| `services` | see `MCServices` | Stale answers are bounded and edits reach the cache; limits per window; broadcasts that complete reach all; confirmed phones stay reachable; one welcome per telephone, order history kept, deletions hold |
| `menu` | 1 section, 2 products, 2 options, 2 variants, 1 add-on; 2 days of 3 minutes | The public menu, checkout, preview and badges agree; schedules have owners; editors save what they showed when save was pressed; a bulk change means all; only moves move |
| `checkout` | 2 days of 3 ticks; 3 variations; 2 bands, 2 places | The phone knows the hours; an enabled button is accepted; the fee shown is charged; bands stay disjoint; more offers never cost more; offers are saved as shown |
| `two_active_orders` | 2 orders, 2 sessions, overlap | Finding: a customer ends with two active orders |
| `stuck_quote` | as `checkout` | Finding: the fee is "being calculated" and nothing asks for it |
| `disable_enables` | as `menu` | Finding: a confirmed "Disable" enables |
| `welcome_again` | 3 people, 2 orders, 1 request at a time | Finding: a deleted customer gets the first offer again |

Each property of a passing run has a mutant in `PROJECT.json`: a definition of the
model changed the way a plausible bug would change the code, under which TLC finds the
property violated.

Bounds of the orders. Two sessions are the smallest number that race; every hazard of the
orders needs two requests in flight at most, with the others finished before or after. Two
drivers are needed for reassignment, two orders for the one-active-order rule and the
reorder. One customer is enough because orders of different customers share no row but the
settings and their drivers. Nothing else is bounded: there are no counters. Orders, drivers
and sessions are interchangeable (`SYMMETRY`); customers and staff are single.
`orders_overlap` takes states that differ only in `audit` for one (`VIEW WithoutAudit`): no
action reads `audit` and no property of that run mentions it. Deadlock is checked: a request
can always be rolled back and the switch always set.

Bounds of the tablet. Handlers meet on the card of one order; the second order is there to
push the first off the list, which has room for one as the real one has for fifty. One request of
the tablet at a time, besides the list and the pushes: a card is changed by the answer to a button,
by a push, by the list or by an order's fetch, and each of them is met by each other one but two
requests about single orders, which the proofs cover with any number (`BoardStaysBehind`,
`ReceiptsFollowAcceptance`). An order moves through finitely many statuses, so the server's
changes end, and convergence is about what follows.

Bounds of the login codes. `MaxTime` stops the clock and `MaxIssued` the codes. A code
lives two ticks, its lock three, the cooldown is one: in five ticks a lock begins and
ends, and every order of expiry, cooldown and lock occurs. Two requests race; three codes
are one more than they can store at the same time. `Ttl < LockTime` is how the settings
are shipped (5 and 15 minutes). Without it a lock runs out while its code still lives, and
each such time the code is compared once more: `attempts_remaining` falls below zero.

Bounds of the sessions. Two people, so that a sign-in after a logout can meet what was left
of the other; two tokens, so that a login is rotated or another begins; two requests
that share a refresh, one of which may be a logout or a deletion. With one slot requests at the
server follow one another; answers still come after the app has moved on. Proofs cover any
number.

Bounds of the services. They share no state, so a behaviour is one of them (`part`). Copies
live two ticks and reads take one; a window has three ticks, limits are 1 and 2, pruning
begins at 2; three sockets and two broadcasts, two installations, three people with two
spellings of one telephone and the kiosk's number. `MaxServed` bounds the requests about
accounts. Deadlock is not checked where such a bound stops the system.

Bounds of the menu. A behaviour is the menu under every request of the admins, or one
editor, with what others do behind it. `SmallMenu` keeps one product with one variant at
a time and schedules that differ; `SmallShop` and `MaxChanges` bound what changes behind a
page or list, `OneInHand` has the admin do one thing at a time, `OneEdit` allows one change
of the menu while schedules are saved, and none of the second product. There are two timings in
the schedule editor, and the second is for the whole menu (`TimesOfTheMenu`); during a save of a
product its name is emptied or it gets an option (`OneTyped`). One deletion is under way at a
time, and then nothing is switched off. The proofs have none of these bounds. Options and
variants are interchangeable.

Bounds of the checkout. A behaviour is the hours, the offers, the bands, or the checkout with
one emphasis: `Filling` fills carts of several lines while the menu changes at most twice (a
limit goes and comes back), `Shopping` goes through the screens with one line and at most one
change of store or menu, `Quoting` lets answers about the fee race with changes of the bands.
`MaxAsked` and `MaxDelay` bound requests for the status and their lateness, `MaxQuotes`,
`MaxPlacements`, `MaxEdits` and `MaxRequests` count what is asked and saved. During the save of
an offer the admin leaves, cancels, deletes or switches it on or off (`Offering`): any field
would do, as the save reads none of them. One admin changes bands at a time: two can overlap
them (section 4).

Fairness. The orders, codes, services, menu and checkout state none: requests come when
people send them, and their properties are safety. `FrontdeskBoard` assumes that every
request ends (the HTTP client gives up after 20 seconds), that the poll's timer fires, both
weak fairness, and that a list asked for again and again arrives at last (strong fairness of
`ListOrders` and `ShowList`): the network is not down for ever. Nothing is assumed of
pushes or of people. `Sessions` assumes, weakly, that the server finishes what it began,
that every request is answered or given up by the HTTP client, and that the app's own
continuations and writes to its store run (`Renew`, `Write`); strongly, that a refresh finds a slot
to be sent (`Post`), as slots are few in the model only; nothing of people, nor that a refresh succeeds.

### Findings

* `OneActiveOrder` (run `two_active_orders`, `order_service.py:150`): the shop reads an
  order as NEW, the customer cancels it and orders again, and the stale acceptance revives
  the first: two orders are in progress. Locking the row when it is read removes it.
* `CalculatingMeansAsked` (run `stuck_quote`, `CheckoutScreen.tsx:307`): pressing delivery
  when it is already chosen empties the fee, and the effect that asks for one depends on
  place and type, which did not change. The screen goes on calculating.
* `AlertSaysWhatIsDone` (run `disable_enables`, `AdminMenuEditorScreen.tsx:278` with
  `admin.py:544`): the alert is worded from the list's copy, the request only says toggle.
* `DeletedCannotReclaim` (run `welcome_again`, `auth_service.py:451`): a deletion keeps a
  claim only for orders finished by then. One that finishes afterwards leaves none, and the
  telephone gets the first offer again, in an account that was signed up with it in another
  spelling before the deletion, as in the trace, or afterwards.

Other weaknesses met on the way, which are the reason for an assumption or an exception in a
property: what is left of a session can overwrite the tokens of the next one (`overlap`); a
schedule made while its row is being deleted is left without it (`SchedulesHaveOwners`); an open
order behind fifty newer ones is not on the tablet (`BoardAgrees`); the preview goes by the
phone's clock and timezone (`PreviewIsPublic`); without a lock on `orders` a transition that the
table forbids can be committed (`OneRequestPerOrder`); two admins can make active bands overlap
(`OneBandRequest`); two refreshes of one token at the same time leave two redeemable tokens
(`OneRefreshPerGrant`); the admin phone offers "ready" for an order whose driver's account was
deleted, which the server refuses (`ButtonsAccepted` says so); a line of the cart that was
filled while its size had no limit can be clamped to no units and kept (`CartContext.tsx:66`),
and the server refuses a quantity below one (`schemas/order.py:16`): `EnabledIsAccepted` is
stated for carts without such a line (`NoEmptyLine`). The proof of it found this one, and TLC
has the behaviour once the menu may change twice. The proof of `SavedAsShown` found another: the
server takes one pool of units when both sides of a buy-and-get offer name the same targets
(`promotion_service.py:779`), and compares the targets as they are stored; the preview of the
editor has expanded sections into items before. A stored offer for a section on one side and its
items on the other, saved with its targets untouched, is therefore counted differently from what
the preview shows; `SidesNamedAlike` excludes it.

## 4. Proofs

TLAPS checks every theorem from the assumptions named in the modules, which say that kinds of
ids are disjoint, that bounds and periods are numbers and that tables have the right form. The
sets may be of any size, infinite ones included unless said otherwise: the dashboard's sums are
over finitely many orders and drivers (`FiniteTables`). `PROJECT.json` lists the theorems.

`OrderSafetyProofs`. `TypeCorrect` first: one step per action, by lemmas about the record each
first step leaves in its session. The safety properties are not inductive: a request in flight
may hold a snapshot that no longer agrees with the row. The invariant `Safe` adds what such a
request may still rely on (`RequestFacts`): the type of its order never changes, an order that
once had a driver loses it only by a deletion, a stamped order stays stamped, and what the
request will write fits those monotone facts. `RowFacts` is the same for the rows. `FactsKept`
says which directions of change leave the facts of every other request true; each action's step
checks that it moves in them. From `Safe` follow `StatusFitsTheType`, `FinishedIsStamped`,
`DispatchedKeepsADriver`, `RatedDeliveryWasDelivered`, `OfferGrantedOnce`, `PauseWaits`, and, by
cases over screens and statuses, `ButtonsPass` and `NobodyStranded`; the action property
`DriverChangesOwnOrderOnly` follows from the row policy in `CommitUpdate`. Several of these are
proved and no longer run.

`OrderSerialProofs` assumes `OneRequestPerOrder`. Its invariant `Serial` says that the
snapshot of every request in flight is true (`SnapshotHolds`), that no two requests are
about one order or create for one customer, and that history agrees with the row except
for drivers deleted since. From it follow `OneOrderAtATime`, `HistoryIsReplayable`,
`StampMeansFulfilled`, `OfferGoesToFirstOrder` and `BackendKeepsPromise`, which maps
each step to a step of `CustomerOrders` or to a stutter under `Stage`. `ReportsAddUp`, about
the figures of the dashboard, needs besides that only an order which was given out names a
driver (`HandedOut`); then the sum over the drivers is the number of completed deliveries
(`CreditedOnce`).

`FrontdeskBoardProofs`. That a card is not ahead of the server says nothing of the
answers and lists that will replace it. The invariant `Old` says of everything the
tablet holds or has on its way what `BoardNotAhead` says of cards; `OrdersMoveOn` shows
that the server never takes back what such knowledge rests on, and `StillOld` reduces
each action to what it changes. `BoardTypeCorrect`, `BoardStaysBehind` and
`ReceiptsFollowAcceptance` follow, for any number of orders and requests and any
length of the list.

`OtpChallengesProofs`. The invariant `Inv` says that the snapshot of whoever holds the
row's lock is the row (`LockFacts`), that a request's clock is behind (`ClockFacts`), and
that a row without attempts is locked for longer than its code lives (`RowFacts`), which
rests on `Ttl < LockTime`, assumed in `OtpConstants`. `RowChanges` lists what a step may
do to a row that is there; the two action properties follow from it.

`SessionsProofs`. `Inv` has a half for the backend and one for the phone. `ServerInv` ties
every transaction to the owner of its token and, where `OneRefreshPerGrant` holds, says that a
refresh that has read its token is the only one of its login and that the login has no other
token (`RotationFacts`). `PhoneInv` says that somebody who is shown has a token in the header
and that, if nothing of an earlier session was left, everything the phone
holds, sends, stores or waits for is of one person and no removal is to come (`Presence`), that
at most one call of refresh and one of sign-in is awaited (`WaitFacts`), and what a restart may
have under way (`RestoreFacts`). The point is that a session that begins with nothing left
stays free of foreign tokens, whatever its own refreshes, failures and restarts do.
`ActsAsSignedIn` holds with no assumption on the server; `OneLiveGrantPerLogin` needs the
assumption, as the server takes no lock.

`ServiceProofs` has one invariant per service. The age of a copy is bounded by the read that
filled it and the part of its life that is over (`CopiesAge`). An admitted request is of the
running window or of the one before, which ended when the running one began (`AdmissionOK`), and
no two have the same place in one (`OnePerPlace`): so a client gets twice its limit through at
most in any stretch as long as a window; the places are counted by an injection. A broadcast
nobody joined runs over what is left of the set it began with (`LoopFacts`), which must be
finite. What was confirmed of an installation holds until its user leaves (`AppFacts`). Every
welcome price left a claim on the telephone it was given to (`WelcomesClaimed`), which no
deletion removes.

`MenuProofs`. `MenuInv` says that the menu is a tree (`NoOrphans`, `Placed`) and of each deletion
under way that what it found are the schedules it saw of the rows it read (`DeletionsOK`):
`NoScheduleIsLeftBehind` follows for any number of them at a time. On a tree the
rows of the public menu are those with a variant for sale below them (`PublicRows`,
`ForSale`); checkout, preview and badges are each shown to compute the same. For the editors
`ListInv`, `PageInv` and the schedule editor's invariant let other admins take any step of
`MenuNext` behind the copy: a bulk change done is done for every row (`BulkMeansAll`),
nothing but a Move moves a row, and a schedule save taken for finished has made the rows the
admin meant when save was pressed and no others (`MadeAsMeant`, `SavesNumbered`), also after
failed ones and whatever was typed since. The product
editor has nobody else at work while a product is open (`BetweenProducts`), as in the run:
what the draft on the screen and the one being saved know of the server's rows is true
(`TrueDraft`), and every row already written is below its parent's (`SaveOK`), whether or not
the screen is still there. Since `DraftTables` says that a parent comes before its
children, the id a new row hangs from is always there, and `SavedProductIsWhole`
follows for drafts of any size.

`CheckoutProofs`. `BandsOK` says of each request that changes a band that the fields it leaves
alone still are as it read them, or the band is deleted, and once checked that it overlaps no
other. It needs `[]OneBandRequest`: nothing locks, and two admins who each check before the
other commits make two bands that overlap. `OneFee` turns disjoint bands into one fee per place;
`QuoteOK` and `PlacementOK` say that an answer about an earlier place is never applied as one
about the present, so `FeeIsCharged`. The hours are proved over arithmetic of days: `StatusAt`
is the status at any moment, `StaysOpen`, `StaysClosed` and `TickKeeps` say that it changes at
the moment it announces and not before, `WeekShift` and `SameNextWeek` carry that across the end
of the week, `LeastNat` gives the next opening. `HoursOK` says that every answer on its way and
what the phone holds is true as long as its moment is ahead (`Saying`), and that a phone whose
moment has passed has a timer, a question under way or an answer that is newer (`Waiting`):
hence `PhoneKnowsTheHours`.

`ButtonIsAccepted` compares what the cart and the server each add up. A fold over a finite
set is a table over its subsets (`IsSums`, `SumsExist`), and two facts about tables are
shown on a smallest set where they fail (`SmallestSet`), which replaces the induction the
prover lacks: `SumsAgree` and `SumsAdd`. `ItemsOK` says that the lines of a size that share
a limit are within it together; `ClampedLine` shows that adding to a line keeps that, and
`UpToDateAccepted` that with `CartOK`, `FeeIsCharged` and a fresh menu every test of the
server passes.

The offers rest on three assumptions about tables: `OfferTables` (rows and prices have their
form, what runs beside an offer is finitely many accepted rows), `SectionsAndItems` (a line is
of a section exactly when it is of one of its items) and `EditorTables`. `OffersOK` says that
the stored row was accepted (`SoundRow`), while the editor is open that the row is the one it
was opened on and that the menu has only lost entries since (`EditorOK`), and the same of the
save under way, which passed the editor's checks when it was started and whose row may have been
deleted since (`SentOK`). `OneMoreRow` turns soundness into `OffersAreGifts`: every discount is
a number (`CheapestNat`, `DiscountInt`, again over tables of sums), the largest of more
discounts is no smaller, and free delivery is never lost. For `PreviewIsWhatIsSaved`, which is
about the form as it was when save was pressed, `SaveWrites` says what a save stores,
`ExpandedTwins` that a list of targets and its expansion match the same lines of every orderable
cart, and `AlikeRows` that rows which differ only in that charge the same.

The invariants were run through TLC before they were proved, on the instances of section 3.

Left to TLC:

* `BoardConverges`, `NewOrderShown`, `WaitersReleased`: liveness, out of the prover's reach.
* The findings, which are violations.

`StatusMatchesType`, `FinishedHasCompletionTime`, `DeliveryRatedAfterDelivery`,
`DriverActsOnOwnOrder`, `PauseWaitsForCheckouts`, `CompletionTimeOnlyIfFulfilled`,
`ReplacedAfterCooldown` and `BoardNotAhead` are the other way round: proved, and run by no
configuration.

## 5. Plan

1. A model of the database session's role and settings across rollback and retry.
2. The loyalty, home and dashboard screens, and the frontdesk's session, should they get
   rules of their own.

## 6. Not modelled

The frontdesk's session and sign-in forms, home, loyalty and dashboard screens, profile and user
lists, translations, receipt layout and the printer's driver, uploads, metrics, configuration,
row policies beyond those that decide what a request reads or writes, the SMS, FCM and APNs
protocols, seeding and deployment scripts: input and output without rules of their own, or rules
no property here depends on. The admin routes and web pages are thin layers over the services
above.
