--------------------------- MODULE OrderLifecycle ---------------------------
(***************************************************************************)
(* The orders of the Take A Sip backend and every request that changes     *)
(* them: checkout, reorder, accept, driver assignment, status change and   *)
(* rating, together with the account changes and the store switch they     *)
(* depend on.                                                              *)
(*                                                                         *)
(* The backend runs each request in one PostgreSQL transaction at READ     *)
(* COMMITTED, reads the order without locking the row, validates what it   *)
(* read, and writes back by primary key the columns it changed.  A request *)
(* is therefore two steps here: a Begin action that reads and validates    *)
(* (a request the code refuses changes nothing and is no step), and a      *)
(* Commit action that writes.  Steps of other requests fall in between.    *)
(***************************************************************************)
EXTENDS Naturals, FiniteSets

CONSTANTS
  Customers,            \* users with role CLIENT
  Drivers,              \* users with role DRIVER
  Staff,                \* users with role ADMIN or FRONTDESK
  OrderIds,             \* primary keys of orders (bounds the model)
  Sessions,             \* database sessions, one per request being served
  None,                 \* NULL
  OneRequestPerOrder    \* environment: do requests about an order overlap?

ASSUME UsersAreDistinct ==
  /\ Customers \cap Drivers = {}
  /\ Customers \cap Staff = {}
  /\ Drivers \cap Staff = {}
  /\ None \notin Customers \cup Drivers \cup Staff \cup OrderIds
  /\ None \notin {"pickup", "delivery"}

ASSUME OneRequestPerOrderIsBoolean == OneRequestPerOrder \in BOOLEAN

VARIABLES
  status,        \* orders.status, "ABSENT" while there is no such row
  orderType,     \* orders.order_type
  owner,         \* orders.user_id
  driver,        \* orders.assigned_driver_id
  completedAt,   \* is orders.completed_at set?
  welcome,       \* was a first-time offer applied to the order?
  rated,         \* has the order a row in order_ratings?
  audit,         \* what replaying order_events gives: status and driver
  claims,        \* customers whose phone has a row in first_time_offer_claims
  account,       \* users.is_active and users.is_banned, or the row is gone
  ordering,      \* store_settings.ordering_enabled, or no settings row yet
  txn            \* the request each session is serving

orderRow == <<status, orderType, owner, driver, completedAt, welcome, rated, audit>>
vars == <<orderRow, claims, account, ordering, txn>>

-----------------------------------------------------------------------------
(* Types *)

Statuses == {"NEW", "ACCEPTED", "ASSIGNED", "READY", "OUT_FOR_DELIVERY",
             "DELIVERED", "COMPLETED", "CANCELLED"}
OrderTypes == {"pickup", "delivery"}
Users == Customers \cup Drivers \cup Staff
Row == Statuses \cup {"ABSENT"}

\* A request in flight: who asks for what, the status and driver its snapshot
\* had, and the values it will leave in those columns.
Txn == [op     : {"idle", "checkout", "create", "accept", "assign", "status", "rate"},
        actor  : Users \cup {None},
        order  : OrderIds \cup {None},
        type   : OrderTypes \cup {None},
        seen   : Row,
        to     : Row,
        seenDriver : Drivers \cup {None},
        newDriver  : Drivers \cup {None},
        storeLock  : BOOLEAN,   \* holds the settings row FOR SHARE
        offer      : BOOLEAN]   \* its best promotion is a first-time offer

NoTxn == [op |-> "idle", actor |-> None, order |-> None, type |-> None,
          seen |-> "ABSENT", to |-> "ABSENT", seenDriver |-> None, newDriver |-> None,
          storeLock |-> FALSE, offer |-> FALSE]

\* What a handler's second step takes for granted of its request.
RequestOK(t) ==
  /\ t.op \in {"checkout", "create"} => t.actor \in Customers /\ t.type # None
  /\ t.op \in {"accept", "assign", "status", "rate"} =>
       t.order \in OrderIds /\ status[t.order] # "ABSENT" /\ t.to # "ABSENT"

TypeOK ==
  /\ status \in [OrderIds -> Row]
  /\ orderType \in [OrderIds -> OrderTypes \cup {None}]
  /\ owner \in [OrderIds -> Customers \cup {None}]
  /\ driver \in [OrderIds -> Drivers \cup {None}]
  /\ completedAt \in [OrderIds -> BOOLEAN]
  /\ welcome \in [OrderIds -> BOOLEAN]
  /\ rated \in [OrderIds -> BOOLEAN]
  /\ audit \in [OrderIds -> [status : Row, driver : Drivers \cup {None}]]
  /\ claims \subseteq Customers
  /\ account \in [Customers \cup Drivers -> {"active", "blocked", "deleted"}]
  /\ ordering \in {"missing", "enabled", "paused"}
  /\ txn \in [Sessions -> Txn]
  /\ \A s \in Sessions : RequestOK(txn[s])
  /\ \A o \in OrderIds : status[o] # "ABSENT" => orderType[o] # None /\ owner[o] # None

-----------------------------------------------------------------------------
(* The tables of order_service *)

ActiveStatuses == {"NEW", "ACCEPTED", "ASSIGNED", "READY", "OUT_FOR_DELIVERY"}
SuccessfulFinal == {"DELIVERED", "COMPLETED"}
Dispatched == {"ASSIGNED", "READY", "OUT_FOR_DELIVERY", "DELIVERED"}

\* Broken variant: an order already handed over can be cancelled.
LateCancelTransitions ==
  [s \in Row |->
     CASE s = "NEW"              -> {"ACCEPTED", "CANCELLED"}
       [] s = "ACCEPTED"         -> {"ASSIGNED", "COMPLETED", "CANCELLED"}
       [] s = "ASSIGNED"         -> {"READY", "CANCELLED"}
       [] s = "READY"            -> {"OUT_FOR_DELIVERY", "CANCELLED"}
       [] s = "OUT_FOR_DELIVERY" -> {"DELIVERED", "CANCELLED"}
       [] s = "DELIVERED"        -> {"CANCELLED"}
       [] OTHER                  -> {}]

AllowedTransitions ==
  [s \in Row |->
     CASE s = "NEW"              -> {"ACCEPTED", "CANCELLED"}
       [] s = "ACCEPTED"         -> {"ASSIGNED", "COMPLETED", "CANCELLED"}
       [] s = "ASSIGNED"         -> {"READY", "CANCELLED"}
       [] s = "READY"            -> {"OUT_FOR_DELIVERY", "CANCELLED"}
       [] s = "OUT_FOR_DELIVERY" -> {"DELIVERED", "CANCELLED"}
       [] OTHER                  -> {}]

RoleCanSetStatus(a, target) ==
  \/ a \in Customers /\ target = "CANCELLED"
  \/ a \in Staff     /\ target \in Statuses
  \/ a \in Drivers   /\ target \in {"OUT_FOR_DELIVERY", "DELIVERED"}

\* Broken variant: the order's type is not looked at.
RatingEligibleAnyType(type, s) == s \in {"ACCEPTED"} \cup SuccessfulFinal

RatingEligible(type, s) ==
  IF type = "delivery" THEN s \in SuccessfulFinal ELSE s \in {"ACCEPTED", "COMPLETED"}

-----------------------------------------------------------------------------
(* Sessions and the locks their transactions hold *)

\* deps.get_current_user lets only accounts that are active and not banned in.
Authenticated(a) == a \notin Staff => account[a] = "active"

\* Environment: with OneRequestPerOrder a request about an order is sent only
\* when no other one about it is in flight.  Nothing in the code enforces it.
Undisturbed(o) == OneRequestPerOrder => \A s \in Sessions : txn[s].order # o

\* Broken variant: the users row is read without FOR UPDATE.
CustomerNeverLocked(c) == FALSE

\* A "create" transaction has the customer's users row FOR UPDATE.
CustomerLocked(c) == \E s \in Sessions : txn[s].op = "create" /\ txn[s].actor = c

\* A transaction that inserts a row whose foreign key names its actor takes
\* that users row FOR KEY SHARE, which waits for FOR UPDATE.
ActorRowFree(t) == ~CustomerLocked(t.actor)

Begin(s, fields) ==
  /\ txn[s] = NoTxn
  /\ txn' = [txn EXCEPT ![s] = fields]
  /\ UNCHANGED <<orderRow, claims, account, ordering>>

\* A request about an existing order: its snapshot of the row, to be changed.
OnOrder(op, a, o) ==
  [NoTxn EXCEPT !.op = op, !.actor = a, !.order = o,
                !.seen = status[o], !.to = status[o],
                !.seenDriver = driver[o], !.newDriver = driver[o]]

End(s) == txn' = [txn EXCEPT ![s] = NoTxn]

-----------------------------------------------------------------------------
(* create_order and reorder_order *)

\* create_order up to the user lock: the store must accept orders, and the
\* settings row, if there is one, is locked FOR SHARE until the transaction
\* ends.  Menu, schedule, pricing and limit checks can only refuse.
BeginCheckout(s, c, type) ==
  /\ Authenticated(c)
  /\ ordering # "paused"
  /\ Begin(s, [NoTxn EXCEPT !.op = "checkout", !.actor = c, !.type = type,
                            !.storeLock = (ordering # "missing")])

\* Broken variant: only orders the shop has not accepted yet count as active.
HasNewOrder(c) == \E o \in OrderIds : owner[o] = c /\ status[o] = "NEW"

HasActiveOrder(c) == \E o \in OrderIds : owner[o] = c /\ status[o] \in ActiveStatuses

CompletedOrders(c) == {o \in OrderIds : owner[o] = c /\ status[o] \in SuccessfulFinal}

\* Broken variant: the claim alone decides, past orders are not counted.
EligibleByClaimOnly(c) == c \notin claims

\* The first-time offer is open to a customer with no successful order and no
\* claim on the phone; whether one is running and wins is left open.
EligibleForFirstTimeOffer(c) == CompletedOrders(c) = {} /\ c \notin claims

\* create_order once the user lock is granted: no active order, promotions.
LockUserForCheckout(s) ==
  LET c == txn[s].actor IN
  /\ txn[s].op = "checkout"
  /\ ~CustomerLocked(c)
  /\ ~HasActiveOrder(c)
  /\ \E offer \in BOOLEAN :
       /\ offer => EligibleForFirstTimeOffer(c)
       /\ txn' = [txn EXCEPT ![s].op = "create", ![s].offer = offer]
  /\ UNCHANGED <<orderRow, claims, account, ordering>>

\* Broken variant: the source order is not looked up as one of the customer's.
BeginReorderUnchecked(s, c, source) ==
  /\ Authenticated(c)
  /\ ~CustomerLocked(c)
  /\ ~HasActiveOrder(c)
  /\ Begin(s, [NoTxn EXCEPT !.op = "create", !.actor = c, !.type = orderType[source]])

\* reorder_order copies an own order.  It takes the user lock and makes the
\* active-order check, and looks at neither the store nor the promotions.
BeginReorder(s, c, source) ==
  /\ Authenticated(c)
  /\ ~CustomerLocked(c)
  /\ ~HasActiveOrder(c)
  /\ status[source] # "ABSENT" /\ owner[source] = c
  /\ Begin(s, [NoTxn EXCEPT !.op = "create", !.actor = c, !.type = orderType[source]])

\* INSERT ... ON CONFLICT DO NOTHING: only the transaction that inserts the
\* claim keeps the discount.
GrantsOffer(t) == t.offer /\ t.actor \notin claims

\* Broken variant: granting the offer leaves the claim to the order's end.
NoClaimYet(t) == claims

ClaimsAfterCreate(t) == IF GrantsOffer(t) THEN claims \cup {t.actor} ELSE claims

\* Claim the offer, insert the order, log order.created, commit.
CommitCreate(s, o) ==
  LET t == txn[s] IN
  /\ t.op = "create"
  /\ status[o] = "ABSENT"
  /\ status' = [status EXCEPT ![o] = "NEW"]
  /\ orderType' = [orderType EXCEPT ![o] = t.type]
  /\ owner' = [owner EXCEPT ![o] = t.actor]
  /\ welcome' = [welcome EXCEPT ![o] = GrantsOffer(t)]
  /\ audit' = [audit EXCEPT ![o].status = "NEW"]
  /\ claims' = ClaimsAfterCreate(t)
  /\ End(s)
  /\ UNCHANGED <<driver, completedAt, rated, account, ordering>>

-----------------------------------------------------------------------------
(* accept_order, assign_driver, update_order_status *)

MayAccept(a, o) == a \in Staff /\ status[o] = "NEW"

BeginAccept(s, a, o) ==
  /\ MayAccept(a, o)
  /\ Undisturbed(o)
  /\ Begin(s, [OnOrder("accept", a, o) EXCEPT !.to = "ACCEPTED"])

\* Broken variant: pickup orders can be given to a driver too.
AssignableAnyType(o) == status[o] \in {"ACCEPTED", "ASSIGNED", "READY"}

Assignable(o) == orderType[o] = "delivery" /\ status[o] \in {"ACCEPTED", "ASSIGNED", "READY"}

MayAssign(a, o, d) == a \in Staff /\ Assignable(o) /\ account[d] = "active"

BeginAssign(s, a, o, d) ==
  /\ MayAssign(a, o, d)
  /\ Undisturbed(o)
  /\ Begin(s, [OnOrder("assign", a, o) EXCEPT
                 !.to = IF status[o] = "READY" THEN "READY" ELSE "ASSIGNED",
                 !.newDriver = d])

\* Broken variant: ASSIGNED can be set without naming a driver.
FitsOrderWithoutDriver(o, target) ==
  /\ target = "COMPLETED" => orderType[o] # "delivery"
  /\ target = "READY" => orderType[o] = "delivery" /\ driver[o] # None

\* What the status endpoint asks of the order besides the transition table.
FitsOrder(o, target) ==
  /\ target = "COMPLETED" => orderType[o] # "delivery"
  /\ target # "ASSIGNED"
  /\ target = "READY" => orderType[o] = "delivery" /\ driver[o] # None

MaySetStatus(a, o, target) ==
  /\ status[o] # "ABSENT"
  /\ Authenticated(a)
  /\ RoleCanSetStatus(a, target)
  /\ a \in Customers => owner[o] = a /\ status[o] = "NEW"
  /\ a \in Drivers => driver[o] = a /\ orderType[o] = "delivery"
  /\ FitsOrder(o, target)
  /\ target \in AllowedTransitions[status[o]]

BeginStatus(s, a, o, target) ==
  /\ MaySetStatus(a, o, target)
  /\ Undisturbed(o)
  /\ Begin(s, [OnOrder("status", a, o) EXCEPT !.to = target])

\* Broken variant: the UPDATE goes by primary key alone.
VisibleToAnyone(t) == TRUE

\* The row-level security policy of orders is applied to the row the UPDATE
\* finds: for a driver it must still be assigned to them.
VisibleToActor(t) == t.actor \in Drivers => driver[t.order] = t.actor

\* The driver written must still have a users row (foreign key).
DriverRowExists(t) ==
  t.newDriver # t.seenDriver /\ t.newDriver # None => account[t.newDriver] # "deleted"

\* Finishing an order stamps completed_at and claims the customer's phone; for
\* a driver the policy on users hides order.user and the claim is left out.
Finishes(t) ==
  /\ t.op = "status"
  /\ t.to = "COMPLETED" \/ (t.to = "DELIVERED" /\ orderType[t.order] = "delivery")

\* Broken variant: assign_driver writes no event.
AssignmentNotLogged(t, entry) == IF t.op = "assign" THEN entry ELSE [entry EXCEPT !.status = t.to]

\* The event each handler appends, as it changes the replayed history.
Logged(t, entry) ==
  IF t.op = "assign"
    THEN [driver |-> t.newDriver,
          status |-> IF entry.status = "READY" THEN "READY" ELSE "ASSIGNED"]
    ELSE [entry EXCEPT !.status = t.to]

\* The flush writes the columns whose value differs from the snapshot's, by
\* primary key and whatever the row holds now; event and row commit together.
CommitUpdate(s) ==
  LET t == txn[s]
      o == t.order
  IN
  /\ t.op \in {"accept", "assign", "status"}
  /\ VisibleToActor(t) /\ ActorRowFree(t) /\ DriverRowExists(t)
  /\ status' = [status EXCEPT ![o] = IF t.to # t.seen THEN t.to ELSE @]
  /\ driver' = [driver EXCEPT ![o] = IF t.newDriver # t.seenDriver THEN t.newDriver ELSE @]
  /\ completedAt' = [completedAt EXCEPT ![o] = @ \/ Finishes(t)]
  /\ claims' = IF Finishes(t) /\ t.actor \notin Drivers THEN claims \cup {owner[o]} ELSE claims
  /\ audit' = [audit EXCEPT ![o] = Logged(t, @)]
  /\ End(s)
  /\ UNCHANGED <<orderType, owner, welcome, rated, account, ordering>>

-----------------------------------------------------------------------------
(* create_order_rating *)

MayRate(c, o) ==
  /\ Authenticated(c)
  /\ status[o] # "ABSENT" /\ owner[o] = c
  /\ RatingEligible(orderType[o], status[o])
  /\ ~rated[o]

BeginRating(s, c, o) ==
  /\ MayRate(c, o)
  /\ Undisturbed(o)
  /\ Begin(s, OnOrder("rate", c, o))

\* order_ratings.order_id is unique: a second insert fails.
CommitRating(s) ==
  LET t == txn[s] IN
  /\ t.op = "rate"
  /\ ActorRowFree(t)
  /\ ~rated[t.order]
  /\ rated' = [rated EXCEPT ![t.order] = TRUE]
  /\ End(s)
  /\ UNCHANGED <<status, orderType, owner, driver, completedAt, welcome, audit,
                 claims, account, ordering>>

\* Any request may end with its transaction rolled back: refused after the
\* lock was granted, a constraint or row policy violated, a lost connection.
Rollback(s) ==
  /\ txn[s] # NoTxn
  /\ End(s)
  /\ UNCHANGED <<orderRow, claims, account, ordering>>

-----------------------------------------------------------------------------
(* user_service and store_service *)

\* ban_user, archive_staff_user: the flags change at once and later requests
\* of the user are refused; those in flight are not disturbed.
BlockUser(u) ==
  /\ account[u] = "active"
  /\ ~CustomerLocked(u)
  /\ account' = [account EXCEPT ![u] = "blocked"]
  /\ UNCHANGED <<orderRow, claims, ordering, txn>>

\* unban_user, unarchive_staff_user
UnblockUser(u) ==
  /\ account[u] = "blocked"
  /\ ~CustomerLocked(u)
  /\ account' = [account EXCEPT ![u] = "active"]
  /\ UNCHANGED <<orderRow, claims, ordering, txn>>

\* delete_staff_user: the row of an archived driver is deleted, and the
\* foreign key sets assigned_driver_id to NULL on every order that names it.
DeleteDriver(d) ==
  /\ account[d] = "blocked"
  /\ account' = [account EXCEPT ![d] = "deleted"]
  /\ driver' = [o \in OrderIds |-> IF driver[o] = d THEN None ELSE driver[o]]
  /\ UNCHANGED <<status, orderType, owner, completedAt, welcome, rated, audit,
                 claims, ordering, txn>>

\* Broken variant: the settings row is updated without waiting for its lock.
SetOrderingAtOnce(enabled) ==
  /\ ordering' = IF enabled THEN "enabled" ELSE "paused"
  /\ UNCHANGED <<orderRow, claims, account, txn>>

\* set_ordering_enabled: takes the settings row FOR UPDATE, so it waits for
\* every checkout that holds it FOR SHARE; the first call inserts the row.
SetOrdering(enabled) ==
  /\ \A s \in Sessions : ~txn[s].storeLock
  /\ ordering' = IF enabled THEN "enabled" ELSE "paused"
  /\ UNCHANGED <<orderRow, claims, account, txn>>

-----------------------------------------------------------------------------
Init ==
  /\ status = [o \in OrderIds |-> "ABSENT"]
  /\ orderType = [o \in OrderIds |-> None]
  /\ owner = [o \in OrderIds |-> None]
  /\ driver = [o \in OrderIds |-> None]
  /\ completedAt = [o \in OrderIds |-> FALSE]
  /\ welcome = [o \in OrderIds |-> FALSE]
  /\ rated = [o \in OrderIds |-> FALSE]
  /\ audit = [o \in OrderIds |-> [status |-> "ABSENT", driver |-> None]]
  /\ claims = {}
  /\ account = [u \in Customers \cup Drivers |-> "active"]
  /\ ordering \in {"missing", "enabled"}
  /\ txn = [s \in Sessions |-> NoTxn]

Request(s) ==
  \/ \E c \in Customers, type \in OrderTypes : BeginCheckout(s, c, type)
  \/ \E c \in Customers, o \in OrderIds : BeginReorder(s, c, o)
  \/ \E c \in Customers, o \in OrderIds : BeginRating(s, c, o)
  \/ \E a \in Staff, o \in OrderIds : BeginAccept(s, a, o)
  \/ \E a \in Staff, o \in OrderIds, d \in Drivers : BeginAssign(s, a, o, d)
  \/ \E a \in Users, o \in OrderIds, target \in Statuses : BeginStatus(s, a, o, target)

Proceed(s) ==
  \/ LockUserForCheckout(s)
  \/ \E o \in OrderIds : CommitCreate(s, o)
  \/ CommitUpdate(s)
  \/ CommitRating(s)
  \/ Rollback(s)

Administer ==
  \/ \E u \in Customers \cup Drivers : BlockUser(u) \/ UnblockUser(u)
  \/ \E d \in Drivers : DeleteDriver(d)
  \/ \E enabled \in BOOLEAN : SetOrdering(enabled)

Next == (\E s \in Sessions : Request(s) \/ Proceed(s)) \/ Administer

Spec == Init /\ [][Next]_vars
-----------------------------------------------------------------------------
(* Properties that hold however the requests interleave *)

\* A pickup order never enters the driver's statuses and a delivery order never
\* ends in COMPLETED: the type checks of assign_driver and update_order_status
\* are made on a snapshot, and only the status is written from it.
StatusMatchesType ==
  \A o \in OrderIds :
    /\ orderType[o] = "pickup" => status[o] \in {"NEW", "ACCEPTED", "COMPLETED", "CANCELLED"}
    /\ orderType[o] = "delivery" => status[o] # "COMPLETED"

\* An order that counts as successful has completed_at, the time by which the
\* loyalty count and the revenue reports place it.
FinishedHasCompletionTime ==
  \A o \in OrderIds : status[o] \in SuccessfulFinal => completedAt[o]

\* An order in a driver's hands names a driver, unless that driver's account
\* was permanently deleted (ON DELETE SET NULL), however assignments race.
DispatchedHasDriver ==
  \A o \in OrderIds :
    status[o] \in Dispatched /\ driver[o] = None => \E d \in Drivers : account[d] = "deleted"

\* A delivery order has a rating only if it was delivered at some point, even
\* when its status is overwritten between the rating's check and its commit.
DeliveryRatedAfterDelivery ==
  \A o \in OrderIds : rated[o] /\ orderType[o] = "delivery" => completedAt[o]

\* The first-time offer is granted on at most one order of a customer, also
\* when that order is cancelled or two orders are open at once.
WelcomeOfferOnce ==
  \A o, p \in OrderIds : welcome[o] /\ welcome[p] /\ owner[o] = owner[p] => o = p

\* Pausing the store waits for the checkouts that found it open: none that
\* holds the settings row is still running once ordering is paused.
PauseWaitsForCheckouts ==
  \A s \in Sessions : txn[s].storeLock => ordering = "enabled"

\* A status change asked for by a driver reaches the row only while the order
\* is assigned to that driver, even if it was reassigned after the check.
DriverActsOnOwnOrder ==
  [][\A s \in Sessions, o \in OrderIds :
       /\ txn[s].actor \in Drivers /\ txn[s].order = o /\ txn'[s] = NoTxn
       /\ status'[o] # status[o]
       => driver[o] = txn[s].actor]_vars

-----------------------------------------------------------------------------
(* Properties that hold when the requests about one order do not overlap *)

\* _ensure_no_active_customer_order: "You already have an order in progress".
OneActiveOrder ==
  \A o, p \in OrderIds :
    /\ status[o] \in ActiveStatuses /\ status[p] \in ActiveStatuses
    /\ owner[o] = owner[p]
    => o = p

\* The first-time offer goes to a first order: when it is granted the customer
\* has no delivered or completed order.
WelcomeOfferIsFirst ==
  [][\A o \in OrderIds :
       welcome'[o] /\ ~welcome[o] => CompletedOrders(owner'[o]) = {}]_vars

\* order_events is an audit trail: replaying an order's events gives the
\* status of its row, and its driver unless that driver was deleted.
AuditMatchesRow ==
  \A o \in OrderIds :
    /\ audit[o].status = status[o]
    /\ driver[o] = IF audit[o].driver # None /\ account[audit[o].driver] = "deleted"
                   THEN None ELSE audit[o].driver

\* completed_at marks exactly the orders that were fulfilled.
CompletionTimeOnlyIfFulfilled ==
  \A o \in OrderIds : completedAt[o] => status[o] \in SuccessfulFinal

\* The promise to the customer (module CustomerOrders), with the status read
\* as a stage.
StageOf(s) ==
  CASE s = "ABSENT"         -> "absent"
    [] s \in ActiveStatuses  -> "open"
    [] s \in SuccessfulFinal -> "fulfilled"
    [] OTHER                 -> "cancelled"

Stage == [o \in OrderIds |-> StageOf(status[o])]

Promise == INSTANCE CustomerOrders WITH stage <- Stage, placedBy <- owner

\* Every order is placed while its customer has none open, and a finished or
\* cancelled order is never touched again.
KeepsPromise == Promise!Spec

=============================================================================
