---------------------------- MODULE OrderScreens ----------------------------
(***************************************************************************)
(* What the screens make of the orders: the lists and copies the order     *)
(* routes serve to each role, the buttons the tablet, the phone app of the *)
(* customer, of the driver and of the admin put under a copy, and the      *)
(* reports of the admin's dashboard.  A copy is taken as just loaded; the  *)
(* tablet's stale copies are the subject of FrontdeskBoard.                *)
(***************************************************************************)
EXTENDS OrderLifecycle, FiniteSetsExt

ASSUME FiniteTables == IsFiniteSet(OrderIds) /\ IsFiniteSet(Drivers)

Orders == {o \in OrderIds : status[o] # "ABSENT"}

-----------------------------------------------------------------------------
(* Who may read what (order routes, paging aside) *)

\* enforce_order_access
MayOpen(u, o) ==
  /\ u \in Customers => owner[o] = u
  /\ u \in Drivers => driver[o] = u

\* list_latest_orders, narrowed by its optional filters.
LatestOrders(u, statuses, type) ==
  {o \in Orders :
     /\ MayOpen(u, o)
     /\ statuses = {} \/ status[o] \in statuses
     /\ type = None \/ orderType[o] = type}

\* Broken variant: the status READY, which came later, is not listed.
DriverLatestWithoutReady(d) ==
  {o \in Orders : /\ driver[o] = d
                  /\ orderType[o] = "delivery"
                  /\ status[o] \in Statuses \ {"NEW", "ACCEPTED", "READY"}}

\* list_driver_latest_orders
DriverLatest(d) ==
  {o \in Orders : /\ driver[o] = d
                  /\ orderType[o] = "delivery"
                  /\ status[o] \in Statuses \ {"NEW", "ACCEPTED"}}

\* _serialize_order: an app that does not announce it knows READY gets the
\* status before it.
ShownStatus(o, knowsReady) ==
  IF status[o] = "READY" /\ ~knowsReady THEN "ASSIGNED" ELSE status[o]

\* list_drivers, as the endpoint of the tablet calls it.
AvailableDrivers == {d \in Drivers : account[d] = "active"}

-----------------------------------------------------------------------------
(* The buttons *)

Press(op, to) == [op |-> op, to |-> to, driver |-> None]
SetStatus(target) == Press("status", target)
Accept == Press("accept", "ACCEPTED")
Assign(d) == [op |-> "assign", to |-> None, driver |-> d]
Rate == Press("rate", None)
AssignEach(drivers) == {Assign(d) : d \in drivers}

\* Buttons that are there when a condition holds.
When(condition, buttons) == IF condition THEN buttons ELSE {}

\* orderStatus.ts
IsOrderRateable(o) ==
  /\ status[o] # "CANCELLED"
  /\ IF orderType[o] = "delivery" THEN status[o] \in SuccessfulFinal
                                  ELSE status[o] \in {"ACCEPTED", "COMPLETED"}

\* ClientOrderDetailsScreen: a new order can be cancelled, a rateable one rated
\* once.
CancelCard(o) == When(status[o] = "NEW", {SetStatus("CANCELLED")})
RatingCard(o) == When(IsOrderRateable(o) /\ ~rated[o], {Rate})

\* PastOrdersScreenView sends the customer there to rate what it says can be.
PastOrderCard(o) == When(IsOrderRateable(o) /\ ~rated[o], {Rate})

CustomerButtons(o) == CancelCard(o) \cup RatingCard(o) \cup PastOrderCard(o)

\* DriverOrderDetailsScreen
DriverButtons(o, knowsReady) ==
  When(ShownStatus(o, knowsReady) = "READY", {SetStatus("OUT_FOR_DELIVERY")})
    \cup When(ShownStatus(o, knowsReady) = "OUT_FOR_DELIVERY", {SetStatus("DELIVERED")})

\* Broken variant: the driver's name on the order is not asked for.
CanMarkDeliveryReadyAnyway(o) == orderType[o] = "delivery" /\ status[o] = "ASSIGNED"

\* orderPresentation.ts
CanMarkDeliveryReady(o) ==
  orderType[o] = "delivery" /\ status[o] = "ASSIGNED" /\ driver[o] # None
CanMarkOutForDelivery(o) ==
  orderType[o] = "delivery" /\ status[o] = "READY" /\ driver[o] # None
CanMarkDelivered(o) == orderType[o] = "delivery" /\ status[o] = "OUT_FOR_DELIVERY"
IsPickupInProgress(o) == orderType[o] = "pickup" /\ status[o] = "ACCEPTED"

\* Broken variant: only an accepted order can be given to a driver.
IsDriverAssignmentFirst(o) == orderType[o] = "delivery" /\ status[o] = "ACCEPTED"

IsDriverAssignment(o) ==
  orderType[o] = "delivery" /\ status[o] \in {"ACCEPTED", "ASSIGNED", "READY"}

\* The buttons of a card on the tablet's board, and of its details.
CardButtons(o) ==
  When(status[o] = "NEW", {Accept, SetStatus("CANCELLED")})
    \cup When(status[o] \in ActiveStatuses, {SetStatus("CANCELLED")})
    \cup When(CanMarkDeliveryReady(o), {SetStatus("READY")})
    \cup When(CanMarkOutForDelivery(o), {SetStatus("OUT_FOR_DELIVERY")})
    \cup When(CanMarkDelivered(o), {SetStatus("DELIVERED")})
    \cup When(IsPickupInProgress(o), {SetStatus("COMPLETED")})

TabletButtons(o) == CardButtons(o) \cup When(IsDriverAssignment(o), AssignEach(AvailableDrivers))

\* AdminOrderDetailsScreen loads the active drivers, banned ones included, and
\* drops those.
LoadedDrivers == {d \in Drivers : account[d] \notin {"blocked", "deleted"}}

\* AdminOrderDetailsScreen: one step forward, or the drivers in its place.
ForwardAction(o) ==
  When(status[o] = "NEW", {Accept})
    \cup When(IsPickupInProgress(o), {SetStatus("COMPLETED")})
    \cup When(orderType[o] = "delivery" /\ status[o] = "ASSIGNED", {SetStatus("READY")})
    \cup When(orderType[o] = "delivery" /\ status[o] = "READY",
              {SetStatus("OUT_FOR_DELIVERY")})
    \cup When(CanMarkDelivered(o), {SetStatus("DELIVERED")})

AdminButtons(o) ==
  (IF orderType[o] = "delivery" /\ status[o] = "ACCEPTED" 
     THEN AssignEach(LoadedDrivers)
     ELSE ForwardAction(o))
    \cup When(status[o] \in ActiveStatuses, {SetStatus("CANCELLED")})

\* AdminDeliveryScreen offers drivers, the first three in fact, for the
\* accepted delivery orders without one.
AwaitingDriver(u) ==
  {o \in LatestOrders(u, {}, "delivery") : status[o] = "ACCEPTED" /\ driver[o] = None}

AdminDeliveryButtons(u, o) == 
  When(o \in AwaitingDriver(u), AssignEach(LoadedDrivers))

StaffButtons(a, o) == TabletButtons(o) \cup AdminButtons(o) \cup AdminDeliveryButtons(a, o)

Buttons(u, o, knowsReady) ==
  CASE u \in Customers -> CustomerButtons(o)
    [] u \in Drivers   -> DriverButtons(o, knowsReady)
    [] u \in Staff     -> StaffButtons(u, o)

\* The request behind a button, and whether the server's rules let it pass:
\* confirmed by the user and sent while the order is as the copy shows it.
CustomerTakes(c, o, b) ==
  CASE b = Rate                   -> MayRate(c, o)
    [] b = SetStatus("CANCELLED") -> MaySetStatus(c, o, "CANCELLED")

DriverTakes(d, o, b) == MaySetStatus(d, o, b.to)

StaffTakes(a, o, b) ==
  CASE b.op = "accept" -> MayAccept(a, o)
    [] b.op = "assign" -> MayAssign(a, o, b.driver)
    [] b.op = "status" -> MaySetStatus(a, o, b.to)

Takes(u, o, b) ==
  CASE u \in Customers -> CustomerTakes(u, o, b)
    [] u \in Drivers   -> DriverTakes(u, o, b)
    [] u \in Staff     -> StaffTakes(u, o, b)

-----------------------------------------------------------------------------
(* The driver's list and the dashboard's reports *)

\* DriverOrdersScreen shows the latest orders in two sections.
ActiveDeliveries(d) ==
  {o \in DriverLatest(d) : status[o] \in {"ASSIGNED", "READY", "OUT_FOR_DELIVERY"}}
CompletedDeliveries(d) ==
  {o \in DriverLatest(d) : status[o] \in {"DELIVERED", "COMPLETED", "CANCELLED"}}

\* get_driver_analytics: finished deliveries per driver, joined on the driver.
DeliveriesCompleted(d) ==
  {o \in Orders : driver[o] = d /\ status[o] \in SuccessfulFinal /\ completedAt[o]}

DeliveriesCompletedToday ==
  MapThenSumSet(LAMBDA d : Cardinality(DeliveriesCompleted(d)), Drivers)

\* get_order_analytics: the orders of the day by type.
OrdersToday(types) == Cardinality({o \in Orders : orderType[o] \in types})

\* get_revenue_summary adds up these orders' totals.
RevenueOrders == {o \in Orders : status[o] \in {"ACCEPTED"} \cup SuccessfulFinal}

\* get_admin_dashboard_analytics, with the days and the amounts left out.
Dashboard ==
  [revenueOrders |-> Cardinality(RevenueOrders),
   ordersToday   |-> OrdersToday(OrderTypes),
   pickup        |-> OrdersToday({"pickup"}),
   delivery      |-> OrdersToday({"delivery"}),
   delivered     |-> DeliveriesCompletedToday]

-----------------------------------------------------------------------------
(* Properties *)

\* The conditions under which four screens offer a button repeat the server's
\* rules, each in its own words: whatever races brought the order to where it
\* is, a button on a copy just loaded sends a request the server takes.  The
\* exception is the admin phone's "ready" for an order whose driver's account
\* was deleted, which the server refuses.
ButtonsAccepted ==
  \A u \in Users, o \in Orders, knowsReady \in BOOLEAN :
    Authenticated(u) /\ MayOpen(u, o) =>
      \A b \in Buttons(u, o, knowsReady) :
        \/ Takes(u, o, b)
        \/ u \in Staff /\ b \notin TabletButtons(o)
           /\ b = SetStatus("READY") /\ driver[o] = None

\* No open order is left that the staff can only cancel: as long as there is a
\* driver to give it to, the tablet or the admin's phone offers a step forward
\* that the server takes, after lost drivers and overwritten statuses too.
NeverStranded ==
  \A a \in Staff, o \in Orders :
    status[o] \in ActiveStatuses /\ AvailableDrivers # {} =>
      \E b \in StaffButtons(a, o) \ {SetStatus("CANCELLED")} : StaffTakes(a, o, b)

\* The driver's screen shows every order in the driver's name in exactly one
\* of its sections.  The dashboard's figures agree with each other: its orders
\* split by type, what was delivered or completed is all revenue, and every
\* delivery is credited to one driver, unless a driver's account was deleted;
\* no order that was not fulfilled carries a completion time.
DeliveriesAccountedFor ==
  /\ CompletionTimeOnlyIfFulfilled
  /\ \A o \in Orders, d \in Drivers :
       driver[o] = d => (o \in ActiveDeliveries(d) <=> o \notin CompletedDeliveries(d))
  /\ Dashboard.ordersToday = Dashboard.pickup + Dashboard.delivery
  /\ Dashboard.revenueOrders >= Dashboard.delivered
  /\ (\A d \in Drivers : account[d] # "deleted") =>
       Dashboard.delivered = Cardinality({o \in Orders : status[o] = "DELIVERED"})

=============================================================================
