-------------------------- MODULE OrderSafetyProofs --------------------------
(***************************************************************************)
(* What holds of the orders however their requests interleave, proved for  *)
(* every set of users, orders and sessions.                                *)
(*                                                                         *)
(* The properties are not inductive on their own: what a request writes    *)
(* was decided on a snapshot, so the invariant also says what each request *)
(* in flight may still rely on (RequestFacts).  Those facts survive the    *)
(* commits of the other requests because the columns they read never       *)
(* change back: order_type is written once, completed_at is never cleared, *)
(* and only the deletion of a driver takes a driver away from an order.    *)
(***************************************************************************)
EXTENDS OrderScreens, TLAPS

-----------------------------------------------------------------------------
(* Types *)

\* An idle session is well typed.
LEMMA NoTxnType == NoTxn \in Txn /\ RequestOK(NoTxn)
  BY DEF NoTxn, Txn, Row, RequestOK

\* The request a handler builds from its snapshot of an order.
LEMMA OnOrderType ==
  ASSUME TypeOK, NEW o \in OrderIds, NEW a \in Users, status[o] # "ABSENT",
         NEW op \in {"accept", "assign", "status", "rate"},
         NEW to \in Statuses, NEW d \in Drivers \cup {None}
  PROVE  LET t == [OnOrder(op, a, o) EXCEPT !.to = to, !.newDriver = d]
         IN  t \in Txn /\ RequestOK(t)
<1> DEFINE t == [OnOrder(op, a, o) EXCEPT !.to = to, !.newDriver = d]
<1>1. status[o] \in Row /\ driver[o] \in Drivers \cup {None} /\ to \in Row
  BY DEF TypeOK, Row
<1>2. OnOrder(op, a, o) \in Txn
  BY <1>1, NoTxnType DEF OnOrder, Txn
<1>3. t \in Txn
  BY <1>1, <1>2 DEF Txn
<1>4. OnOrder(op, a, o).op = op /\ OnOrder(op, a, o).order = o
  BY DEF OnOrder, NoTxn
<1>5. t.op = op /\ t.order = o /\ t.to = to
  BY <1>2, <1>4 DEF Txn
<1>6. RequestOK(t)
  <2> HIDE DEF t
  <2>1. QED  BY <1>5 DEF RequestOK, Statuses
<1>7. QED  BY <1>3, <1>6

\* The initial rows and sessions are well typed.
LEMMA InitType == Init => TypeOK
  BY NoTxnType DEF Init, TypeOK, Row

\* Starting a request changes no row and leaves every session well typed.
LEMMA BeginType ==
  ASSUME TypeOK, NEW s \in Sessions, NEW fields \in Txn, RequestOK(fields),
         Begin(s, fields)
  PROVE  TypeOK'
<1>1. txn' \in [Sessions -> Txn] /\ UNCHANGED <<orderRow, claims, account, ordering>>
  BY DEF Begin, TypeOK
<1>2. \A r \in Sessions : RequestOK(txn[r])'
  BY <1>1 DEF Begin, TypeOK, RequestOK, orderRow
<1>3. QED  BY <1>1, <1>2 DEF TypeOK, orderRow

\* The records the handlers' first steps leave in their sessions.
LEMMA CheckoutRecord ==
  ASSUME NEW c \in Customers, NEW type \in OrderTypes
  PROVE  LET t == [NoTxn EXCEPT !.op = "checkout", !.actor = c, !.type = type,
                                !.storeLock = (ordering # "missing")]
         IN  t \in Txn /\ RequestOK(t)
<1>1. (ordering # "missing") \in BOOLEAN
  OBVIOUS
<1>2. [NoTxn EXCEPT !.op = "checkout", !.actor = c, !.type = type,
                    !.storeLock = (ordering # "missing")] \in Txn
  BY <1>1, NoTxnType DEF Txn, Users
<1>3. RequestOK([NoTxn EXCEPT !.op = "checkout", !.actor = c, !.type = type,
                              !.storeLock = (ordering # "missing")])
  BY UsersAreDistinct DEF NoTxn, RequestOK, OrderTypes
<1>4. QED  BY <1>2, <1>3

\* reorder_order asks for the type of the order it copies.
LEMMA ReorderRecord ==
  ASSUME TypeOK, NEW c \in Customers, NEW o \in OrderIds, status[o] # "ABSENT"
  PROVE  LET t == [NoTxn EXCEPT !.op = "create", !.actor = c, !.type = orderType[o]]
         IN  t \in Txn /\ RequestOK(t)
  BY NoTxnType DEF Txn, Users, NoTxn, RequestOK, TypeOK

\* create_order_rating keeps status and driver as it read them.
LEMMA RateRecord ==
  ASSUME TypeOK, NEW c \in Customers, NEW o \in OrderIds, status[o] # "ABSENT"
  PROVE  LET t == OnOrder("rate", c, o)
         IN  t \in Txn /\ RequestOK(t)
<1>1. OnOrder("rate", c, o) =
        [OnOrder("rate", c, o) EXCEPT !.to = status[o], !.newDriver = driver[o]]
  BY DEF OnOrder, NoTxn
<1>2. status[o] \in Statuses /\ driver[o] \in Drivers \cup {None}
  BY DEF TypeOK, Row
<1>3. LET t == [OnOrder("rate", c, o) EXCEPT !.to = status[o], !.newDriver = driver[o]]
      IN  t \in Txn /\ RequestOK(t)
  BY <1>2, OnOrderType DEF Users
<1>4. QED  BY <1>1, <1>3

\* accept_order and update_order_status leave the driver as they found it.
LEMMA UpdateRecord ==
  ASSUME TypeOK, NEW a \in Users, NEW o \in OrderIds, status[o] # "ABSENT",
         NEW op \in {"accept", "status"}, NEW to \in Statuses
  PROVE  LET t == [OnOrder(op, a, o) EXCEPT !.to = to]
         IN  t \in Txn /\ RequestOK(t)
<1>1. [OnOrder(op, a, o) EXCEPT !.to = to] =
        [OnOrder(op, a, o) EXCEPT !.to = to, !.newDriver = driver[o]]
  BY DEF OnOrder, NoTxn
<1>2. driver[o] \in Drivers \cup {None}
  BY DEF TypeOK
<1>3. LET t == [OnOrder(op, a, o) EXCEPT !.to = to, !.newDriver = driver[o]]
      IN  t \in Txn /\ RequestOK(t)
  BY <1>2, OnOrderType
<1>4. QED  BY <1>1, <1>3

\* Every request's first step keeps the types.
LEMMA RequestType ==
  ASSUME TypeOK, NEW s \in Sessions, Request(s)
  PROVE  TypeOK'
<1>1. ASSUME NEW c \in Customers, NEW type \in OrderTypes, BeginCheckout(s, c, type)
      PROVE  TypeOK'
  BY <1>1, CheckoutRecord, BeginType DEF BeginCheckout
<1>2. ASSUME NEW c \in Customers, NEW o \in OrderIds, BeginReorder(s, c, o)
      PROVE  TypeOK'
  BY <1>2, ReorderRecord, BeginType DEF BeginReorder
<1>3. ASSUME NEW c \in Customers, NEW o \in OrderIds, BeginRating(s, c, o)
      PROVE  TypeOK'
  BY <1>3, RateRecord, BeginType DEF BeginRating, MayRate
<1>4. ASSUME NEW a \in Staff, NEW o \in OrderIds, BeginAccept(s, a, o)
      PROVE  TypeOK'
  BY <1>4, UpdateRecord, BeginType DEF BeginAccept, MayAccept, Users, Statuses
<1>5. ASSUME NEW a \in Staff, NEW o \in OrderIds, NEW d \in Drivers, BeginAssign(s, a, o, d)
      PROVE  TypeOK'
  BY <1>5, OnOrderType, BeginType DEF BeginAssign, MayAssign, Assignable, Statuses, Users
<1>6. ASSUME NEW a \in Users, NEW o \in OrderIds, NEW target \in Statuses,
             BeginStatus(s, a, o, target)
      PROVE  TypeOK'
  BY <1>6, UpdateRecord, BeginType DEF BeginStatus, MaySetStatus
<1>7. QED  BY <1>1, <1>2, <1>3, <1>4, <1>5, <1>6 DEF Request

\* Ending a request's transaction leaves the sessions well typed, as long as
\* no order loses its row.
LEMMA EndType ==
  ASSUME TypeOK, NEW s \in Sessions, End(s),
         \A o \in OrderIds : status[o] # "ABSENT" => status'[o] # "ABSENT"
  PROVE  txn' \in [Sessions -> Txn] /\ \A r \in Sessions : RequestOK(txn[r])'
<1>1. txn' \in [Sessions -> Txn]
  BY NoTxnType DEF End, TypeOK
<1>2. \A r \in Sessions : RequestOK(txn[r])'
  BY DEF End, TypeOK, RequestOK, NoTxn
<1>3. QED  BY <1>1, <1>2

\* Every request's second step, or its rollback, keeps the types.
LEMMA ProceedType ==
  ASSUME TypeOK, NEW s \in Sessions, Proceed(s)
  PROVE  TypeOK'
<1>1. ASSUME LockUserForCheckout(s)  PROVE TypeOK'
  <2>1. txn' \in [Sessions -> Txn] /\ UNCHANGED <<orderRow, claims, account, ordering>>
    <3>1. txn[s] \in Txn
      BY DEF TypeOK
    <3>2. PICK offer \in BOOLEAN : txn' = [txn EXCEPT ![s].op = "create", ![s].offer = offer]
      BY <1>1 DEF LockUserForCheckout
    <3>3. [txn[s] EXCEPT !.op = "create", !.offer = offer] \in Txn
      BY <3>1 DEF Txn
    <3>4. txn' = [txn EXCEPT ![s] = [txn[s] EXCEPT !.op = "create", !.offer = offer]]
      BY <3>2 DEF TypeOK
    <3>5. QED  BY <1>1, <3>3, <3>4 DEF LockUserForCheckout, TypeOK
  <2>2. \A r \in Sessions : RequestOK(txn[r])'
    BY <1>1 DEF LockUserForCheckout, TypeOK, Txn, RequestOK, orderRow
  <2>3. QED  BY <2>1, <2>2 DEF TypeOK, orderRow
<1>2. ASSUME NEW o \in OrderIds, CommitCreate(s, o)  PROVE TypeOK'
  <2> DEFINE t == txn[s]
  <2>1. t \in Txn /\ t.actor \in Customers /\ t.type \in OrderTypes
    BY <1>2 DEF CommitCreate, TypeOK, Txn, RequestOK
  <2>2. txn' \in [Sessions -> Txn] /\ \A r \in Sessions : RequestOK(txn[r])'
    BY <1>2, EndType DEF CommitCreate, TypeOK
  <2>3. /\ status' \in [OrderIds -> Row] /\ orderType' \in [OrderIds -> OrderTypes \cup {None}]
        /\ owner' \in [OrderIds -> Customers \cup {None}]
        /\ claims' \subseteq Customers
    BY <1>2, <2>1 DEF CommitCreate, TypeOK, Row, Statuses, ClaimsAfterCreate
  <2>4. welcome' \in [OrderIds -> BOOLEAN]
    <3>1. GrantsOffer(t) \in BOOLEAN
      BY Zenon DEF GrantsOffer
    <3>2. QED  BY <1>2, <3>1 DEF CommitCreate, TypeOK
  <2>5. audit' \in [OrderIds -> [status : Row, driver : Drivers \cup {None}]]
    BY <1>2 DEF CommitCreate, TypeOK, Row, Statuses
  <2>6. \A p \in OrderIds : status'[p] # "ABSENT" => orderType'[p] # None /\ owner'[p] # None
    BY <1>2, <2>1, UsersAreDistinct DEF CommitCreate, TypeOK, OrderTypes
  <2>7. QED
    BY <1>2, <2>2, <2>3, <2>4, <2>5, <2>6 DEF CommitCreate, TypeOK
<1>3. ASSUME CommitUpdate(s)  PROVE TypeOK'
  <2> DEFINE t == txn[s]
  <2>1. t \in Txn /\ t.order \in OrderIds /\ status[t.order] # "ABSENT" /\ t.to # "ABSENT"
    BY <1>3 DEF CommitUpdate, TypeOK, RequestOK
  <2>2. /\ status' \in [OrderIds -> Row]
        /\ driver' \in [OrderIds -> Drivers \cup {None}]
    BY <1>3, <2>1 DEF CommitUpdate, TypeOK, Txn
  <2>3. completedAt' \in [OrderIds -> BOOLEAN]
    <3>1. (completedAt[t.order] \/ Finishes(t)) \in BOOLEAN
      OBVIOUS
    <3>2. QED  BY <1>3, <2>1, <3>1 DEF CommitUpdate, TypeOK
  <2>4. audit' \in [OrderIds -> [status : Row, driver : Drivers \cup {None}]]
    <3>1. audit[t.order] \in [status : Row, driver : Drivers \cup {None}]
      BY <2>1 DEF TypeOK
    <3>2. Logged(t, audit[t.order]) \in [status : Row, driver : Drivers \cup {None}]
      BY <2>1, <3>1 DEF Logged, Txn, Row, Statuses
    <3>3. QED  BY <1>3, <2>1, <3>2 DEF CommitUpdate, TypeOK
  <2>5. claims' \subseteq Customers
    BY <1>3, <2>1 DEF CommitUpdate, TypeOK
  <2>6. \A p \in OrderIds : status'[p] # "ABSENT" <=> status[p] # "ABSENT"
    BY <1>3, <2>1 DEF CommitUpdate, TypeOK
  <2>7. txn' \in [Sessions -> Txn] /\ \A r \in Sessions : RequestOK(txn[r])'
    BY <1>3, <2>6, EndType DEF CommitUpdate
  <2>8. QED
    BY <1>3, <2>2, <2>3, <2>4, <2>5, <2>6, <2>7 DEF CommitUpdate, TypeOK
<1>4. ASSUME CommitRating(s)  PROVE TypeOK'
  <2>1. txn' \in [Sessions -> Txn] /\ \A r \in Sessions : RequestOK(txn[r])'
    BY <1>4, EndType DEF CommitRating
  <2>2. QED  BY <1>4, <2>1 DEF CommitRating, TypeOK
<1>5. ASSUME Rollback(s)  PROVE TypeOK'
  <2>1. txn' \in [Sessions -> Txn] /\ \A r \in Sessions : RequestOK(txn[r])'
    BY <1>5, EndType DEF Rollback, orderRow
  <2>2. QED  BY <1>5, <2>1 DEF Rollback, TypeOK, orderRow
<1>6. QED  BY <1>1, <1>2, <1>3, <1>4, <1>5 DEF Proceed

\* Account changes and the store switch keep the types.
LEMMA AdministerType ==
  ASSUME TypeOK, Administer
  PROVE  TypeOK'
<1>1. ASSUME NEW u \in Customers \cup Drivers, BlockUser(u) \/ UnblockUser(u)  PROVE TypeOK'
  BY <1>1 DEF BlockUser, UnblockUser, TypeOK, RequestOK, orderRow
<1>2. ASSUME NEW d \in Drivers, DeleteDriver(d)  PROVE TypeOK'
  BY <1>2 DEF DeleteDriver, TypeOK, RequestOK
<1>3. ASSUME NEW enabled \in BOOLEAN, SetOrdering(enabled)  PROVE TypeOK'
  BY <1>3 DEF SetOrdering, TypeOK, RequestOK, orderRow
<1>4. QED  BY <1>1, <1>2, <1>3 DEF Administer

\* Nothing changes, so the types stay.
LEMMA StutterType == TypeOK /\ UNCHANGED vars => TypeOK'
  BY DEF TypeOK, RequestOK, vars, orderRow

\* Every column keeps its type, an order keeps its row once it has one, and
\* the request a session serves names the order or customer it is about.
THEOREM TypeCorrect == Spec => []TypeOK
<1>1. TypeOK /\ [Next]_vars => TypeOK'
  BY RequestType, ProceedType, AdministerType, StutterType DEF Next
<1>2. QED  BY InitType, <1>1, PTL DEF Spec

-----------------------------------------------------------------------------
(* Safety *)

SomeDriverDeleted == \E d \in Drivers : account[d] = "deleted"

\* Nothing is stored about an order before it is created.
FreshRow(o) ==
  status[o] = "ABSENT" => /\ orderType[o] = None /\ driver[o] = None
                          /\ ~completedAt[o] /\ ~welcome[o] /\ ~rated[o]

\* The properties of a single order.
RowFacts(o) ==
  /\ FreshRow(o)
  /\ orderType[o] = "pickup" => status[o] \in {"NEW", "ACCEPTED", "COMPLETED", "CANCELLED"}
  /\ orderType[o] = "delivery" => status[o] # "COMPLETED"
  /\ status[o] \in SuccessfulFinal => completedAt[o]
  /\ status[o] \in Dispatched /\ driver[o] = None => SomeDriverDeleted
  /\ rated[o] /\ orderType[o] = "delivery" => completedAt[o]
  /\ welcome[o] => owner[o] \in claims

\* What the checks made on a snapshot still guarantee at commit time.
AcceptFacts(t) == t.to = "ACCEPTED" /\ t.newDriver = t.seenDriver

AssignFacts(t) ==
  /\ orderType[t.order] = "delivery"
  /\ t.to \in {"ASSIGNED", "READY"}
  /\ t.newDriver \in Drivers
  /\ t.newDriver = t.seenDriver /\ driver[t.order] = None => SomeDriverDeleted

StatusFacts(t) ==
  /\ t.newDriver = t.seenDriver
  /\ t.to \notin {"NEW", "ASSIGNED"}
  /\ t.to = "COMPLETED" => orderType[t.order] # "delivery"
  /\ t.to \in Dispatched => orderType[t.order] = "delivery"
  /\ t.to \in Dispatched /\ driver[t.order] = None => SomeDriverDeleted

RateFacts(t) == orderType[t.order] = "delivery" => completedAt[t.order]

RequestFacts(t) ==
  /\ t.storeLock => ordering = "enabled"
  /\ t.op = "accept" => AcceptFacts(t)
  /\ t.op = "assign" => AssignFacts(t)
  /\ t.op = "status" => StatusFacts(t)
  /\ t.op = "rate" => RateFacts(t)

\* The inductive invariant.
Safe ==
  /\ TypeOK
  /\ \A o \in OrderIds : RowFacts(o)
  /\ WelcomeOfferOnce
  /\ \A s \in Sessions : RequestFacts(txn[s])

-----------------------------------------------------------------------------
\* The facts hold of an empty database with no request in flight.
LEMMA InitSafe == Init => Safe
<1> SUFFICES ASSUME Init PROVE Safe
  OBVIOUS
<1>1. \A o \in OrderIds : RowFacts(o)
  BY UsersAreDistinct
     DEF Init, RowFacts, FreshRow, SuccessfulFinal, Dispatched
<1>2. WelcomeOfferOnce
  BY DEF Init, WelcomeOfferOnce
<1>3. \A s \in Sessions : RequestFacts(txn[s])
  BY DEF Init, RequestFacts, NoTxn
<1>4. QED  BY InitType, <1>1, <1>2, <1>3 DEF Safe

\* Starting a request changes no row, so it is safe when the facts its record
\* is to be relied on for hold.
LEMMA BeginSafe ==
  ASSUME Safe, NEW s \in Sessions, NEW fields \in Txn, RequestOK(fields),
         RequestFacts(fields), Begin(s, fields)
  PROVE  Safe'
<1>1. TypeOK'
  BY BeginType DEF Safe
<1>2. UNCHANGED <<orderRow, claims, account, ordering>>
  BY DEF Begin
<1>3. \A o \in OrderIds : RowFacts(o)'
  BY <1>2 DEF Safe, RowFacts, FreshRow, SomeDriverDeleted, orderRow
<1>4. WelcomeOfferOnce'
  BY <1>2 DEF Safe, WelcomeOfferOnce, orderRow
<1>5. \A r \in Sessions : RequestFacts(txn[r])'
  <2> SUFFICES ASSUME NEW r \in Sessions PROVE RequestFacts(txn[r])'
    OBVIOUS
  <2>1. txn'[r] = IF r = s THEN fields ELSE txn[r]
    BY DEF Begin, Safe, TypeOK
  <2>2. QED
    BY <1>2, <2>1 DEF Safe, RequestFacts, AcceptFacts, AssignFacts, StatusFacts, RateFacts,
                      SomeDriverDeleted, orderRow
<1>6. QED  BY <1>1, <1>3, <1>4, <1>5 DEF Safe

\* No transition leads back to NEW.
LEMMA TransitionTargets ==
  ASSUME NEW from \in Row, NEW target \in AllowedTransitions[from]
  PROVE  target # "NEW"
  BY DEF AllowedTransitions

\* The status endpoint leads an order into a driver's hands only from READY or
\* OUT_FOR_DELIVERY, where it is there already, or to READY once it has a driver.
LEMMA DispatchTargets ==
  ASSUME NEW o \in OrderIds, status[o] \in Row, orderType[o] \in OrderTypes, RowFacts(o),
         NEW target \in AllowedTransitions[status[o]], FitsOrder(o, target),
         target \in Dispatched
  PROVE  orderType[o] = "delivery" /\ (driver[o] = None => SomeDriverDeleted)
<1>1. CASE target = "READY"
  BY <1>1 DEF FitsOrder
<1>2. CASE target # "READY"
  <2>1. status[o] \in {"READY", "OUT_FOR_DELIVERY"}
    BY <1>2 DEF FitsOrder, AllowedTransitions, Dispatched
  <2>2. QED  BY <2>1 DEF RowFacts, OrderTypes, Dispatched
<1>3. QED  BY <1>1, <1>2

\* The first step of every request leaves the facts in place.
LEMMA RequestSafe ==
  ASSUME Safe, NEW s \in Sessions, Request(s)
  PROVE  Safe'
<1> USE UsersAreDistinct
<1>1. ASSUME NEW c \in Customers, NEW type \in OrderTypes, BeginCheckout(s, c, type)
      PROVE  Safe'
  <2> DEFINE t == [NoTxn EXCEPT !.op = "checkout", !.actor = c, !.type = type,
                                !.storeLock = (ordering # "missing")]
  <2>1. t \in Txn /\ RequestOK(t)
    BY CheckoutRecord
  <2>2. t.op = "checkout" /\ (t.storeLock => ordering # "missing")
    BY DEF NoTxn
  <2>3. RequestFacts(t)
    <3> HIDE DEF t
    <3>1. ordering \in {"enabled", "missing"}
      BY <1>1 DEF BeginCheckout, Safe, TypeOK
    <3>2. QED  BY <2>2, <3>1 DEF RequestFacts
  <2>4. QED  BY <1>1, <2>1, <2>3, BeginSafe DEF BeginCheckout
<1>2. ASSUME NEW c \in Customers, NEW o \in OrderIds, BeginReorder(s, c, o)
      PROVE  Safe'
  <2> DEFINE t == [NoTxn EXCEPT !.op = "create", !.actor = c, !.type = orderType[o]]
  <2>1. t \in Txn /\ RequestOK(t)
    BY <1>2, ReorderRecord DEF Safe, BeginReorder
  <2>2. RequestFacts(t)
    BY DEF NoTxn, RequestFacts
  <2>3. QED  BY <1>2, <2>1, <2>2, BeginSafe DEF BeginReorder
<1>3. ASSUME NEW c \in Customers, NEW o \in OrderIds, BeginRating(s, c, o)
      PROVE  Safe'
  <2> DEFINE t == OnOrder("rate", c, o)
  <2>1. t \in Txn /\ RequestOK(t)
    BY <1>3, RateRecord DEF Safe, BeginRating, MayRate
  <2>2. t.op = "rate" /\ t.order = o /\ t.storeLock = FALSE
    BY DEF OnOrder, NoTxn
  <2>3. orderType[o] = "delivery" => completedAt[o]
    BY <1>3 DEF BeginRating, MayRate, RatingEligible, Safe, RowFacts
  <2>4. RequestFacts(t)
    <3> HIDE DEF t
    <3>1. QED  BY <2>2, <2>3 DEF RequestFacts, RateFacts
  <2>5. QED  BY <1>3, <2>1, <2>4, BeginSafe DEF BeginRating, MayRate
<1>4. ASSUME NEW a \in Staff, NEW o \in OrderIds, BeginAccept(s, a, o)
      PROVE  Safe'
  <2> DEFINE t == [OnOrder("accept", a, o) EXCEPT !.to = "ACCEPTED"]
  <2>1. t \in Txn /\ RequestOK(t)
    BY <1>4, UpdateRecord DEF Safe, BeginAccept, MayAccept, Statuses, Users
  <2>2. t.op = "accept" /\ t.to = "ACCEPTED" /\ t.newDriver = t.seenDriver /\ t.storeLock = FALSE
    BY DEF OnOrder, NoTxn
  <2>3. RequestFacts(t)
    <3> HIDE DEF t
    <3>1. QED  BY <2>2 DEF RequestFacts, AcceptFacts
  <2>4. QED  BY <1>4, <2>1, <2>3, BeginSafe DEF BeginAccept, MayAccept
<1>5. ASSUME NEW a \in Staff, NEW o \in OrderIds, NEW d \in Drivers, BeginAssign(s, a, o, d)
      PROVE  Safe'
  <2> DEFINE to == IF status[o] = "READY" THEN "READY" ELSE "ASSIGNED"
             t == [OnOrder("assign", a, o) EXCEPT !.to = to, !.newDriver = d]
  <2>1. t \in Txn /\ RequestOK(t)
    BY <1>5, OnOrderType DEF Safe, BeginAssign, MayAssign, Assignable, Statuses, Users
  <2>2. t.op = "assign" /\ t.to \in {"ASSIGNED", "READY"} /\ t.order = o
        /\ t.seenDriver = driver[o] /\ t.newDriver = d /\ t.storeLock = FALSE
    BY DEF OnOrder, NoTxn
  <2>3. orderType[o] = "delivery"
    BY <1>5 DEF BeginAssign, MayAssign, Assignable
  <2>4. RequestFacts(t)
    <3> HIDE DEF t
    <3>1. QED  BY <2>2, <2>3 DEF RequestFacts, AssignFacts
  <2>5. QED  BY <1>5, <2>1, <2>4, BeginSafe DEF BeginAssign, MayAssign
<1>6. ASSUME NEW a \in Users, NEW o \in OrderIds, NEW target \in Statuses,
             BeginStatus(s, a, o, target)
      PROVE  Safe'
  <2> DEFINE t == [OnOrder("status", a, o) EXCEPT !.to = target]
  <2>1. t \in Txn /\ RequestOK(t)
    BY <1>6, UpdateRecord DEF Safe, BeginStatus, MaySetStatus
  <2>2. t.op = "status" /\ t.to = target /\ t.newDriver = t.seenDriver
        /\ t.order = o /\ t.storeLock = FALSE
    BY DEF OnOrder, NoTxn
  <2>3. target \notin {"NEW", "ASSIGNED"} /\ (target = "COMPLETED" => orderType[o] # "delivery")
    BY <1>6, TransitionTargets DEF BeginStatus, MaySetStatus, FitsOrder, Safe, TypeOK
  <2>4. target \in Dispatched =>
          orderType[o] = "delivery" /\ (driver[o] = None => SomeDriverDeleted)
    BY <1>6, DispatchTargets DEF BeginStatus, MaySetStatus, FitsOrder, Safe, TypeOK
  <2>5. RequestFacts(t)
    <3> HIDE DEF t
    <3>1. QED  BY <2>2, <2>3, <2>4 DEF RequestFacts, StatusFacts
  <2>6. QED  BY <1>6, <2>1, <2>5, BeginSafe DEF BeginStatus, MaySetStatus
<1>7. QED  BY <1>1, <1>2, <1>3, <1>4, <1>5, <1>6 DEF Request

-----------------------------------------------------------------------------
\* A request in flight keeps its facts while the columns they read change only
\* in the directions the code allows.
LEMMA FactsKept ==
  ASSUME Safe, UNCHANGED txn \/ \E s \in Sessions : End(s),
         \A o \in OrderIds : status[o] # "ABSENT" => orderType'[o] = orderType[o],
         \A o \in OrderIds : driver'[o] = None => driver[o] = None \/ SomeDriverDeleted',
         \A o \in OrderIds : completedAt[o] => completedAt'[o],
         SomeDriverDeleted => SomeDriverDeleted',
         \A r \in Sessions : txn'[r].storeLock => ordering' = ordering
  PROVE  \A r \in Sessions : RequestFacts(txn[r])'
<1> SUFFICES ASSUME NEW r \in Sessions PROVE RequestFacts(txn[r])'
  OBVIOUS
<1>1. txn'[r] = NoTxn \/ txn'[r] = txn[r]
  BY DEF End, Safe, TypeOK
<1>2. CASE txn'[r] = NoTxn
  BY <1>2 DEF RequestFacts, NoTxn
<1>3. CASE txn'[r] = txn[r]
  <2> DEFINE t == txn[r]
  <2>1. RequestFacts(t) /\ RequestOK(t)
    BY DEF Safe, TypeOK
  <2>2. t.storeLock => ordering' = "enabled"
    BY <1>3, <2>1 DEF RequestFacts
  <2>3. ASSUME t.op = "assign" PROVE AssignFacts(t)'
    BY <1>3, <2>1, <2>3 DEF RequestFacts, RequestOK, AssignFacts
  <2>4. ASSUME t.op = "status" PROVE StatusFacts(t)'
    BY <1>3, <2>1, <2>4 DEF RequestFacts, RequestOK, StatusFacts
  <2>5. ASSUME t.op = "rate" PROVE RateFacts(t)'
    BY <1>3, <2>1, <2>5 DEF RequestFacts, RequestOK, RateFacts
  <2>6. ASSUME t.op = "accept" PROVE AcceptFacts(t)'
    BY <1>3, <2>1, <2>6 DEF RequestFacts, AcceptFacts
  <2>7. QED  BY <1>3, <2>2, <2>3, <2>4, <2>5, <2>6 DEF RequestFacts
<1>4. QED  BY <1>1, <1>2, <1>3

\* Inserting an order gives it a fresh row and at most one order the offer.
LEMMA CommitCreateSafe ==
  ASSUME Safe, NEW s \in Sessions, NEW o \in OrderIds, CommitCreate(s, o)
  PROVE  Safe'
<1> DEFINE t == txn[s]
<1>1. TypeOK /\ TypeOK'
  BY ProceedType DEF Proceed, Safe
<1>2. t.actor \in Customers /\ status[o] = "ABSENT" /\ RowFacts(o)
  BY <1>1 DEF CommitCreate, TypeOK, RequestOK, Safe
<1>3. /\ status'[o] = "NEW" /\ owner'[o] = t.actor /\ welcome'[o] = GrantsOffer(t)
      /\ driver'[o] = None /\ ~completedAt'[o] /\ ~rated'[o]
  BY <1>1, <1>2 DEF CommitCreate, TypeOK, RowFacts, FreshRow
<1>4. claims \subseteq claims' /\ (GrantsOffer(t) => t.actor \in claims')
  BY DEF CommitCreate, ClaimsAfterCreate
<1>5. ASSUME NEW p \in OrderIds, p # o
      PROVE  /\ status'[p] = status[p] /\ orderType'[p] = orderType[p] /\ owner'[p] = owner[p]
             /\ welcome'[p] = welcome[p]
  BY <1>1, <1>5 DEF CommitCreate, TypeOK
<1>6. UNCHANGED <<driver, completedAt, rated, account, ordering>>
  BY DEF CommitCreate
<1>7. \A p \in OrderIds : RowFacts(p)'
  <2> SUFFICES ASSUME NEW p \in OrderIds PROVE RowFacts(p)'
    OBVIOUS
  <2>1. CASE p = o
    BY <2>1, <1>3, <1>4 DEF RowFacts, FreshRow, SuccessfulFinal, Dispatched
  <2>2. CASE p # o
    BY <2>2, <1>4, <1>5, <1>6 DEF Safe, RowFacts, FreshRow, SomeDriverDeleted
  <2>3. QED  BY <2>1, <2>2
<1>8. WelcomeOfferOnce'
  <2>1. ASSUME NEW p \in OrderIds, p # o, welcome'[p], welcome'[o], owner'[p] = owner'[o]
        PROVE  FALSE
    <3>1. t.actor \notin claims
      BY <2>1, <1>3 DEF GrantsOffer
    <3>2. owner[p] \in claims
      BY <2>1, <1>5 DEF Safe, RowFacts
    <3>3. QED  BY <2>1, <1>3, <1>5, <3>1, <3>2
  <2>2. QED  BY <2>1, <1>5 DEF Safe, WelcomeOfferOnce
<1>9. \A r \in Sessions : RequestFacts(txn[r])'
  <2>1. End(s)
    BY DEF CommitCreate
  <2>2. SomeDriverDeleted => SomeDriverDeleted'
    BY <1>6 DEF SomeDriverDeleted
  <2>3. QED  BY <1>2, <1>5, <1>6, <2>1, <2>2, FactsKept
<1>10. QED  BY <1>1, <1>7, <1>8, <1>9 DEF Safe

\* Writing a stale snapshot back keeps what the rows and the other requests rely on.
LEMMA CommitUpdateSafe ==
  ASSUME Safe, NEW s \in Sessions, CommitUpdate(s)
  PROVE  Safe'
<1> DEFINE t == txn[s]
<1>1. TypeOK /\ TypeOK'
  BY ProceedType DEF Proceed, Safe
<1> PICK o \in OrderIds : o = t.order
  BY <1>1 DEF CommitUpdate, TypeOK, RequestOK
<1>2. /\ o \in OrderIds /\ status[o] # "ABSENT" /\ t.to # "ABSENT" /\ t \in Txn
      /\ RowFacts(o) /\ RequestFacts(t) /\ t.op \in {"accept", "assign", "status"}
  BY <1>1 DEF CommitUpdate, TypeOK, RequestOK, Safe
<1>3. /\ status'[o] = IF t.to # t.seen THEN t.to ELSE status[o]
      /\ driver'[o] = IF t.newDriver # t.seenDriver THEN t.newDriver ELSE driver[o]
      /\ completedAt'[o] = (completedAt[o] \/ Finishes(t))
  BY <1>1, <1>2 DEF CommitUpdate, TypeOK
<1>4. ASSUME NEW p \in OrderIds, p # o
      PROVE  status'[p] = status[p] /\ driver'[p] = driver[p] /\ completedAt'[p] = completedAt[p]
  BY <1>1, <1>4 DEF CommitUpdate, TypeOK
<1>5. UNCHANGED <<orderType, owner, welcome, rated, account, ordering>>
  BY DEF CommitUpdate
<1>6. claims \subseteq claims'
  BY DEF CommitUpdate
<1>7. t.newDriver # t.seenDriver => t.newDriver \in Drivers /\ t.newDriver # None
  BY <1>2, UsersAreDistinct DEF RequestFacts, AcceptFacts, AssignFacts, StatusFacts
<1>8. RowFacts(o)'
  <2>1. orderType[o] \in OrderTypes
    BY <1>1, <1>2 DEF TypeOK
  <2>2. FreshRow(o)'
    BY <1>2, <1>3 DEF FreshRow
  <2>3. orderType[o] = "pickup" => status'[o] \in {"NEW", "ACCEPTED", "COMPLETED", "CANCELLED"}
    BY <1>2, <1>3
       DEF RowFacts, RequestFacts, AcceptFacts, AssignFacts, StatusFacts, Dispatched, Txn, Row, Statuses
  <2>4. orderType[o] = "delivery" => status'[o] # "COMPLETED"
    BY <1>2, <1>3 DEF RowFacts, RequestFacts, AcceptFacts, AssignFacts, StatusFacts
  <2>5. status'[o] \in SuccessfulFinal => completedAt'[o]
    <3>1. CASE t.to # t.seen /\ t.to \in SuccessfulFinal
      <4>1. t.op = "status"
        BY <3>1, <1>2 DEF RequestFacts, AcceptFacts, AssignFacts, SuccessfulFinal
      <4>2. Finishes(t)
        BY <3>1, <4>1, <1>2 DEF Finishes, RequestFacts, StatusFacts, SuccessfulFinal, Dispatched
      <4>3. QED  BY <4>2, <1>3
    <3>2. CASE ~(t.to # t.seen /\ t.to \in SuccessfulFinal)
      BY <3>2, <1>2, <1>3 DEF RowFacts
    <3>3. QED  BY <3>1, <3>2
  <2>6. status'[o] \in Dispatched /\ driver'[o] = None => SomeDriverDeleted'
    <3>1. driver'[o] = None => driver[o] = None /\ t.newDriver = t.seenDriver
      BY <1>3, <1>7
    <3>2. SomeDriverDeleted' <=> SomeDriverDeleted
      BY <1>5 DEF SomeDriverDeleted
    <3>3. QED
      BY <1>2, <1>3, <3>1, <3>2
         DEF RowFacts, RequestFacts, AcceptFacts, AssignFacts, StatusFacts, Dispatched
  <2>7. rated'[o] /\ orderType'[o] = "delivery" => completedAt'[o]
    BY <1>2, <1>3, <1>5 DEF RowFacts
  <2>8. welcome'[o] => owner'[o] \in claims'
    BY <1>2, <1>5, <1>6 DEF RowFacts
  <2>9. QED
    BY <1>5, <2>2, <2>3, <2>4, <2>5, <2>6, <2>7, <2>8 DEF RowFacts
<1>9. \A p \in OrderIds : RowFacts(p)'
  <2> SUFFICES ASSUME NEW p \in OrderIds, p # o PROVE RowFacts(p)'
    BY <1>8
  <2>1. QED  BY <1>4, <1>5, <1>6 DEF Safe, RowFacts, FreshRow, SomeDriverDeleted
<1>10. WelcomeOfferOnce'
  BY <1>5 DEF Safe, WelcomeOfferOnce
<1>11. \A r \in Sessions : RequestFacts(txn[r])'
  <2>1. End(s)
    BY DEF CommitUpdate
  <2>2. SomeDriverDeleted => SomeDriverDeleted'
    BY <1>5 DEF SomeDriverDeleted
  <2>3. \A p \in OrderIds : driver'[p] = None => driver[p] = None
    BY <1>2, <1>3, <1>4, <1>7
  <2>4. \A p \in OrderIds : completedAt[p] => completedAt'[p]
    BY <1>3, <1>4
  <2>5. QED  BY <1>5, <2>1, <2>2, <2>3, <2>4, FactsKept
<1>12. QED  BY <1>1, <1>9, <1>10, <1>11 DEF Safe

\* The second step of every request, or its rollback, keeps the facts.
LEMMA ProceedSafe ==
  ASSUME Safe, NEW s \in Sessions, Proceed(s)
  PROVE  Safe'
<1>1. TypeOK /\ TypeOK'
  BY ProceedType DEF Safe
<1>2. ASSUME LockUserForCheckout(s)  PROVE Safe'
  <2>1. UNCHANGED <<orderRow, claims, account, ordering>>
    BY <1>2 DEF LockUserForCheckout
  <2>2. \A r \in Sessions : RequestFacts(txn[r])'
    <3> SUFFICES ASSUME NEW r \in Sessions PROVE RequestFacts(txn[r])'
      OBVIOUS
    <3>1. CASE r # s
      <4>1. txn'[r] = txn[r]
        BY <1>1, <1>2, <3>1 DEF LockUserForCheckout, TypeOK
      <4>2. QED
        BY <2>1, <4>1 DEF Safe, RequestFacts, AcceptFacts, AssignFacts, StatusFacts, RateFacts,
                          SomeDriverDeleted, orderRow
    <3>2. CASE r = s
      <4>1. txn'[r].op = "create" /\ txn'[r].storeLock = txn[r].storeLock
        BY <1>1, <1>2, <3>2 DEF LockUserForCheckout, TypeOK, Txn
      <4>2. QED  BY <2>1, <4>1 DEF Safe, RequestFacts
    <3>3. QED  BY <3>1, <3>2
  <2>3. QED
    BY <1>1, <2>1, <2>2
       DEF Safe, RowFacts, FreshRow, WelcomeOfferOnce, SomeDriverDeleted, orderRow
<1>3. ASSUME NEW o \in OrderIds, CommitCreate(s, o)  PROVE Safe'
  BY <1>3, CommitCreateSafe
<1>4. ASSUME CommitUpdate(s)  PROVE Safe'
  BY <1>4, CommitUpdateSafe
<1>5. ASSUME CommitRating(s)  PROVE Safe'
  <2> PICK o \in OrderIds : o = txn[s].order
    BY <1>1, <1>5 DEF CommitRating, TypeOK, RequestOK
  <2>1. UNCHANGED <<status, orderType, owner, driver, completedAt, welcome, audit,
                    claims, account, ordering>>
    BY <1>5 DEF CommitRating
  <2>2. (orderType[o] = "delivery" => completedAt[o]) /\ status[o] # "ABSENT"
    BY <1>1, <1>5 DEF CommitRating, Safe, RequestFacts, RateFacts, TypeOK, RequestOK
  <2>3. \A p \in OrderIds : p # o => rated'[p] = rated[p]
    BY <1>1, <1>5 DEF CommitRating, TypeOK
  <2>4. \A p \in OrderIds : RowFacts(p)'
    <3> SUFFICES ASSUME NEW p \in OrderIds PROVE RowFacts(p)'
      OBVIOUS
    <3>1. CASE p = o
      BY <3>1, <2>1, <2>2 DEF Safe, RowFacts, FreshRow, SomeDriverDeleted
    <3>2. CASE p # o
      BY <3>2, <2>1, <2>3 DEF Safe, RowFacts, FreshRow, SomeDriverDeleted
    <3>3. QED  BY <3>1, <3>2
  <2>5. \A r \in Sessions : RequestFacts(txn[r])'
    BY <1>5, <2>1, FactsKept DEF CommitRating, SomeDriverDeleted
  <2>6. QED  BY <1>1, <2>1, <2>4, <2>5 DEF Safe, WelcomeOfferOnce
<1>6. ASSUME Rollback(s)  PROVE Safe'
  <2>1. End(s) /\ UNCHANGED <<orderRow, claims, account, ordering>>
    BY <1>6 DEF Rollback
  <2>2. \A r \in Sessions : RequestFacts(txn[r])'
    BY <2>1, FactsKept DEF SomeDriverDeleted, orderRow
  <2>3. QED
    BY <1>1, <2>1, <2>2
       DEF Safe, RowFacts, FreshRow, WelcomeOfferOnce, SomeDriverDeleted, orderRow
<1>7. QED  BY <1>2, <1>3, <1>4, <1>5, <1>6 DEF Proceed

\* Blocking accounts, deleting a driver and switching the store keep the facts.
LEMMA AdministerSafe ==
  ASSUME Safe, Administer
  PROVE  Safe'
<1>1. TypeOK /\ TypeOK'
  BY AdministerType DEF Safe
<1>2. ASSUME NEW u \in Customers \cup Drivers, BlockUser(u) \/ UnblockUser(u)  PROVE Safe'
  <2>1. UNCHANGED <<orderRow, claims, ordering, txn>>
    BY <1>2 DEF BlockUser, UnblockUser
  <2>2. SomeDriverDeleted => SomeDriverDeleted'
    BY <1>1, <1>2 DEF BlockUser, UnblockUser, SomeDriverDeleted, TypeOK
  <2>3. \A r \in Sessions : RequestFacts(txn[r])'
    BY <2>1, <2>2, FactsKept DEF orderRow
  <2>4. QED  BY <1>1, <2>1, <2>2, <2>3 DEF Safe, RowFacts, FreshRow, WelcomeOfferOnce, orderRow
<1>3. ASSUME NEW d \in Drivers, DeleteDriver(d)  PROVE Safe'
  <2>1. UNCHANGED <<status, orderType, owner, completedAt, welcome, rated, claims, ordering, txn>>
    BY <1>3 DEF DeleteDriver
  <2>2. SomeDriverDeleted'
    BY <1>1, <1>3 DEF DeleteDriver, SomeDriverDeleted, TypeOK
  <2>3. \A o \in OrderIds : driver[o] = None => driver'[o] = None
    BY <1>3 DEF DeleteDriver
  <2>4. \A r \in Sessions : RequestFacts(txn[r])'
    BY <2>1, <2>2, FactsKept
  <2>5. \A o \in OrderIds : RowFacts(o)'
    BY <2>1, <2>2, <2>3 DEF Safe, RowFacts, FreshRow
  <2>6. QED  BY <1>1, <2>1, <2>4, <2>5 DEF Safe, WelcomeOfferOnce
<1>4. ASSUME NEW enabled \in BOOLEAN, SetOrdering(enabled)  PROVE Safe'
  <2>1. UNCHANGED <<orderRow, claims, account, txn>> /\ \A s \in Sessions : ~txn[s].storeLock
    BY <1>4 DEF SetOrdering
  <2>2. SomeDriverDeleted' <=> SomeDriverDeleted
    BY <2>1 DEF SomeDriverDeleted
  <2>3. \A r \in Sessions : RequestFacts(txn[r])'
    BY <2>1, <2>2, FactsKept DEF orderRow
  <2>4. QED  BY <1>1, <2>1, <2>2, <2>3 DEF Safe, RowFacts, FreshRow, WelcomeOfferOnce, orderRow
<1>5. QED  BY <1>2, <1>3, <1>4 DEF Administer

\* Nothing changes, so nothing is lost.
LEMMA StutterSafe == Safe /\ UNCHANGED vars => Safe'
<1> SUFFICES ASSUME Safe, UNCHANGED vars PROVE Safe'
  OBVIOUS
<1>1. TypeOK'
  BY StutterType DEF Safe
<1>2. UNCHANGED <<orderRow, claims, account, ordering, txn>>
  BY DEF vars
<1>3. SomeDriverDeleted' <=> SomeDriverDeleted
  BY <1>2 DEF SomeDriverDeleted
<1>4. \A r \in Sessions : RequestFacts(txn[r])'
  BY <1>2, <1>3, FactsKept DEF orderRow
<1>5. QED  BY <1>1, <1>2, <1>3, <1>4 DEF Safe, RowFacts, FreshRow, WelcomeOfferOnce, orderRow

\* However the requests of order_service overlap, the row facts and what each request
\* in flight still relies on hold: the inductive invariant of this module.
THEOREM SafeIsInvariant == Spec => []Safe
<1>1. Safe /\ [Next]_vars => Safe'
  BY RequestSafe, ProceedSafe, AdministerSafe, StutterSafe DEF Next
<1>2. QED  BY InitSafe, <1>1, PTL DEF Spec

\* The type checks of assign_driver and update_order_status, made on a snapshot
\* that may be stale, keep pickup orders out of the drivers' statuses and delivery
\* orders out of COMPLETED.
THEOREM StatusFitsTheType == Spec => []StatusMatchesType
<1>1. Safe => StatusMatchesType
  BY DEF Safe, StatusMatchesType, RowFacts
<1>2. QED  BY SafeIsInvariant, <1>1, PTL

\* Whatever else writes the row meanwhile, an order that counts as successful has
\* completed_at.
THEOREM FinishedIsStamped == Spec => []FinishedHasCompletionTime
<1>1. Safe => FinishedHasCompletionTime
  BY DEF Safe, FinishedHasCompletionTime, RowFacts
<1>2. QED  BY SafeIsInvariant, <1>1, PTL

\* Only the permanent deletion of a driver leaves an order in a driver's hands
\* without one; racing assignments and status changes do not.
THEOREM DispatchedKeepsADriver == Spec => []DispatchedHasDriver
<1>1. Safe => DispatchedHasDriver
  BY DEF Safe, DispatchedHasDriver, RowFacts, SomeDriverDeleted
<1>2. QED  BY SafeIsInvariant, <1>1, PTL

\* A rating of a delivery order commits only after the order was delivered, even
\* when its status is overwritten between the rating's check and its insert.
THEOREM RatedDeliveryWasDelivered == Spec => []DeliveryRatedAfterDelivery
<1>1. Safe => DeliveryRatedAfterDelivery
  BY DEF Safe, DeliveryRatedAfterDelivery, RowFacts
<1>2. QED  BY SafeIsInvariant, <1>1, PTL

\* The claim inserted with ON CONFLICT DO NOTHING makes the first-time offer a
\* once-only one, without the help of any lock.
THEOREM OfferGrantedOnce == Spec => []WelcomeOfferOnce
<1>1. Safe => WelcomeOfferOnce
  BY DEF Safe
<1>2. QED  BY SafeIsInvariant, <1>1, PTL

\* A store is never paused while a checkout that found it open, with its settings
\* row, is still running.
THEOREM PauseWaits == Spec => []PauseWaitsForCheckouts
<1>1. Safe => PauseWaitsForCheckouts
  BY DEF Safe, PauseWaitsForCheckouts, RequestFacts
<1>2. QED  BY SafeIsInvariant, <1>1, PTL

\* update_order_status by a driver: the row policy is evaluated on the row the
\* UPDATE finds, so a driver the order was taken from changes nothing.
THEOREM DriverChangesOwnOrderOnly == Spec => DriverActsOnOwnOrder
<1> DEFINE A == \A s \in Sessions, o \in OrderIds :
                  /\ txn[s].actor \in Drivers /\ txn[s].order = o /\ txn'[s] = NoTxn
                  /\ status'[o] # status[o]
                  => driver[o] = txn[s].actor
<1>1. TypeOK /\ [Next]_vars => A \/ UNCHANGED vars
  <2> SUFFICES ASSUME TypeOK, Next,
                      NEW s \in Sessions, NEW o \in OrderIds,
                      txn[s].actor \in Drivers, txn[s].order = o, txn'[s] = NoTxn,
                      status'[o] # status[o]
               PROVE  driver[o] = txn[s].actor
    OBVIOUS
  <2>1. txn'[s] # txn[s]
    BY UsersAreDistinct DEF NoTxn
  <2>2. ASSUME NEW r \in Sessions, Request(r)  PROVE FALSE
    BY <2>2 DEF Request, BeginCheckout, BeginReorder, BeginRating, MayRate, BeginAccept, MayAccept, BeginAssign, MayAssign,
                BeginStatus, Begin, orderRow
  <2>3. ASSUME NEW r \in Sessions, NEW p \in OrderIds, CommitCreate(r, p)  PROVE FALSE
    <3>1. r = s
      BY <2>1, <2>3 DEF CommitCreate, End, TypeOK
    <3>2. QED  BY <2>3, <3>1, UsersAreDistinct DEF CommitCreate, TypeOK, RequestOK
  <2>4. ASSUME NEW r \in Sessions, CommitUpdate(r)  PROVE driver[o] = txn[s].actor
    <3>1. r = s
      BY <2>1, <2>4 DEF CommitUpdate, End, TypeOK
    <3>2. QED  BY <2>4, <3>1 DEF CommitUpdate, VisibleToActor
  <2>5. ASSUME NEW r \in Sessions, LockUserForCheckout(r) \/ CommitRating(r) \/ Rollback(r)
        PROVE  FALSE
    BY <2>5 DEF LockUserForCheckout, CommitRating, Rollback, orderRow
  <2>6. ASSUME Administer  PROVE FALSE
    BY <2>6 DEF Administer, BlockUser, UnblockUser, DeleteDriver, SetOrdering, orderRow
  <2>7. QED  BY <2>2, <2>3, <2>4, <2>5, <2>6 DEF Next, Proceed
<1>2. QED  BY TypeCorrect, <1>1, PTL DEF Spec, DriverActsOnOwnOrder
-----------------------------------------------------------------------------
(* The screens' buttons: what they ask of a copy against what the server asks *)

\* What the rules know of an order that exists.
LEMMA OrderKnown ==
  ASSUME Safe, NEW o \in Orders
  PROVE  /\ o \in OrderIds /\ status[o] \in Statuses /\ orderType[o] \in OrderTypes
         /\ owner[o] \in Customers /\ driver[o] \in Drivers \cup {None}
         /\ orderType[o] = "pickup" => status[o] \in {"NEW", "ACCEPTED", "COMPLETED", "CANCELLED"}
  BY DEF Safe, TypeOK, RowFacts, Orders, Row

\* A customer's buttons.
LEMMA CustomerButtonsPass ==
  ASSUME Safe, NEW u \in Customers, NEW o \in Orders, Authenticated(u), MayOpen(u, o),
         NEW b \in CustomerButtons(o)
  PROVE  CustomerTakes(u, o, b)
<1>1. owner[o] = u /\ status[o] # "ABSENT"
  BY DEF MayOpen, Orders
<1>2. Rate # SetStatus("CANCELLED")
  BY DEF Rate, SetStatus, Press
<1>3. CASE b = SetStatus("CANCELLED") /\ status[o] = "NEW"
  <2>1. MaySetStatus(u, o, "CANCELLED")
    BY <1>1, <1>3, UsersAreDistinct
       DEF MaySetStatus, RoleCanSetStatus, FitsOrder, AllowedTransitions, Row, Statuses
  <2>2. QED  BY <1>2, <1>3, <2>1 DEF CustomerTakes
<1>4. CASE b = Rate /\ IsOrderRateable(o) /\ ~rated[o]
  <2>1. MayRate(u, o)
    BY <1>1, <1>4 DEF MayRate, IsOrderRateable, RatingEligible
  <2>2. QED  BY <1>2, <1>4, <2>1 DEF CustomerTakes
<1>5. QED
  BY <1>3, <1>4 DEF CustomerButtons, CancelCard, RatingCard, PastOrderCard, When

\* A driver's buttons.
LEMMA DriverButtonsPass ==
  ASSUME Safe, NEW u \in Drivers, NEW o \in Orders, NEW knowsReady \in BOOLEAN,
         Authenticated(u), MayOpen(u, o), NEW b \in DriverButtons(o, knowsReady)
  PROVE  DriverTakes(u, o, b)
<1>1. driver[o] = u /\ status[o] # "ABSENT"
  BY DEF MayOpen, Orders
<1>2. \/ b = SetStatus("OUT_FOR_DELIVERY") /\ status[o] = "READY"
      \/ b = SetStatus("DELIVERED") /\ status[o] = "OUT_FOR_DELIVERY"
  BY DEF DriverButtons, When, ShownStatus
<1>3. orderType[o] = "delivery"
  BY <1>2, OrderKnown DEF OrderTypes
<1>4. b.to \in AllowedTransitions[status[o]] /\ b.to \in {"OUT_FOR_DELIVERY", "DELIVERED"}
  BY <1>2 DEF SetStatus, Press, AllowedTransitions, Row, Statuses
<1>5. QED
  BY <1>1, <1>3, <1>4, UsersAreDistinct DEF DriverTakes, MaySetStatus, RoleCanSetStatus, FitsOrder

\* A status button of the staff that fits the order's type and status.
LEMMA StaffMaySet ==
  ASSUME NEW a \in Staff, NEW o \in Orders,
         NEW target \in Statuses \ {"ASSIGNED"}, target \in AllowedTransitions[status[o]],
         target = "COMPLETED" => orderType[o] # "delivery",
         target = "READY" => orderType[o] = "delivery" /\ driver[o] # None
  PROVE  StaffTakes(a, o, SetStatus(target))
<1>1. SetStatus(target).op = "status" /\ SetStatus(target).to = target
  BY DEF SetStatus, Press
<1>2. MaySetStatus(a, o, target)
  BY UsersAreDistinct DEF MaySetStatus, Authenticated, RoleCanSetStatus, FitsOrder, Orders
<1>3. QED  BY <1>1, <1>2 DEF StaffTakes

LEMMA StaffMayAccept ==
  ASSUME NEW a \in Staff, NEW o \in Orders, status[o] = "NEW"
  PROVE  StaffTakes(a, o, Accept)
  BY DEF StaffTakes, Accept, Press, MayAccept

LEMMA StaffMayAssign ==
  ASSUME NEW a \in Staff, NEW o \in Orders, NEW d \in Drivers, Assignable(o),
         account[d] = "active"
  PROVE  StaffTakes(a, o, Assign(d))
  BY DEF StaffTakes, Assign, MayAssign

\* The transitions the buttons rely on.
LEMMA StepsForward ==
  /\ \A from \in ActiveStatuses : "CANCELLED" \in AllowedTransitions[from]
  /\ "COMPLETED" \in AllowedTransitions["ACCEPTED"]
  /\ "READY" \in AllowedTransitions["ASSIGNED"]
  /\ "OUT_FOR_DELIVERY" \in AllowedTransitions["READY"]
  /\ "DELIVERED" \in AllowedTransitions["OUT_FOR_DELIVERY"]
  BY DEF AllowedTransitions, ActiveStatuses, Row, Statuses

\* The tablet's buttons all pass; of the admin phone's, one may not.
LEMMA StaffButtonsPass ==
  ASSUME Safe, NEW a \in Staff, NEW o \in Orders, NEW b \in StaffButtons(a, o)
  PROVE  \/ StaffTakes(a, o, b)
         \/ b \notin TabletButtons(o) /\ b = SetStatus("READY") /\ driver[o] = None
<1> USE OrderKnown, StepsForward DEF OrderTypes
<1>1. CASE b = Accept /\ status[o] = "NEW"
  BY <1>1, StaffMayAccept
<1>2. CASE b = SetStatus("CANCELLED") /\ status[o] \in ActiveStatuses
  BY <1>2, StaffMaySet DEF Statuses
<1>3. CASE b = SetStatus("READY") /\ CanMarkDeliveryReady(o)
  BY <1>3, StaffMaySet DEF CanMarkDeliveryReady, Statuses
<1>4. CASE b = SetStatus("OUT_FOR_DELIVERY") /\ status[o] = "READY"
  BY <1>4, StaffMaySet DEF Statuses
<1>5. CASE b = SetStatus("DELIVERED") /\ status[o] = "OUT_FOR_DELIVERY"
  BY <1>5, StaffMaySet DEF Statuses
<1>6. CASE b = SetStatus("COMPLETED") /\ IsPickupInProgress(o)
  BY <1>6, StaffMaySet DEF IsPickupInProgress, Statuses
<1>7. CASE \E d \in Drivers : b = Assign(d) /\ account[d] = "active" /\ Assignable(o)
  BY <1>7, StaffMayAssign
<1>8. CASE b = SetStatus("READY") /\ b \notin TabletButtons(o)
           /\ orderType[o] = "delivery" /\ status[o] = "ASSIGNED"
  <2>1. driver[o] = None
    BY <1>8 DEF TabletButtons, CardButtons, When, CanMarkDeliveryReady
  <2>2. QED  BY <1>8, <2>1
<1>9. "NEW" \in ActiveStatuses
  BY DEF ActiveStatuses
<1>10. \A d \in LoadedDrivers \cup AvailableDrivers : d \in Drivers /\ account[d] = "active"
  BY DEF LoadedDrivers, AvailableDrivers, Safe, TypeOK
<1>11. CASE b \in CardButtons(o)
  BY <1>1, <1>2, <1>3, <1>4, <1>5, <1>6, <1>9, <1>11
     DEF CardButtons, When, CanMarkOutForDelivery, CanMarkDelivered
<1>12. CASE b \in TabletButtons(o) \ CardButtons(o)
  BY <1>7, <1>10, <1>12 DEF TabletButtons, When, IsDriverAssignment, AssignEach, Assignable
<1>13. CASE b \in AdminButtons(o) \ TabletButtons(o)
  <2>1. CASE b \in AssignEach(LoadedDrivers) /\ orderType[o] = "delivery" /\ status[o] = "ACCEPTED"
    BY <1>7, <1>10, <2>1 DEF AssignEach, Assignable
  <2>2. CASE b \in ForwardAction(o)
    BY <1>1, <1>4, <1>5, <1>6, <1>8, <1>13, <2>2 DEF ForwardAction, When, CanMarkDelivered
  <2>3. QED  BY <1>2, <1>13, <2>1, <2>2 DEF AdminButtons, When
<1>14. CASE b \in AdminDeliveryButtons(a, o)
  <2>1. b \in AssignEach(LoadedDrivers) /\ Assignable(o)
    BY <1>14, UsersAreDistinct
       DEF AdminDeliveryButtons, When, AwaitingDriver, LatestOrders, Assignable
  <2>2. QED  BY <1>7, <1>10, <2>1 DEF AssignEach
<1>15. QED  BY <1>11, <1>12, <1>13, <1>14 DEF StaffButtons

\* A button on a copy just loaded, on any of the four screens, sends a request
\* the server's rules let pass, however requests raced before; but for the
\* admin phone's "ready" after the driver's account was deleted.
THEOREM ButtonsPass == Spec => []ButtonsAccepted
<1>1. ASSUME Safe PROVE ButtonsAccepted
  <2> SUFFICES ASSUME NEW u \in Users, NEW o \in Orders, NEW knowsReady \in BOOLEAN,
                      Authenticated(u), MayOpen(u, o), NEW b \in Buttons(u, o, knowsReady)
               PROVE  \/ Takes(u, o, b)
                      \/ /\ u \in Staff /\ b \notin TabletButtons(o)
                         /\ b = SetStatus("READY") /\ driver[o] = None
    BY DEF ButtonsAccepted
  <2>1. CASE u \in Customers
    <3>1. u \notin Drivers /\ u \notin Staff
      BY <2>1, UsersAreDistinct
    <3>2. b \in CustomerButtons(o)
      BY <2>1, <3>1 DEF Buttons
    <3>3. CustomerTakes(u, o, b)
      BY <1>1, <2>1, <3>2, CustomerButtonsPass
    <3>4. QED  BY <2>1, <3>1, <3>3 DEF Takes
  <2>2. CASE u \in Drivers
    <3>1. u \notin Customers
      BY <2>2, UsersAreDistinct
    <3>2. b \in DriverButtons(o, knowsReady)
      BY <2>2, <3>1, UsersAreDistinct DEF Buttons
    <3>3. DriverTakes(u, o, b)
      BY <1>1, <2>2, <3>2, DriverButtonsPass
    <3>4. QED  BY <2>2, <3>1, <3>3, UsersAreDistinct DEF Takes
  <2>3. CASE u \in Staff
    <3>1. u \notin Customers /\ u \notin Drivers
      BY <2>3, UsersAreDistinct
    <3>2. b \in StaffButtons(u, o)
      BY <2>3, <3>1 DEF Buttons
    <3>3. Takes(u, o, b) = StaffTakes(u, o, b)
      BY <2>3, <3>1 DEF Takes
    <3>4. QED  BY <1>1, <2>3, <3>2, <3>3, StaffButtonsPass
  <2>4. QED  BY <2>1, <2>2, <2>3 DEF Users
<1>2. QED  BY SafeIsInvariant, <1>1, PTL

\* Whatever became of an open order, the staff's screens offer it a step forward
\* besides cancelling, as long as there is a driver to give it to.
THEOREM NobodyStranded == Spec => []NeverStranded
<1>1. ASSUME Safe PROVE NeverStranded
  <2> SUFFICES ASSUME NEW a \in Staff, NEW o \in Orders, status[o] \in ActiveStatuses,
                      NEW d \in AvailableDrivers
               PROVE  \E b \in StaffButtons(a, o) \ {SetStatus("CANCELLED")} : StaffTakes(a, o, b)
    BY DEF NeverStranded
  <2> USE <1>1, OrderKnown, StepsForward DEF OrderTypes
  <2>1. /\ Accept # SetStatus("CANCELLED") /\ Assign(d) # SetStatus("CANCELLED")
        /\ SetStatus("COMPLETED") # SetStatus("CANCELLED")
        /\ SetStatus("DELIVERED") # SetStatus("CANCELLED")
    <3>1. Accept.op = "accept" /\ Assign(d).op = "assign" /\ SetStatus("CANCELLED").op = "status"
      BY DEF Accept, Assign, SetStatus, Press
    <3>2. SetStatus("COMPLETED").to = "COMPLETED" /\ SetStatus("CANCELLED").to = "CANCELLED"
          /\ SetStatus("DELIVERED").to = "DELIVERED"
      BY DEF SetStatus, Press
    <3>3. QED  BY <3>1, <3>2
  <2>2. CASE status[o] = "NEW"
    <3>1. Accept \in StaffButtons(a, o)
      BY <2>2 DEF StaffButtons, TabletButtons, CardButtons, When
    <3>2. QED  BY <2>1, <2>2, <3>1, StaffMayAccept
  <2>3. CASE orderType[o] = "pickup" /\ status[o] = "ACCEPTED"
    <3>1. SetStatus("COMPLETED") \in StaffButtons(a, o)
      BY <2>3 DEF StaffButtons, TabletButtons, CardButtons, When, IsPickupInProgress
    <3>2. StaffTakes(a, o, SetStatus("COMPLETED"))
      BY <2>3, StaffMaySet DEF Statuses
    <3>3. QED  BY <2>1, <3>1, <3>2
  <2>4. CASE orderType[o] = "delivery" /\ status[o] \in {"ACCEPTED", "ASSIGNED", "READY"}
    <3>1. Assign(d) \in StaffButtons(a, o)
      BY <2>4 DEF StaffButtons, TabletButtons, When, IsDriverAssignment, AssignEach
    <3>2. StaffTakes(a, o, Assign(d))
      BY <2>4, StaffMayAssign DEF AvailableDrivers, Assignable
    <3>3. QED  BY <2>1, <3>1, <3>2
  <2>5. CASE status[o] = "OUT_FOR_DELIVERY"
    <3>1. SetStatus("DELIVERED") \in StaffButtons(a, o)
      BY <2>5 DEF StaffButtons, TabletButtons, CardButtons, When, CanMarkDelivered
    <3>2. StaffTakes(a, o, SetStatus("DELIVERED"))
      BY <2>5, StaffMaySet DEF Statuses
    <3>3. QED  BY <2>1, <3>1, <3>2
  <2>6. QED  BY <2>2, <2>3, <2>4, <2>5 DEF ActiveStatuses
<1>2. QED  BY SafeIsInvariant, <1>1, PTL

=============================================================================
