-------------------------- MODULE OrderSerialProofs --------------------------
(***************************************************************************)
(* What holds of the orders when the requests about one order do not       *)
(* overlap (OneRequestPerOrder), proved for every set of users, orders and *)
(* sessions: a customer's active order is the only one, the audit trail    *)
(* and completed_at agree with the row, the first-time offer goes to a     *)
(* first order, the dashboard's figures agree and the backend implements   *)
(* CustomerOrders.                                                         *)
(*                                                                         *)
(* The invariant says that a snapshot stays true until its request         *)
(* commits: an update finds the status it read, which is an active one,    *)
(* and the customer of a new order, whose users row is locked, has neither *)
(* an active order nor, for the first-time offer, a successful one.        *)
(***************************************************************************)
EXTENDS OrderSafetyProofs, FiniteSetTheorems, WellFoundedInduction

\* The driver a column still holds after ON DELETE SET NULL.
Survivor(d) == IF d # None /\ account[d] = "deleted" THEN None ELSE d

\* Environment: at most one request in flight about each order.
OneRequestEach ==
  \A r, s \in Sessions : txn[r].order = txn[s].order /\ txn[r].order # None => r = s

\* The FOR UPDATE lock on users: at most one order of a customer being created.
OneCreatorEach ==
  \A r, s \in Sessions :
    txn[r].op = "create" /\ txn[s].op = "create" /\ txn[r].actor = txn[s].actor => r = s

CreateFacts(t) ==
  /\ ~HasActiveOrder(t.actor)
  /\ t.offer => CompletedOrders(t.actor) = {}

UpdateFacts(t) ==
  /\ t.seen \in ActiveStatuses
  /\ status[t.order] = t.seen
  /\ driver[t.order] = Survivor(t.seenDriver)
  /\ t.op = "assign" => /\ t.newDriver \in Drivers
                        /\ t.to = IF t.seen = "READY" THEN "READY" ELSE "ASSIGNED"
  /\ t.op # "assign" => t.newDriver = t.seenDriver /\ t.to # t.seen

SnapshotHolds(t) ==
  /\ t.op = "create" => CreateFacts(t)
  /\ t.op \in {"accept", "assign", "status"} => UpdateFacts(t)

\* The row agrees with the history of the order.
HistoryAgrees(o) ==
  /\ audit[o].status = status[o]
  /\ driver[o] = Survivor(audit[o].driver)
  /\ completedAt[o] => status[o] \in SuccessfulFinal

\* The inductive invariant.
Serial ==
  /\ TypeOK
  /\ OneRequestEach
  /\ OneCreatorEach
  /\ OneActiveOrder
  /\ \A s \in Sessions : SnapshotHolds(txn[s])
  /\ \A o \in OrderIds : HistoryAgrees(o)

-----------------------------------------------------------------------------
\* The facts hold of an empty database with no request in flight.
LEMMA InitSerial == Init => Serial
<1> SUFFICES ASSUME Init PROVE Serial
  OBVIOUS
<1>1. OneRequestEach /\ OneCreatorEach /\ \A s \in Sessions : SnapshotHolds(txn[s])
  BY DEF Init, OneRequestEach, OneCreatorEach, SnapshotHolds, NoTxn
<1>2. OneActiveOrder
  BY DEF Init, OneActiveOrder, ActiveStatuses
<1>3. \A o \in OrderIds : HistoryAgrees(o)
  BY DEF Init, HistoryAgrees, Survivor
<1>4. QED  BY InitType, <1>1, <1>2, <1>3 DEF Serial

\* Starting a request about an order or a customer nobody else is serving.
LEMMA BeginSerial ==
  ASSUME Serial, NEW s \in Sessions, NEW fields \in Txn, RequestOK(fields),
         SnapshotHolds(fields), Begin(s, fields),
         fields.order # None => \A r \in Sessions : txn[r].order # fields.order,
         fields.op = "create" => ~CustomerLocked(fields.actor)
  PROVE  Serial'
<1>1. TypeOK /\ TypeOK'
  BY BeginType DEF Serial
<1>2. UNCHANGED <<orderRow, claims, account, ordering>>
  BY DEF Begin
<1>3. \A r \in Sessions : txn'[r] = IF r = s THEN fields ELSE txn[r]
  BY <1>1 DEF Begin, TypeOK
<1>4. OneRequestEach'
  BY <1>3 DEF Serial, OneRequestEach
<1>5. OneCreatorEach'
  BY <1>3 DEF Serial, OneCreatorEach, CustomerLocked
<1>6. \A r \in Sessions : SnapshotHolds(txn[r])'
  <2> SUFFICES ASSUME NEW r \in Sessions PROVE SnapshotHolds(txn[r])'
    OBVIOUS
  <2>1. txn'[r] = IF r = s THEN fields ELSE txn[r]
    BY <1>3
  <2>2. QED
    BY <1>2, <2>1 DEF Serial, SnapshotHolds, CreateFacts, UpdateFacts, Survivor,
                      HasActiveOrder, CompletedOrders, orderRow
<1>7. OneActiveOrder' /\ \A o \in OrderIds : HistoryAgrees(o)'
  BY <1>2 DEF Serial, OneActiveOrder, HistoryAgrees, Survivor, orderRow
<1>8. QED  BY <1>1, <1>4, <1>5, <1>6, <1>7 DEF Serial

\* The table leads only out of the active statuses, and never to where it was.
LEMMA TransitionsLeaveActive ==
  ASSUME NEW from \in Row, NEW target \in AllowedTransitions[from]
  PROVE  from \in ActiveStatuses /\ target # from
  BY DEF AllowedTransitions, ActiveStatuses, Row

\* Before it commits, a snapshot's driver is the row's.
LEMMA DriverSurvives ==
  ASSUME Serial, NEW o \in OrderIds
  PROVE  driver[o] = Survivor(driver[o])
  BY DEF Serial, HistoryAgrees, Survivor, TypeOK

\* The first step of every request takes a snapshot that is true.
LEMMA RequestSerial ==
  ASSUME OneRequestPerOrder, Serial, NEW s \in Sessions, Request(s)
  PROVE  Serial'
<1>1. ASSUME NEW c \in Customers, NEW type \in OrderTypes, BeginCheckout(s, c, type)
      PROVE  Serial'
  <2> DEFINE t == [NoTxn EXCEPT !.op = "checkout", !.actor = c, !.type = type,
                                !.storeLock = (ordering # "missing")]
  <2>1. t \in Txn /\ RequestOK(t)
    BY CheckoutRecord
  <2>2. t.op = "checkout" /\ t.order = None
    BY DEF NoTxn
  <2>3. SnapshotHolds(t)
    <3> HIDE DEF t
    <3>1. QED  BY <2>2 DEF SnapshotHolds
  <2>4. QED
    <3> HIDE DEF t
    <3>1. Begin(s, t)
      BY <1>1 DEF BeginCheckout, t
    <3>2. QED  BY <2>1, <2>2, <2>3, <3>1, BeginSerial
<1>2. ASSUME NEW c \in Customers, NEW o \in OrderIds, BeginReorder(s, c, o)
      PROVE  Serial'
  <2> DEFINE t == [NoTxn EXCEPT !.op = "create", !.actor = c, !.type = orderType[o]]
  <2>1. t \in Txn /\ RequestOK(t)
    BY <1>2, ReorderRecord DEF Serial, BeginReorder
  <2>2. t.op = "create" /\ t.order = None /\ t.actor = c /\ t.offer = FALSE
    BY DEF NoTxn
  <2>3. SnapshotHolds(t)
    <3> HIDE DEF t
    <3>1. QED  BY <1>2, <2>2 DEF SnapshotHolds, CreateFacts, BeginReorder
  <2>4. QED
    <3> HIDE DEF t
    <3>1. Begin(s, t) /\ ~CustomerLocked(c)
      BY <1>2 DEF BeginReorder, t
    <3>2. QED  BY <2>1, <2>2, <2>3, <3>1, BeginSerial
<1>3. ASSUME NEW c \in Customers, NEW o \in OrderIds, BeginRating(s, c, o)
      PROVE  Serial'
  <2> DEFINE t == OnOrder("rate", c, o)
  <2>1. t \in Txn /\ RequestOK(t)
    BY <1>3, RateRecord DEF Serial, BeginRating, MayRate
  <2>2. t.op = "rate" /\ t.order = o
    BY DEF OnOrder, NoTxn
  <2>3. SnapshotHolds(t)
    <3> HIDE DEF t
    <3>1. QED  BY <2>2 DEF SnapshotHolds
  <2>4. QED
    <3> HIDE DEF t
    <3>1. Begin(s, t) /\ \A r \in Sessions : txn[r].order # o
      BY <1>3 DEF BeginRating, MayRate, Undisturbed, t
    <3>2. QED  BY <2>1, <2>2, <2>3, <3>1, BeginSerial
<1>4. ASSUME NEW a \in Staff, NEW o \in OrderIds, BeginAccept(s, a, o)
      PROVE  Serial'
  <2> DEFINE t == [OnOrder("accept", a, o) EXCEPT !.to = "ACCEPTED"]
  <2>1. t \in Txn /\ RequestOK(t)
    BY <1>4, UpdateRecord DEF Serial, BeginAccept, MayAccept, Statuses, Users
  <2>2. /\ t.op = "accept" /\ t.order = o /\ t.seen = status[o] /\ t.to = "ACCEPTED"
        /\ t.seenDriver = driver[o] /\ t.newDriver = driver[o]
    BY DEF OnOrder, NoTxn
  <2>3. SnapshotHolds(t)
    <3> HIDE DEF t
    <3>1. QED
      BY <1>4, <2>2, DriverSurvives DEF SnapshotHolds, UpdateFacts, BeginAccept, MayAccept, ActiveStatuses
  <2>4. QED
    <3> HIDE DEF t
    <3>1. Begin(s, t) /\ \A r \in Sessions : txn[r].order # o
      BY <1>4 DEF BeginAccept, MayAccept, Undisturbed, t
    <3>2. QED  BY <2>1, <2>2, <2>3, <3>1, BeginSerial
<1>5. ASSUME NEW a \in Staff, NEW o \in OrderIds, NEW d \in Drivers, BeginAssign(s, a, o, d)
      PROVE  Serial'
  <2> DEFINE to == IF status[o] = "READY" THEN "READY" ELSE "ASSIGNED"
             t == [OnOrder("assign", a, o) EXCEPT !.to = to, !.newDriver = d]
  <2>1. t \in Txn /\ RequestOK(t)
    BY <1>5, OnOrderType DEF Serial, BeginAssign, MayAssign, Assignable, Statuses, Users
  <2>2. /\ t.op = "assign" /\ t.order = o /\ t.seen = status[o] /\ t.to = to
        /\ t.seenDriver = driver[o] /\ t.newDriver = d
    BY DEF OnOrder, NoTxn
  <2>3. SnapshotHolds(t)
    <3> HIDE DEF t
    <3>1. QED
      BY <1>5, <2>2, DriverSurvives
         DEF SnapshotHolds, UpdateFacts, BeginAssign, MayAssign, Assignable, ActiveStatuses
  <2>4. QED
    <3> HIDE DEF t
    <3>1. Begin(s, t) /\ \A r \in Sessions : txn[r].order # o
      BY <1>5 DEF BeginAssign, MayAssign, Undisturbed, t
    <3>2. QED  BY <2>1, <2>2, <2>3, <3>1, BeginSerial
<1>6. ASSUME NEW a \in Users, NEW o \in OrderIds, NEW target \in Statuses,
             BeginStatus(s, a, o, target)
      PROVE  Serial'
  <2> DEFINE t == [OnOrder("status", a, o) EXCEPT !.to = target]
  <2>1. t \in Txn /\ RequestOK(t)
    BY <1>6, UpdateRecord DEF Serial, BeginStatus, MaySetStatus
  <2>2. /\ t.op = "status" /\ t.order = o /\ t.seen = status[o] /\ t.to = target
        /\ t.seenDriver = driver[o] /\ t.newDriver = driver[o]
    BY DEF OnOrder, NoTxn
  <2>3. status[o] \in ActiveStatuses /\ target # status[o]
    BY <1>6, TransitionsLeaveActive DEF BeginStatus, MaySetStatus, Serial, TypeOK
  <2>4. SnapshotHolds(t)
    <3> HIDE DEF t
    <3>1. QED  BY <2>2, <2>3, DriverSurvives DEF SnapshotHolds, UpdateFacts
  <2>5. QED
    <3> HIDE DEF t
    <3>1. Begin(s, t) /\ \A r \in Sessions : txn[r].order # o
      BY <1>6 DEF BeginStatus, MaySetStatus, Undisturbed, t
    <3>2. QED  BY <2>1, <2>2, <2>4, <3>1, BeginSerial
<1>7. QED  BY <1>1, <1>2, <1>3, <1>4, <1>5, <1>6 DEF Request

-----------------------------------------------------------------------------
\* When a session ends and the others keep their requests, those stay unique.
LEMMA EndKeepsUnique ==
  ASSUME Serial, NEW s \in Sessions, End(s)
  PROVE  /\ OneRequestEach' /\ OneCreatorEach'
         /\ \A r \in Sessions : txn'[r] = IF r = s THEN NoTxn ELSE txn[r]
<1>1. \A r \in Sessions : txn'[r] = IF r = s THEN NoTxn ELSE txn[r]
  BY DEF End, Serial, TypeOK
<1>2. NoTxn.order = None /\ NoTxn.op = "idle"
  BY DEF NoTxn
<1>3. OneRequestEach'
  BY <1>1, <1>2 DEF Serial, OneRequestEach
<1>4. OneCreatorEach'
  BY <1>1, <1>2 DEF Serial, OneCreatorEach
<1>5. QED  BY <1>1, <1>3, <1>4

\* Inserting an order, under the customer's lock, leaves that customer with one.
LEMMA CommitCreateSerial ==
  ASSUME Serial, NEW s \in Sessions, NEW o \in OrderIds, CommitCreate(s, o)
  PROVE  Serial'
<1> DEFINE t == txn[s]
<1> PICK c \in Customers : c = t.actor
  BY DEF Serial, CommitCreate, TypeOK, RequestOK
<1>1. TypeOK /\ TypeOK'
  BY ProceedType DEF Proceed, Serial
<1>2. t.op = "create" /\ status[o] = "ABSENT" /\ CreateFacts(t)
  BY DEF CommitCreate, Serial, SnapshotHolds
<1>3. status'[o] = "NEW" /\ owner'[o] = c /\ audit'[o] = [audit[o] EXCEPT !.status = "NEW"]
  BY <1>1 DEF CommitCreate, TypeOK
<1>4. \A p \in OrderIds : p # o =>
        status'[p] = status[p] /\ owner'[p] = owner[p] /\ audit'[p] = audit[p]
  BY <1>1 DEF CommitCreate, TypeOK
<1>5. UNCHANGED <<driver, completedAt, account>>
  BY DEF CommitCreate
<1>6. /\ OneRequestEach' /\ OneCreatorEach'
      /\ \A r \in Sessions : txn'[r] = IF r = s THEN NoTxn ELSE txn[r]
  BY EndKeepsUnique DEF CommitCreate
<1>7. OneActiveOrder'
  <2> SUFFICES ASSUME NEW p \in OrderIds, NEW q \in OrderIds, p # q,
                      status'[p] \in ActiveStatuses, status'[q] \in ActiveStatuses,
                      owner'[p] = owner'[q]
               PROVE  FALSE
    BY DEF OneActiveOrder
  <2>1. CASE p # o /\ q # o
    BY <2>1, <1>4 DEF Serial, OneActiveOrder
  <2>2. CASE p = o \/ q = o
    BY <2>2, <1>2, <1>3, <1>4 DEF CreateFacts, HasActiveOrder
  <2>3. QED  BY <2>1, <2>2
<1>8. \A r \in Sessions : SnapshotHolds(txn[r])'
  <2> SUFFICES ASSUME NEW r \in Sessions PROVE SnapshotHolds(txn[r])'
    OBVIOUS
  <2>1. CASE r = s
    BY <2>1, <1>6 DEF SnapshotHolds, NoTxn
  <2>2. CASE r # s
    <3>1. txn'[r] = txn[r] /\ SnapshotHolds(txn[r]) /\ RequestOK(txn[r])
      BY <2>2, <1>1, <1>6 DEF Serial, TypeOK
    <3>2. ASSUME txn[r].op = "create" PROVE CreateFacts(txn[r])'
      <4>1. txn[r].actor # c
        BY <2>2, <3>2, <1>2 DEF Serial, OneCreatorEach
      <4>2. QED
        BY <1>3, <1>4, <3>1, <3>2, <4>1
           DEF SnapshotHolds, CreateFacts, HasActiveOrder, CompletedOrders
    <3>3. ASSUME txn[r].op \in {"accept", "assign", "status"} PROVE UpdateFacts(txn[r])'
      <4>1. txn[r].order \in OrderIds /\ txn[r].order # o
        BY <3>1, <3>3, <1>2 DEF RequestOK
      <4>2. QED
        BY <1>4, <1>5, <3>1, <3>3, <4>1 DEF SnapshotHolds, UpdateFacts, Survivor
    <3>4. QED  BY <3>1, <3>2, <3>3 DEF SnapshotHolds
  <2>3. QED  BY <2>1, <2>2
<1>9. \A p \in OrderIds : HistoryAgrees(p)'
  <2> SUFFICES ASSUME NEW p \in OrderIds PROVE HistoryAgrees(p)'
    OBVIOUS
  <2>1. CASE p # o
    BY <2>1, <1>4, <1>5 DEF Serial, HistoryAgrees, Survivor
  <2>2. CASE p = o
    <3>1. audit'[o].status = "NEW" /\ audit'[o].driver = audit[o].driver
      BY <1>1, <1>3 DEF TypeOK
    <3>2. ~completedAt[o]
      BY <1>2 DEF Serial, HistoryAgrees, SuccessfulFinal
    <3>3. QED  BY <2>2, <1>3, <1>5, <3>1, <3>2 DEF Serial, HistoryAgrees, Survivor
  <2>3. QED  BY <2>1, <2>2
<1>10. QED  BY <1>1, <1>6, <1>7, <1>8, <1>9 DEF Serial

\* A request nobody overlapped writes what the row's own state allows.
LEMMA CommitUpdateSerial ==
  ASSUME Serial, NEW s \in Sessions, CommitUpdate(s)
  PROVE  Serial'
<1> DEFINE t == txn[s]
<1>1. TypeOK /\ TypeOK'
  BY ProceedType DEF Proceed, Serial
<1> PICK o \in OrderIds : o = t.order
  BY <1>1 DEF CommitUpdate, TypeOK, RequestOK
<1>2. UpdateFacts(t) /\ t.op \in {"accept", "assign", "status"} /\ t \in Txn
  BY <1>1 DEF CommitUpdate, Serial, SnapshotHolds, TypeOK
<1>3. /\ status'[o] = IF t.to # t.seen THEN t.to ELSE status[o]
      /\ driver'[o] = IF t.newDriver # t.seenDriver THEN t.newDriver ELSE driver[o]
      /\ completedAt'[o] = (completedAt[o] \/ Finishes(t))
      /\ audit'[o] = Logged(t, audit[o])
  BY <1>1 DEF CommitUpdate, TypeOK
<1>4. \A p \in OrderIds : p # o =>
        /\ status'[p] = status[p] /\ driver'[p] = driver[p]
        /\ completedAt'[p] = completedAt[p] /\ audit'[p] = audit[p]
  BY <1>1 DEF CommitUpdate, TypeOK
<1>5. UNCHANGED <<owner, account>>
  BY DEF CommitUpdate
<1>6. /\ OneRequestEach' /\ OneCreatorEach'
      /\ \A r \in Sessions : txn'[r] = IF r = s THEN NoTxn ELSE txn[r]
  BY EndKeepsUnique DEF CommitUpdate
<1>7. status[o] = t.seen /\ status[o] \in ActiveStatuses
  BY <1>2 DEF UpdateFacts
<1>8. OneActiveOrder'
  BY <1>4, <1>5, <1>7 DEF Serial, OneActiveOrder
<1>9. \A r \in Sessions : SnapshotHolds(txn[r])'
  <2> SUFFICES ASSUME NEW r \in Sessions PROVE SnapshotHolds(txn[r])'
    OBVIOUS
  <2>1. CASE r = s
    BY <2>1, <1>6 DEF SnapshotHolds, NoTxn
  <2>2. CASE r # s
    <3>1. txn'[r] = txn[r] /\ SnapshotHolds(txn[r]) /\ RequestOK(txn[r])
      BY <2>2, <1>1, <1>6 DEF Serial, TypeOK
    <3>2. ASSUME txn[r].op = "create" PROVE CreateFacts(txn[r])'
      <4>1. owner[o] # txn[r].actor
        BY <3>1, <3>2, <1>7 DEF SnapshotHolds, CreateFacts, HasActiveOrder
      <4>2. QED
        BY <1>4, <1>5, <3>1, <3>2, <4>1
           DEF SnapshotHolds, CreateFacts, HasActiveOrder, CompletedOrders
    <3>3. ASSUME txn[r].op \in {"accept", "assign", "status"} PROVE UpdateFacts(txn[r])'
      <4>1. txn[r].order \in OrderIds /\ txn[r].order # o
        BY <2>2, <3>1, <3>3, UsersAreDistinct DEF RequestOK, Serial, OneRequestEach
      <4>2. QED
        BY <1>4, <1>5, <3>1, <3>3, <4>1 DEF SnapshotHolds, UpdateFacts, Survivor
    <3>4. QED  BY <3>1, <3>2, <3>3 DEF SnapshotHolds
  <2>3. QED  BY <2>1, <2>2
<1>10. HistoryAgrees(o)'
  <2>1. HistoryAgrees(o)
    BY DEF Serial
  <2>2. audit'[o].status = status'[o]
    <3>1. CASE t.op = "assign"
      BY <3>1, <1>2, <1>3, <1>7, <2>1 DEF Logged, UpdateFacts, HistoryAgrees
    <3>2. CASE t.op # "assign"
      <4>1. audit[o] \in [status : Row, driver : Drivers \cup {None}]
        BY <1>1 DEF TypeOK
      <4>2. audit'[o].status = t.to
        BY <3>2, <1>3, <4>1 DEF Logged
      <4>3. QED  BY <3>2, <1>2, <1>3, <4>2 DEF UpdateFacts
    <3>3. QED  BY <3>1, <3>2
  <2>3. driver'[o] = Survivor(audit'[o].driver)
    <3>1. CASE t.op = "assign"
      <4>1. audit'[o].driver = t.newDriver
        BY <3>1, <1>3 DEF Logged
      <4>2. t.newDriver # t.seenDriver => account[t.newDriver] # "deleted"
        BY <3>1, <1>2, UsersAreDistinct DEF CommitUpdate, DriverRowExists, UpdateFacts
      <4>3. QED  BY <1>2, <1>3, <4>1, <4>2 DEF UpdateFacts, Survivor
    <3>2. CASE t.op # "assign"
      <4>1. audit[o] \in [status : Row, driver : Drivers \cup {None}]
        BY <1>1 DEF TypeOK
      <4>2. audit'[o].driver = audit[o].driver
        BY <3>2, <1>3, <4>1 DEF Logged
      <4>3. QED  BY <3>2, <1>2, <1>3, <2>1, <4>2 DEF UpdateFacts, HistoryAgrees
    <3>3. QED  BY <3>1, <3>2
  <2>4. completedAt'[o] => status'[o] \in SuccessfulFinal
    <3>1. ~completedAt[o]
      BY <1>7, <2>1 DEF HistoryAgrees, ActiveStatuses, SuccessfulFinal
    <3>2. Finishes(t) => status'[o] \in SuccessfulFinal
      BY <1>3, <1>7 DEF Finishes, ActiveStatuses, SuccessfulFinal
    <3>3. QED  BY <1>3, <3>1, <3>2
  <2>5. Survivor(audit[o].driver)' = Survivor(audit'[o].driver)
    BY <1>5 DEF Survivor
  <2>6. QED  BY <2>2, <2>3, <2>4, <2>5 DEF HistoryAgrees
<1>11. \A p \in OrderIds : HistoryAgrees(p)'
  <2> SUFFICES ASSUME NEW p \in OrderIds, p # o PROVE HistoryAgrees(p)'
    BY <1>10
  <2>1. QED  BY <1>4, <1>5 DEF Serial, HistoryAgrees, Survivor
<1>12. QED  BY <1>1, <1>6, <1>8, <1>9, <1>11 DEF Serial

\* The second step of every request, or its rollback, keeps the snapshots true.
LEMMA ProceedSerial ==
  ASSUME Serial, NEW s \in Sessions, Proceed(s)
  PROVE  Serial'
<1>1. TypeOK /\ TypeOK'
  BY ProceedType DEF Serial
<1>2. ASSUME LockUserForCheckout(s)  PROVE Serial'
  <2>1. UNCHANGED <<orderRow, claims, account, ordering>>
    BY <1>2 DEF LockUserForCheckout
  <2>2. /\ \A r \in Sessions : r # s => txn'[r] = txn[r]
        /\ txn'[s].op = "create" /\ txn'[s].actor = txn[s].actor /\ txn'[s].order = txn[s].order
        /\ txn'[s].offer => EligibleForFirstTimeOffer(txn[s].actor)
        /\ ~CustomerLocked(txn[s].actor) /\ ~HasActiveOrder(txn[s].actor)
    BY <1>1, <1>2 DEF LockUserForCheckout, TypeOK, Txn
  <2>3. OneRequestEach'
    BY <2>2 DEF Serial, OneRequestEach
  <2>4. OneCreatorEach'
    BY <2>2 DEF Serial, OneCreatorEach, CustomerLocked
  <2>5. \A r \in Sessions : SnapshotHolds(txn[r])'
    <3> SUFFICES ASSUME NEW r \in Sessions PROVE SnapshotHolds(txn[r])'
      OBVIOUS
    <3>1. CASE r = s
      BY <3>1, <2>1, <2>2 DEF SnapshotHolds, CreateFacts, HasActiveOrder, CompletedOrders,
                              EligibleForFirstTimeOffer, orderRow
    <3>2. CASE r # s
      BY <3>2, <2>1, <2>2 DEF Serial, SnapshotHolds, CreateFacts, UpdateFacts, Survivor,
                              HasActiveOrder, CompletedOrders, orderRow
    <3>3. QED  BY <3>1, <3>2
  <2>6. OneActiveOrder' /\ \A o \in OrderIds : HistoryAgrees(o)'
    BY <2>1 DEF Serial, OneActiveOrder, HistoryAgrees, Survivor, orderRow
  <2>7. QED  BY <1>1, <2>3, <2>4, <2>5, <2>6 DEF Serial
<1>3. ASSUME NEW o \in OrderIds, CommitCreate(s, o)  PROVE Serial'
  BY <1>3, CommitCreateSerial
<1>4. ASSUME CommitUpdate(s)  PROVE Serial'
  BY <1>4, CommitUpdateSerial
<1>5. ASSUME CommitRating(s) \/ Rollback(s)  PROVE Serial'
  <2>1. UNCHANGED <<status, owner, driver, completedAt, audit, account>>
    BY <1>5 DEF CommitRating, Rollback, orderRow
  <2>2. /\ OneRequestEach' /\ OneCreatorEach'
        /\ \A r \in Sessions : txn'[r] = IF r = s THEN NoTxn ELSE txn[r]
    BY <1>5, EndKeepsUnique DEF CommitRating, Rollback
  <2>3. \A r \in Sessions : SnapshotHolds(txn[r])'
    <3> SUFFICES ASSUME NEW r \in Sessions PROVE SnapshotHolds(txn[r])'
      OBVIOUS
    <3>1. CASE r = s
      BY <3>1, <2>2 DEF SnapshotHolds, NoTxn
    <3>2. CASE r # s
      BY <3>2, <2>1, <2>2 DEF Serial, SnapshotHolds, CreateFacts, UpdateFacts, Survivor,
                              HasActiveOrder, CompletedOrders
    <3>3. QED  BY <3>1, <3>2
  <2>4. OneActiveOrder' /\ \A o \in OrderIds : HistoryAgrees(o)'
    BY <2>1 DEF Serial, OneActiveOrder, HistoryAgrees, Survivor
  <2>5. QED  BY <1>1, <2>2, <2>3, <2>4 DEF Serial
<1>6. QED  BY <1>2, <1>3, <1>4, <1>5 DEF Proceed

\* Account changes and the store switch keep the snapshots true.
LEMMA AdministerSerial ==
  ASSUME Serial, Administer
  PROVE  Serial'
<1>1. TypeOK /\ TypeOK'
  BY AdministerType DEF Serial
<1>2. UNCHANGED <<status, owner, completedAt, audit, txn>>
  BY DEF Administer, BlockUser, UnblockUser, DeleteDriver, SetOrdering, orderRow
<1>3. \A e \in Drivers \cup {None}, o \in OrderIds :
        driver[o] = Survivor(e) => driver'[o] = Survivor(e)'
  <2>1. ASSUME NEW u \in Customers \cup Drivers, BlockUser(u) \/ UnblockUser(u),
               NEW e \in Drivers \cup {None}
        PROVE  driver' = driver /\ Survivor(e)' = Survivor(e)
    BY <2>1, <1>1 DEF BlockUser, UnblockUser, Survivor, orderRow, TypeOK
  <2>2. ASSUME NEW d \in Drivers, DeleteDriver(d), NEW e \in Drivers \cup {None},
               NEW o \in OrderIds, driver[o] = Survivor(e)
        PROVE  driver'[o] = Survivor(e)'
    BY <2>2, <1>1, UsersAreDistinct DEF DeleteDriver, Survivor, TypeOK
  <2>3. ASSUME NEW enabled \in BOOLEAN, SetOrdering(enabled), NEW e \in Drivers \cup {None}
        PROVE  driver' = driver /\ Survivor(e)' = Survivor(e)
    BY <2>3 DEF SetOrdering, Survivor, orderRow
  <2>4. QED  BY <2>1, <2>2, <2>3 DEF Administer
<1>4. \A r \in Sessions : SnapshotHolds(txn[r])'
  <2> SUFFICES ASSUME NEW r \in Sessions PROVE SnapshotHolds(txn[r])'
    OBVIOUS
  <2>1. /\ SnapshotHolds(txn[r]) /\ RequestOK(txn[r]) /\ txn'[r] = txn[r]
        /\ txn[r].seenDriver \in Drivers \cup {None}
    BY <1>2 DEF Serial, TypeOK, Txn
  <2>2. \A o \in OrderIds : driver[o] = Survivor(txn[r].seenDriver)
                              => driver'[o] = Survivor(txn[r].seenDriver)'
    <3> PICK e \in Drivers \cup {None} : e = txn[r].seenDriver
      BY <2>1
    <3>1. Survivor(txn[r].seenDriver)' = Survivor(e)'
      BY <2>1 DEF Survivor
    <3>2. QED  BY <1>3, <3>1
  <2>3. QED
    BY <1>2, <2>1, <2>2 DEF SnapshotHolds, RequestOK, CreateFacts, UpdateFacts,
                            HasActiveOrder, CompletedOrders
<1>5. \A o \in OrderIds : HistoryAgrees(o)'
  <2> SUFFICES ASSUME NEW o \in OrderIds PROVE HistoryAgrees(o)'
    OBVIOUS
  <2> PICK e \in Drivers \cup {None} : e = audit[o].driver
    BY <1>1 DEF TypeOK
  <2>1. Survivor(audit[o].driver)' = Survivor(e)'
    BY <1>2 DEF Survivor
  <2>2. driver[o] = Survivor(e)
    BY DEF Serial, HistoryAgrees
  <2>3. QED  BY <1>2, <1>3, <2>1, <2>2 DEF Serial, HistoryAgrees
<1>6. OneRequestEach' /\ OneCreatorEach' /\ OneActiveOrder'
  BY <1>2 DEF Serial, OneRequestEach, OneCreatorEach, OneActiveOrder
<1>7. QED  BY <1>1, <1>4, <1>5, <1>6 DEF Serial

\* Nothing changes, so nothing is lost.
LEMMA StutterSerial == Serial /\ UNCHANGED vars => Serial'
<1> SUFFICES ASSUME Serial, UNCHANGED vars PROVE Serial'
  OBVIOUS
<1>1. TypeOK'
  BY StutterType DEF Serial
<1>2. UNCHANGED <<orderRow, claims, account, ordering, txn>>
  BY DEF vars
<1>3. \A s \in Sessions : SnapshotHolds(txn[s])'
  BY <1>2 DEF Serial, SnapshotHolds, CreateFacts, UpdateFacts, Survivor, HasActiveOrder,
              CompletedOrders, orderRow
<1>4. QED
  BY <1>1, <1>2, <1>3 DEF Serial, OneRequestEach, OneCreatorEach, OneActiveOrder, HistoryAgrees,
                          Survivor, orderRow

\* When the requests about one order do not overlap, every snapshot of order_service
\* stays true until its request commits: the inductive invariant of this module.
THEOREM SerialIsInvariant ==
  ASSUME OneRequestPerOrder
  PROVE  Spec => []Serial
<1>1. Serial /\ [Next]_vars => Serial'
  BY RequestSerial, ProceedSerial, AdministerSerial, StutterSerial DEF Next
<1>2. QED  BY InitSerial, <1>1, PTL DEF Spec

\* _ensure_no_active_customer_order, made under the FOR UPDATE lock on the
\* customer: two orders of one customer are never active together.
THEOREM OneOrderAtATime ==
  ASSUME OneRequestPerOrder
  PROVE  Spec => []OneActiveOrder
<1>1. Serial => OneActiveOrder
  BY DEF Serial
<1>2. QED  BY SerialIsInvariant, <1>1, PTL

\* Replaying order_events gives the row's status and, unless the driver was
\* deleted, its driver.
THEOREM HistoryIsReplayable ==
  ASSUME OneRequestPerOrder
  PROVE  Spec => []AuditMatchesRow
<1>1. Serial => AuditMatchesRow
  BY DEF Serial, HistoryAgrees, Survivor, AuditMatchesRow
<1>2. QED  BY SerialIsInvariant, <1>1, PTL

\* completed_at marks only orders that were fulfilled and stayed so.
THEOREM StampMeansFulfilled ==
  ASSUME OneRequestPerOrder
  PROVE  Spec => []CompletionTimeOnlyIfFulfilled
<1>1. Serial => CompletionTimeOnlyIfFulfilled
  BY DEF Serial, HistoryAgrees, CompletionTimeOnlyIfFulfilled
<1>2. QED  BY SerialIsInvariant, <1>1, PTL

\* The count of past orders that opened the first-time offer, read under the
\* customer's lock, is still zero when the order that got it is inserted.
THEOREM OfferGoesToFirstOrder ==
  ASSUME OneRequestPerOrder
  PROVE  Spec => WelcomeOfferIsFirst
<1> DEFINE A == \A o \in OrderIds :
                  welcome'[o] /\ ~welcome[o] => CompletedOrders(owner'[o]) = {}
<1>1. Serial /\ [Next]_vars => A \/ UNCHANGED vars
  <2> SUFFICES ASSUME Serial, Next, NEW o \in OrderIds, welcome'[o], ~welcome[o]
               PROVE  CompletedOrders(owner'[o]) = {}
    OBVIOUS
  <2>1. ASSUME NEW s \in Sessions, Request(s)  PROVE UNCHANGED welcome
    BY <2>1 DEF Request, BeginCheckout, BeginReorder, BeginRating, MayRate, BeginAccept, MayAccept, BeginAssign, MayAssign,
                BeginStatus, Begin, orderRow
  <2>2. ASSUME NEW s \in Sessions,
               LockUserForCheckout(s) \/ CommitUpdate(s) \/ CommitRating(s) \/ Rollback(s)
        PROVE  UNCHANGED welcome
    BY <2>2 DEF LockUserForCheckout, CommitUpdate, CommitRating, Rollback, orderRow
  <2>3. ASSUME Administer  PROVE UNCHANGED welcome
    BY <2>3 DEF Administer, BlockUser, UnblockUser, DeleteDriver, SetOrdering, orderRow
  <2>4. PICK s \in Sessions, p \in OrderIds : CommitCreate(s, p)
    BY <2>1, <2>2, <2>3 DEF Next, Proceed
  <2>5. p = o /\ GrantsOffer(txn[s]) /\ owner'[o] = txn[s].actor
    BY <2>4 DEF CommitCreate, Serial, TypeOK
  <2>6. CreateFacts(txn[s])
    BY <2>4 DEF CommitCreate, Serial, SnapshotHolds
  <2>7. QED  BY <2>5, <2>6 DEF GrantsOffer, CreateFacts
<1>2. QED  BY SerialIsInvariant, <1>1, PTL DEF Spec, WelcomeOfferIsFirst

-----------------------------------------------------------------------------
(* Refinement of CustomerOrders *)

\* What each status means to the customer.
LEMMA StageValues ==
  /\ StageOf("ABSENT") = "absent"
  /\ \A x \in ActiveStatuses : StageOf(x) = "open"
  /\ \A x \in SuccessfulFinal : StageOf(x) = "fulfilled"
  /\ StageOf("CANCELLED") = "cancelled"
  BY DEF StageOf, ActiveStatuses, SuccessfulFinal

\* Only the active statuses read as open.
LEMMA OpenIsActive ==
  ASSUME NEW x \in Row, StageOf(x) = "open"
  PROVE  x \in ActiveStatuses
  BY DEF StageOf, ActiveStatuses, SuccessfulFinal, Row, Statuses

\* With no order placed, nothing has been promised yet.
LEMMA InitPromised == Init => Promise!Init
<1> SUFFICES ASSUME Init PROVE Promise!Init
  OBVIOUS
<1>1. \A o \in OrderIds : StageOf(status[o]) = "absent"
  BY StageValues DEF Init
<1>2. QED  BY <1>1 DEF Init, Promise!Init, Stage

\* Writing one order's status writes that order's stage.
LEMMA StageWritten ==
  ASSUME TypeOK, NEW o \in OrderIds, NEW new \in Row, status' = [status EXCEPT ![o] = new]
  PROVE  Stage' = [Stage EXCEPT ![o] = StageOf(new)]
<1>1. \A p \in OrderIds : status'[p] = IF p = o THEN new ELSE status[p]
  BY DEF TypeOK
<1>2. Stage' = [p \in OrderIds |-> StageOf(status'[p])]
  BY DEF Stage, StageOf
<1>3. \A p \in OrderIds :
        StageOf(status'[p]) = IF p = o THEN StageOf(new) ELSE StageOf(status[p])
  BY <1>1
<1>4. Stage' = [p \in OrderIds |-> IF p = o THEN StageOf(new) ELSE StageOf(status[p])]
  BY <1>2, <1>3
<1>5. [Stage EXCEPT ![o] = StageOf(new)] =
        [p \in OrderIds |-> IF p = o THEN StageOf(new) ELSE StageOf(status[p])]
  BY DEF Stage
<1>6. QED  BY <1>4, <1>5

\* Inserting an order is the promise's Place.
LEMMA CreatePlaces ==
  ASSUME Serial, NEW s \in Sessions, NEW o \in OrderIds, CommitCreate(s, o)
  PROVE  Promise!Next
<1> PICK c \in Customers : c = txn[s].actor
  BY DEF Serial, CommitCreate, TypeOK, RequestOK
<1>1. status[o] = "ABSENT" /\ status' = [status EXCEPT ![o] = "NEW"]
      /\ owner' = [owner EXCEPT ![o] = c] /\ ~HasActiveOrder(c)
  BY DEF CommitCreate, Serial, SnapshotHolds, CreateFacts
<1>2. Stage[o] = "absent"
  BY <1>1, StageValues DEF Stage
<1>3. Promise!OpenOrders(c) = {}
  <2> SUFFICES ASSUME NEW p \in OrderIds, Stage[p] = "open", owner[p] = c PROVE FALSE
    BY DEF Promise!OpenOrders
  <2>1. status[p] \in ActiveStatuses
    BY OpenIsActive DEF Stage, Serial, TypeOK
  <2>2. QED  BY <1>1, <2>1 DEF HasActiveOrder
<1>4. Stage' = [Stage EXCEPT ![o] = "open"]
  <2>1. "NEW" \in Row /\ StageOf("NEW") = "open"
    BY StageValues DEF ActiveStatuses, Row, Statuses
  <2>2. QED  BY <1>1, <2>1, StageWritten DEF Serial
<1>5. Promise!Place(c, o)
  BY <1>1, <1>2, <1>3, <1>4 DEF Promise!Place
<1>6. QED  BY <1>5 DEF Promise!Next

\* An update moves its order within the open stage, or closes it.
LEMMA UpdateCloses ==
  ASSUME Serial, NEW s \in Sessions, CommitUpdate(s)
  PROVE  Promise!Next \/ UNCHANGED <<Stage, owner>>
<1> DEFINE t == txn[s]
<1> PICK o \in OrderIds : o = t.order
  BY DEF Serial, CommitUpdate, TypeOK, RequestOK
<1> DEFINE new == IF t.to # t.seen THEN t.to ELSE status[o]
<1>1. /\ status[o] \in ActiveStatuses /\ status' = [status EXCEPT ![o] = new]
      /\ owner' = owner /\ new \in Statuses
  BY DEF CommitUpdate, Serial, SnapshotHolds, UpdateFacts, TypeOK, RequestOK, Txn, Row,
         ActiveStatuses, Statuses
<1> HIDE DEF new
<1>2. Stage[o] = "open"
  BY <1>1, StageValues DEF Stage
<1>3. Stage' = [Stage EXCEPT ![o] = StageOf(new)]
  BY <1>1, StageWritten DEF Serial, Row
<1>4. CASE new \in ActiveStatuses
  <2>1. Stage' = Stage
    BY <1>2, <1>3, <1>4, StageValues DEF Stage
  <2>2. QED  BY <1>1, <2>1
<1>5. CASE new \in SuccessfulFinal
  <2>1. Promise!Close(o, "fulfilled")
    BY <1>1, <1>2, <1>3, <1>5, StageValues DEF Promise!Close
  <2>2. QED  BY <2>1 DEF Promise!Next
<1>6. CASE new = "CANCELLED"
  <2>1. Promise!Close(o, "cancelled")
    BY <1>1, <1>2, <1>3, <1>6, StageValues DEF Promise!Close
  <2>2. QED  BY <2>1 DEF Promise!Next
<1>7. QED  BY <1>1, <1>4, <1>5, <1>6 DEF ActiveStatuses, SuccessfulFinal, Statuses

\* Every step of the backend is a step of the promise, or invisible to it.
LEMMA StepPromised ==
  ASSUME Serial, [Next]_vars
  PROVE  Promise!Next \/ UNCHANGED <<Stage, owner>>
<1>1. ASSUME UNCHANGED <<status, owner>>  PROVE UNCHANGED <<Stage, owner>>
  BY <1>1 DEF Stage
<1>2. ASSUME NEW s \in Sessions, Request(s)  PROVE UNCHANGED <<status, owner>>
  BY <1>2 DEF Request, BeginCheckout, BeginReorder, BeginRating, MayRate, BeginAccept, MayAccept, BeginAssign, MayAssign,
              BeginStatus, Begin, orderRow
<1>3. ASSUME NEW s \in Sessions, LockUserForCheckout(s) \/ CommitRating(s) \/ Rollback(s)
      PROVE  UNCHANGED <<status, owner>>
  BY <1>3 DEF LockUserForCheckout, CommitRating, Rollback, orderRow
<1>4. ASSUME Administer  PROVE UNCHANGED <<status, owner>>
  BY <1>4 DEF Administer, BlockUser, UnblockUser, DeleteDriver, SetOrdering, orderRow
<1>5. ASSUME UNCHANGED vars  PROVE UNCHANGED <<status, owner>>
  BY <1>5 DEF vars, orderRow
<1>6. QED
  BY <1>1, <1>2, <1>3, <1>4, <1>5, CreatePlaces, UpdateCloses DEF Next, Proceed

\* The backend, with its statuses, snapshots, locks and sessions, implements
\* CustomerOrders: nobody's order is placed while they have one open, and a
\* finished or cancelled order is never touched again.
THEOREM BackendKeepsPromise ==
  ASSUME OneRequestPerOrder
  PROVE  Spec => KeepsPromise
<1>1. Init => Promise!Init
  BY InitPromised
<1>2. Serial /\ [Next]_vars => [Promise!Next]_<<Stage, owner>>
  BY StepPromised
<1>3. QED  BY SerialIsInvariant, <1>1, <1>2, PTL DEF Spec, KeepsPromise, Promise!Spec

-----------------------------------------------------------------------------
(* The reports of the dashboard *)

\* Only orders that were given out name a driver: accepting is done before, and
\* no request leads back.
HandedOut ==
  /\ \A o \in OrderIds :
       driver[o] # None => orderType[o] = "delivery" /\ status[o] \notin {"ABSENT", "NEW", "ACCEPTED"}
  /\ \A s \in Sessions :
       txn[s].op \in {"accept", "status"} /\ txn[s].to = "ACCEPTED" => txn[s].seen = "NEW"

LEMMA InitHandedOut == Init => HandedOut
  BY DEF Init, HandedOut, NoTxn

LEMMA RequestHandedOut ==
  ASSUME Serial, HandedOut, NEW s \in Sessions, Request(s)
  PROVE  HandedOut'
<1>1. ASSUME NEW fields, Begin(s, fields),
             fields.op \in {"accept", "status"} /\ fields.to = "ACCEPTED" => fields.seen = "NEW"
      PROVE  HandedOut'
  <2>1. \A r \in Sessions : txn'[r] = IF r = s THEN fields ELSE txn[r]
    BY <1>1 DEF Begin, Serial, TypeOK
  <2>2. UNCHANGED <<driver, orderType, status>>
    BY <1>1 DEF Begin, orderRow
  <2> QED
    BY <1>1, <2>1, <2>2 DEF HandedOut
<1>2. ASSUME NEW c \in Customers, NEW type \in OrderTypes, BeginCheckout(s, c, type)
      PROVE  HandedOut'
  BY <1>1, <1>2 DEF BeginCheckout, NoTxn
<1>3. ASSUME NEW c \in Customers, NEW o \in OrderIds, BeginReorder(s, c, o) \/ BeginRating(s, c, o)
      PROVE  HandedOut'
  BY <1>1, <1>3 DEF BeginReorder, BeginRating, OnOrder, NoTxn
<1>4. ASSUME NEW a \in Staff, NEW o \in OrderIds, BeginAccept(s, a, o)
      PROVE  HandedOut'
  BY <1>1, <1>4 DEF BeginAccept, MayAccept, OnOrder, NoTxn
<1>5. ASSUME NEW a \in Staff, NEW o \in OrderIds, NEW d \in Drivers, BeginAssign(s, a, o, d)
      PROVE  HandedOut'
  BY <1>1, <1>5 DEF BeginAssign, OnOrder, NoTxn
<1>6. ASSUME NEW a \in Users, NEW o \in OrderIds, NEW target \in Statuses, BeginStatus(s, a, o, target)
      PROVE  HandedOut'
  <2>1. target = "ACCEPTED" => status[o] = "NEW"
    BY <1>6 DEF BeginStatus, MaySetStatus, AllowedTransitions, Serial, TypeOK
  <2> QED
    BY <1>1, <1>6, <2>1 DEF BeginStatus, OnOrder, NoTxn
<1> QED
  BY <1>2, <1>3, <1>4, <1>5, <1>6 DEF Request

\* A request that does not name a driver writes the one its snapshot had, which
\* is still the row's.
LEMMA CommitHandedOut ==
  ASSUME Safe, Serial, HandedOut, NEW s \in Sessions, CommitUpdate(s)
  PROVE  HandedOut'
<1> DEFINE t == txn[s]
<1>1. TypeOK
  BY DEF Serial
<1> PICK o \in OrderIds : o = t.order
  BY <1>1 DEF CommitUpdate, TypeOK, RequestOK
<1>2. UpdateFacts(t) /\ t.op \in {"accept", "assign", "status"}
  BY DEF CommitUpdate, Serial, SnapshotHolds
<1>3. /\ status'[o] = IF t.to # t.seen THEN t.to ELSE status[o]
      /\ driver'[o] = IF t.newDriver # t.seenDriver THEN t.newDriver ELSE driver[o]
      /\ orderType' = orderType
  BY <1>1 DEF CommitUpdate, TypeOK
<1>4. \A p \in OrderIds : p # o => status'[p] = status[p] /\ driver'[p] = driver[p]
  BY <1>1 DEF CommitUpdate, TypeOK
<1>5. \A r \in Sessions : txn'[r] = IF r = s THEN NoTxn ELSE txn[r]
  BY EndKeepsUnique DEF CommitUpdate
<1>6. driver'[o] # None => orderType[o] = "delivery" /\ status'[o] \notin {"ABSENT", "NEW", "ACCEPTED"}
  <2>1. CASE t.op = "assign"
    <3>1. orderType[o] = "delivery" /\ t.to \in {"ASSIGNED", "READY"}
      BY <2>1 DEF Safe, RequestFacts, AssignFacts
    <3>2. status'[o] = t.to
      BY <1>2, <1>3 DEF UpdateFacts
    <3> QED
      BY <3>1, <3>2
  <2>2. CASE t.op # "assign"
    <3>1. driver'[o] = driver[o] /\ status'[o] = t.to /\ status[o] = t.seen
      BY <1>2, <1>3, <2>2 DEF UpdateFacts
    <3>2. t.to = "ACCEPTED" \/ t.to \notin {"NEW", "ASSIGNED"}
      BY <1>2, <2>2 DEF Safe, RequestFacts, AcceptFacts, StatusFacts
    <3>3. t.to = "ACCEPTED" => t.seen = "NEW"
      BY <1>2, <2>2 DEF HandedOut
    <3>4. t.to # "ABSENT"
      BY <1>1, <1>2 DEF TypeOK, RequestOK
    <3> QED
      BY <3>1, <3>2, <3>3, <3>4 DEF HandedOut
  <2> QED
    BY <2>1, <2>2
<1> QED
  BY <1>3, <1>4, <1>5, <1>6 DEF HandedOut, NoTxn

LEMMA HandedOutStep == Safe /\ Serial /\ HandedOut /\ [Next]_vars => HandedOut'
<1> SUFFICES ASSUME Safe, Serial, HandedOut, [Next]_vars
             PROVE  HandedOut'
  OBVIOUS
<1>1. TypeOK
  BY DEF Serial
<1>2. ASSUME UNCHANGED <<status, orderType, txn>>, \A o \in OrderIds : driver'[o] \in {driver[o], None}
      PROVE  HandedOut'
  BY <1>2 DEF HandedOut
<1>3. CASE UNCHANGED vars
  BY <1>2, <1>3 DEF vars, orderRow
<1>4. ASSUME NEW s \in Sessions, LockUserForCheckout(s) \/ CommitRating(s) \/ Rollback(s)
      PROVE  HandedOut'
  <2>1. UNCHANGED <<status, orderType, driver>>
    BY <1>4 DEF LockUserForCheckout, CommitRating, Rollback, orderRow
  <2>2. \A r \in Sessions : r # s => txn'[r] = txn[r]
    BY <1>1, <1>4 DEF LockUserForCheckout, CommitRating, Rollback, End, TypeOK
  <2>3. txn'[s].op \in {"create", "idle"}
    BY <1>1, <1>4 DEF LockUserForCheckout, CommitRating, Rollback, End, NoTxn, TypeOK, Txn
  <2> QED
    BY <2>1, <2>2, <2>3 DEF HandedOut
<1>5. ASSUME NEW s \in Sessions, NEW o \in OrderIds, CommitCreate(s, o)
      PROVE  HandedOut'
  <2>1. driver' = driver /\ driver[o] = None
    BY <1>5 DEF CommitCreate, HandedOut
  <2>2. \A p \in OrderIds : p # o => status'[p] = status[p] /\ orderType'[p] = orderType[p]
    BY <1>1, <1>5 DEF CommitCreate, TypeOK
  <2>3. \A r \in Sessions : txn'[r] = IF r = s THEN NoTxn ELSE txn[r]
    BY <1>5, EndKeepsUnique DEF CommitCreate
  <2> QED
    BY <2>1, <2>2, <2>3 DEF HandedOut, NoTxn
<1>6. CASE Administer
  <2>1. ASSUME NEW d \in Drivers, DeleteDriver(d)
        PROVE  HandedOut'
    BY <1>2, <2>1 DEF DeleteDriver
  <2>2. ASSUME NEW u, BlockUser(u) \/ UnblockUser(u)
        PROVE  HandedOut'
    BY <1>2, <2>2 DEF BlockUser, UnblockUser, orderRow
  <2>3. ASSUME NEW enabled \in BOOLEAN, SetOrdering(enabled)
        PROVE  HandedOut'
    BY <1>2, <2>3 DEF SetOrdering, orderRow
  <2> QED
    BY <1>6, <2>1, <2>2, <2>3 DEF Administer
<1> QED
  BY <1>3, <1>4, <1>5, <1>6, RequestHandedOut, CommitHandedOut DEF Next, Proceed

\* Among finite sets one is the smallest: nothing that is left of it without one
\* element is among them.
LEMMA SmallestOf ==
  ASSUME NEW S, IsFiniteSet(S), NEW sets, sets \subseteq SUBSET S, sets # {}
  PROVE  \E s \in sets : \A x \in s : s \ {x} \notin sets
<1>1. sets \subseteq FiniteSubsetsOf(S)
  BY FS_Subset DEF FiniteSubsetsOf
<1>2. PICK s \in sets : \A r \in sets : <<r, s>> \notin StrictSubsetOrdering(S)
  BY <1>1, FS_StrictSubsetOrderingWellFounded, WFMin
<1>3. \A x \in s : <<s \ {x}, s>> \in StrictSubsetOrdering(S)
  BY DEF StrictSubsetOrdering
<1> QED
  BY <1>2, <1>3

\* The finished deliveries of some of the drivers.
DeliveriesOf(drivers) ==
  {o \in Orders : driver[o] \in drivers /\ status[o] \in SuccessfulFinal /\ completedAt[o]}

\* The report that counts driver by driver counts every delivery once.
LEMMA CreditedOnce == DeliveriesCompletedToday = Cardinality(DeliveriesOf(Drivers))
<1> DEFINE Pick(s) == CHOOSE d \in s : TRUE
           Step(t, s) == IF s = {} THEN 0 ELSE Cardinality(DeliveriesCompleted(Pick(s))) + t[s \ {Pick(s)}]
           Fold(t) == t = [s \in SUBSET Drivers |-> Step(t, s)]
           sums == CHOOSE t : Fold(t)
           count == [s \in SUBSET Drivers |-> Cardinality(DeliveriesOf(s))]
<1>1. DeliveriesCompletedToday = sums[Drivers]
  BY DEF DeliveriesCompletedToday, MapThenSumSet, MapThenFoldSet
<1>2. \A s : s # {} => Pick(s) \in s
  OBVIOUS
<1>3. ASSUME NEW s \in SUBSET Drivers
      PROVE  count[s] = Step(count, s)
  <2>1. CASE s = {}
    <3>1. DeliveriesOf({}) = {}
      BY DEF DeliveriesOf
    <3> QED
      BY <2>1, <3>1, FS_EmptySet
  <2>2. CASE s # {}
    <3> DEFINE d == Pick(s)
               one == DeliveriesCompleted(d)
               rest == DeliveriesOf(s \ {d})
    <3>1. d \in s
      BY <1>2, <2>2
    <3> HIDE DEF Pick
    <3>2. DeliveriesOf(s) = one \cup rest /\ one \cap rest = {}
      BY <3>1 DEF DeliveriesOf, DeliveriesCompleted
    <3>3. one \in SUBSET OrderIds /\ rest \in SUBSET OrderIds
      BY DEF DeliveriesOf, DeliveriesCompleted, Orders
    <3>4. count[s] = Cardinality(DeliveriesOf(s)) /\ count[s \ {d}] = Cardinality(rest)
      OBVIOUS
    <3>5. Step(count, s) = Cardinality(one) + count[s \ {d}]
      BY <2>2
    <3> HIDE DEF one, rest, count, Step
    <3>6. IsFiniteSet(one) /\ IsFiniteSet(rest)
      BY <3>3, FS_Subset, FiniteTables
    <3>7. Cardinality(one \cup rest) = Cardinality(one) + Cardinality(rest) - 0
      BY <3>2, <3>6, FS_Union, FS_EmptySet
    <3>8. Cardinality(one) \in Nat /\ Cardinality(rest) \in Nat
      BY <3>6, FS_CardinalityType
    <3> QED
      BY <3>2, <3>4, <3>5, <3>7, <3>8
  <2> QED
    BY <2>1, <2>2
<1>4. Fold(count)
  <2>1. count = [s \in SUBSET Drivers |-> count[s]]
    OBVIOUS
  <2> HIDE DEF count, Step
  <2> QED
    BY <1>3, <2>1
<1>5. Fold(sums)
  <2> HIDE DEF count, Fold
  <2> QED
    BY <1>4
<1>6. \A s \in SUBSET Drivers : sums[s] = Step(sums, s)
  <2> HIDE DEF sums, Step
  <2> QED
    BY <1>5
<1> HIDE DEF sums, count
<1> DEFINE wrong == {s \in SUBSET Drivers : sums[s] # count[s]}
<1>7. ASSUME wrong # {}
      PROVE  FALSE
  <2>1. PICK s \in wrong : \A x \in s : s \ {x} \notin wrong
    <3>1. wrong \subseteq SUBSET Drivers
      OBVIOUS
    <3> HIDE DEF wrong
    <3> QED
      BY <1>7, <3>1, SmallestOf, FiniteTables
  <2>2. sums[s] = Step(sums, s) /\ count[s] = Step(count, s) /\ sums[s] # count[s]
    BY <1>3, <1>6
  <2>3. s # {}
    BY <2>2
  <2> HIDE DEF Pick
  <2>4. Pick(s) \in s
    BY <1>2, <2>3
  <2>5. sums[s \ {Pick(s)}] = count[s \ {Pick(s)}]
    BY <2>1, <2>4
  <2> QED
    BY <2>2, <2>5
<1>8. sums[Drivers] = count[Drivers]
  BY <1>7
<1> QED
  BY <1>1, <1>8 DEF count

\* What the lists and the figures of the reports say of the orders.
LEMMA ReportsAgree == Safe /\ Serial /\ HandedOut => DeliveriesAccountedFor
<1> SUFFICES ASSUME Safe, Serial, HandedOut
             PROVE  DeliveriesAccountedFor
  OBVIOUS
<1>1. TypeOK /\ \A o \in OrderIds : RowFacts(o)
  BY DEF Safe
<1>2. CompletionTimeOnlyIfFulfilled
  BY DEF Serial, HistoryAgrees, CompletionTimeOnlyIfFulfilled
<1>3. \A o \in Orders : o \in OrderIds /\ status[o] \in Statuses /\ driver[o] \in Drivers \cup {None}
  BY <1>1 DEF Orders, TypeOK, Row
<1>4. \A o \in Orders, d \in Drivers :
        driver[o] = d => (o \in ActiveDeliveries(d) <=> o \notin CompletedDeliveries(d))
  <2> SUFFICES ASSUME NEW o \in Orders, NEW d \in Drivers, driver[o] = d
               PROVE  o \in ActiveDeliveries(d) <=> o \notin CompletedDeliveries(d)
    OBVIOUS
  <2>1. orderType[o] = "delivery" /\ status[o] \notin {"NEW", "ACCEPTED"}
    BY <1>3, UsersAreDistinct DEF HandedOut
  <2>2. o \in DriverLatest(d)
    BY <1>3, <2>1 DEF DriverLatest
  <2> QED
    BY <1>3, <2>1, <2>2 DEF ActiveDeliveries, CompletedDeliveries, Statuses
<1>5. \A S \in SUBSET Orders : IsFiniteSet(S) /\ Cardinality(S) \in Nat
  BY <1>3, FS_Subset, FS_CardinalityType, FiniteTables
<1>6. OrdersToday(OrderTypes) = OrdersToday({"pickup"}) + OrdersToday({"delivery"})
  <2> DEFINE all == {o \in Orders : orderType[o] \in OrderTypes}
             pickups == {o \in Orders : orderType[o] \in {"pickup"}}
             deliveries == {o \in Orders : orderType[o] \in {"delivery"}}
  <2>1. all = pickups \cup deliveries /\ pickups \cap deliveries = {}
    BY DEF OrderTypes
  <2>2. pickups \in SUBSET Orders /\ deliveries \in SUBSET Orders
    OBVIOUS
  <2>3. /\ OrdersToday(OrderTypes) = Cardinality(all)
        /\ OrdersToday({"pickup"}) = Cardinality(pickups)
        /\ OrdersToday({"delivery"}) = Cardinality(deliveries)
    BY DEF OrdersToday
  <2> HIDE DEF all, pickups, deliveries
  <2>4. IsFiniteSet(pickups) /\ IsFiniteSet(deliveries) /\ Cardinality(pickups) \in Nat /\ Cardinality(deliveries) \in Nat
    BY <1>5, <2>2
  <2>5. Cardinality(pickups \cup deliveries) = Cardinality(pickups) + Cardinality(deliveries) - 0
    <3>1. Cardinality(pickups \cup deliveries) =
            Cardinality(pickups) + Cardinality(deliveries) - Cardinality(pickups \cap deliveries)
      BY <2>4, FS_Union
    <3>2. Cardinality(pickups \cap deliveries) = 0
      BY <2>1, FS_EmptySet
    <3> QED
      BY <3>1, <3>2
  <2> QED
    BY <2>1, <2>3, <2>4, <2>5
<1>7. DeliveriesCompletedToday <= Cardinality(RevenueOrders)
  <2> DEFINE delivered == DeliveriesOf(Drivers)
             revenue == RevenueOrders
  <2>1. delivered \in SUBSET revenue /\ revenue \in SUBSET Orders
    BY DEF DeliveriesOf, RevenueOrders
  <2> HIDE DEF delivered, revenue
  <2>2. Cardinality(delivered) <= Cardinality(revenue)
    BY <1>5, <2>1, FS_Subset
  <2> QED
    BY <2>2, CreditedOnce DEF delivered, revenue
<1>8. ASSUME \A d \in Drivers : account[d] # "deleted"
      PROVE  DeliveriesCompletedToday = Cardinality({o \in Orders : status[o] = "DELIVERED"})
  <2>1. \A o \in Orders : status[o] = "DELIVERED" => driver[o] \in Drivers /\ completedAt[o]
    BY <1>1, <1>3, <1>8 DEF RowFacts, SomeDriverDeleted, Dispatched, SuccessfulFinal
  <2>2. \A o \in Orders : driver[o] \in Drivers /\ status[o] \in SuccessfulFinal => status[o] = "DELIVERED"
    BY <1>1, <1>3, UsersAreDistinct DEF HandedOut, RowFacts, SuccessfulFinal
  <2>3. DeliveriesOf(Drivers) = {o \in Orders : status[o] = "DELIVERED"}
    BY <2>1, <2>2 DEF DeliveriesOf, SuccessfulFinal
  <2> QED
    BY <2>3, CreditedOnce
<1>9. /\ Dashboard.ordersToday = OrdersToday(OrderTypes)
      /\ Dashboard.pickup = OrdersToday({"pickup"})
      /\ Dashboard.delivery = OrdersToday({"delivery"})
      /\ Dashboard.revenueOrders = Cardinality(RevenueOrders)
      /\ Dashboard.delivered = DeliveriesCompletedToday
  BY DEF Dashboard
<1>10. Dashboard.revenueOrders >= Dashboard.delivered
  <2>1. Cardinality(RevenueOrders) \in Nat /\ DeliveriesCompletedToday \in Nat
    <3>1. RevenueOrders \in SUBSET Orders /\ DeliveriesOf(Drivers) \in SUBSET Orders
      BY DEF RevenueOrders, DeliveriesOf
    <3> QED
      BY <1>5, <3>1, CreditedOnce
  <2> QED
    BY <1>7, <1>9, <2>1
<1> QED
  BY <1>2, <1>4, <1>6, <1>8, <1>9, <1>10 DEF DeliveriesAccountedFor

\* As long as the requests about an order do not overlap, the driver's screen
\* shows every order in the driver's name once and the dashboard's figures agree,
\* for any number of orders and drivers.
THEOREM ReportsAddUp ==
  ASSUME OneRequestPerOrder
  PROVE  Spec => []DeliveriesAccountedFor
<1> QED
  BY SafeIsInvariant, SerialIsInvariant, InitHandedOut, HandedOutStep, ReportsAgree, PTL DEF Spec

=============================================================================
