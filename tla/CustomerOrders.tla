--------------------------- MODULE CustomerOrders ---------------------------
(***************************************************************************)
(* What the ordering backend promises a customer, with every detail of     *)
(* statuses, drivers, transactions and locks left out: an order is placed  *)
(* once, by one customer, who has no other order open at that moment; it   *)
(* stays open until it is fulfilled or cancelled; and it is never touched  *)
(* again after that.  OrderLifecycle implements this specification when    *)
(* the requests about one order do not overlap, and only then.             *)
(***************************************************************************)
CONSTANTS
  Customers,   \* accounts that place orders
  OrderIds,    \* primary keys an order can be given
  None         \* the value of a column that is NULL

VARIABLES
  stage,       \* what has become of each order
  placedBy     \* the customer of each order, None before it is placed

Stages == {"absent", "open", "fulfilled", "cancelled"}

Init ==
  /\ stage = [o \in OrderIds |-> "absent"]
  /\ placedBy = [o \in OrderIds |-> None]

OpenOrders(c) == {o \in OrderIds : stage[o] = "open" /\ placedBy[o] = c}

\* The customer places an order: none of theirs may be open.
Place(c, o) ==
  /\ stage[o] = "absent"
  /\ OpenOrders(c) = {}
  /\ stage' = [stage EXCEPT ![o] = "open"]
  /\ placedBy' = [placedBy EXCEPT ![o] = c]

\* The shop, a driver or the customer closes an open order, for good.
Close(o, outcome) ==
  /\ stage[o] = "open"
  /\ stage' = [stage EXCEPT ![o] = outcome]
  /\ UNCHANGED placedBy

Next ==
  \E o \in OrderIds :
    \/ \E c \in Customers : Place(c, o)
    \/ \E outcome \in {"fulfilled", "cancelled"} : Close(o, outcome)

Spec == Init /\ [][Next]_<<stage, placedBy>>
=============================================================================
