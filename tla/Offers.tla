-------------------------------- MODULE Offers --------------------------------
(***************************************************************************)
(* Promotions on the server: what an offer row may hold after any sequence *)
(* of admin requests, and what the offers take off an order.  Money is in  *)
(* hundredths.  A cart counts units of variations, a variation being a     *)
(* size with its addons: KeysOf names the section, item, type, size and    *)
(* addons a line is of, which is all the offers' targets look at.          *)
(***************************************************************************)
EXTENDS Integers, FiniteSets, FiniteSetsExt

CONSTANTS None,                 \* NULL
          Entries,              \* menu entries an offer may be aimed at
          ChildrenOf,           \* section -> its items; empty for the other entries
          Variations, KeysOf, PriceOf,
          Carts,                \* carts, each [Variations -> units]
          Customers,            \* completed orders, those since the last use, first-time offers used up
          DeliveryFee,
          Rows,                 \* the rows the offer may be created as
          Beside,               \* sets of rows that may run beside it
          MaxRequests           \* bound on the requests that change it

VARIABLES offer,                \* the row, or None
          entries,              \* the menu entries that exist
          ruleOrders,           \* required_orders of the loyalty rule
          requests              \* how many requests have been made

offerVars == <<offer, entries, ruleOrders, requests>>

FirstTime == {"FIRST_TIME", "FIRST_TIME_FREE_ITEM"}
Groups == {"scope", "buyFrom", "freeFrom"}

OfferRow ==
    [type : {"TEMPORARY", "LOYALTY", "BUY_N_GET_M_FREE", "FREE_DELIVERY_ABOVE_AMOUNT"} \cup FirstTime,
     value : Int, window : {"live", "upcoming", "expired"}, active : BOOLEAN, required : Nat \cup {None},
     buy : (Nat \ {0}) \cup {None}, free : (Nat \ {0}) \cup {None},
     mode : {"FREE_DELIVERY", "PERCENTAGE_DISCOUNT", None}, percent : Int \cup {None}, rule : BOOLEAN,
     scope : SUBSET Entries, buyFrom : SUBSET Entries, freeFrom : SUBSET Entries]

(***************************************************************************)
(* The admin's requests.  merged is the row with the request's fields.     *)
(***************************************************************************)
TargetsExist(merged) == \A g \in Groups : merged[g] \subseteq entries

BuyGetComplete(merged) ==
    merged.type = "BUY_N_GET_M_FREE" => merged.buy # None /\ merged.free # None

FreeDeliveryMode(merged) ==
    IF merged.mode # None THEN merged.mode
    ELSE IF merged.percent # None THEN "PERCENTAGE_DISCOUNT" ELSE "FREE_DELIVERY"

FreeDeliveryComplete(merged) ==
    merged.type = "FREE_DELIVERY_ABOVE_AMOUNT" /\ FreeDeliveryMode(merged) = "PERCENTAGE_DISCOUNT"
        => merged.percent # None

ValueAccepted(merged) ==
    \/ merged.type \in {"BUY_N_GET_M_FREE", "FIRST_TIME_FREE_ITEM"}
    \/ merged.value > 0
    \/ merged.value = 0 /\ merged.type # "FREE_DELIVERY_ABOVE_AMOUNT"

NormalizeTargetGroups(merged) ==
    CASE merged.type = "FREE_DELIVERY_ABOVE_AMOUNT" -> [g \in Groups |-> {}]
      [] merged.type = "BUY_N_GET_M_FREE" /\ merged.buyFrom \cup merged.freeFrom # {} ->
            [g \in Groups |-> IF g = "scope" THEN {} ELSE merged[g]]
      [] OTHER -> [g \in Groups |-> IF g = "scope" THEN merged.scope ELSE {}]

(* The fields another type has no use for are cleared.                     *)
Normalized(merged, groups) ==
    LET buyGet == merged.type = "BUY_N_GET_M_FREE"
        freeDelivery == merged.type = "FREE_DELIVERY_ABOVE_AMOUNT"
        percentage == freeDelivery /\ FreeDeliveryMode(merged) = "PERCENTAGE_DISCOUNT"
    IN [merged EXCEPT !.scope = groups.scope, !.buyFrom = groups.buyFrom, !.freeFrom = groups.freeFrom,
                      !.buy = IF buyGet THEN @ ELSE None, !.free = IF buyGet THEN @ ELSE None,
                      !.mode = IF freeDelivery THEN FreeDeliveryMode(merged) ELSE None,
                      !.percent = IF percentage THEN @ ELSE None,
                      !.required = IF freeDelivery \/ merged.type \in FirstTime THEN None ELSE @,
                      !.rule = merged.type = "LOYALTY" /\ @,
                      !.value = IF buyGet \/ merged.type = "FIRST_TIME_FREE_ITEM" THEN 0 ELSE @]

RowAccepted(merged) == BuyGetComplete(merged) /\ FreeDeliveryComplete(merged) /\ ValueAccepted(merged)

ASSUME OfferTables ==
    /\ None \notin {"FREE_DELIVERY", "PERCENTAGE_DISCOUNT"}
    /\ Rows \subseteq OfferRow
    /\ \A rows \in Beside : IsFiniteSet(rows) /\ \A row \in rows : row \in OfferRow /\ RowAccepted(row)
    /\ IsFiniteSet(Variations) /\ PriceOf \in [Variations -> Nat] /\ Carts \subseteq [Variations -> Nat]
    /\ DeliveryFee \in Nat

(* A line is of a section exactly when it is of one of the section's items. *)
ASSUME SectionsAndItems ==
    \A e \in Entries :
        /\ ChildrenOf[e] \subseteq Entries
        /\ ChildrenOf[e] # {} =>
             \A v \in Variations : e \in KeysOf[v] <=> ChildrenOf[e] \cap KeysOf[v] # {}

CreatePromotion(row) ==
    /\ offer = None /\ requests < MaxRequests
    /\ TargetsExist(row) /\ RowAccepted(row)
    /\ offer' = Normalized(row, NormalizeTargetGroups(row))
    /\ requests' = requests + 1
    /\ UNCHANGED <<entries, ruleOrders>>

Merge(row, values) == [f \in DOMAIN row |-> IF f \in DOMAIN values THEN values[f] ELSE row[f]]

(* Targets are looked at again when the request names some or the type     *)
(* changes, those the row already has included.                            *)
Regroups(values) ==
    \/ "type" \in DOMAIN values /\ values.type # offer.type
    \/ Groups \cap DOMAIN values # {}

UpdateAccepted(values) ==
    /\ offer # None
    /\ RowAccepted(Merge(offer, values))
    /\ Regroups(values) => TargetsExist(Merge(offer, values))

RowAfter(values) ==
    LET merged == Merge(offer, values)
    IN Normalized(merged, IF Regroups(values) THEN NormalizeTargetGroups(merged) ELSE offer)

UpdatePromotion(values) ==
    /\ requests < MaxRequests
    /\ UpdateAccepted(values)
    /\ offer' = RowAfter(values)
    /\ requests' = requests + 1
    /\ UNCHANGED <<entries, ruleOrders>>

TogglePromotion ==
    /\ offer # None /\ requests < MaxRequests
    /\ offer' = [offer EXCEPT !.active = ~@]
    /\ requests' = requests + 1
    /\ UNCHANGED <<entries, ruleOrders>>

DeletePromotion ==
    /\ offer # None /\ requests < MaxRequests
    /\ offer' = None
    /\ requests' = requests + 1
    /\ UNCHANGED <<entries, ruleOrders>>

(* A rule's is_active is shown in the admin app and read by nothing here.  *)
UpdateLoyaltyRule(n) ==
    /\ n >= 1 /\ requests < MaxRequests
    /\ ruleOrders' = n
    /\ requests' = requests + 1
    /\ UNCHANGED <<offer, entries>>

(* Deleting a menu entry takes its children along and no offer's target.   *)
DeleteMenuEntry(e) ==
    /\ e \in entries /\ requests < MaxRequests
    /\ entries' = entries \ ({e} \cup ChildrenOf[e])
    /\ requests' = requests + 1
    /\ UNCHANGED <<offer, ruleOrders>>

(***************************************************************************)
(* Evaluation.  A row's window is "live", "upcoming" or "expired".         *)
(***************************************************************************)
Lines(cart) == {v \in Variations : cart[v] > 0}
Matching(cart, targets) ==
    IF targets = {} THEN Lines(cart) ELSE {v \in Lines(cart) : KeysOf[v] \cap targets # {}}
Units(cart, lines) == MapThenSumSet(LAMBDA v : cart[v], lines)
Subtotal(cart, lines) == MapThenSumSet(LAMBDA v : PriceOf[v] * cart[v], lines)

(* The k cheapest units of the lines, price by price.                      *)
Cheapest(cart, lines, k) ==
    LET costing(p) == {v \in lines : PriceOf[v] = p}
        below(p) == Units(cart, {v \in lines : PriceOf[v] < p})
        taken(p) == Min({Units(cart, costing(p)), Max({k - below(p), 0})})
    IN MapThenSumSet(LAMBDA p : p * taken(p), {PriceOf[v] : v \in lines})

(* Decimal.quantize rounds halves to even.                                 *)
PercentageDiscount(percent, amount) ==
    LET n == amount * Min({percent, 100})
        q == n \div 100
        r == n % 100
    IN IF r > 50 \/ (r = 50 /\ q % 2 = 1) THEN q + 1 ELSE q

BuyFrom(row) == IF row.buyFrom # {} THEN row.buyFrom ELSE row.scope
FreeFrom(row) == IF row.freeFrom # {} THEN row.freeFrom ELSE row.scope

BuyGetDiscount(row, cart) ==
    LET buyLines == Matching(cart, BuyFrom(row))
        freeLines == Matching(cart, FreeFrom(row))
        bundles == IF BuyFrom(row) = FreeFrom(row)
                   THEN Units(cart, buyLines) \div (row.buy + row.free)
                   ELSE Min({Units(cart, buyLines) \div row.buy, Units(cart, freeLines) \div row.free})
    IN Cheapest(cart, freeLines, bundles * row.free)

RequiredOrders(row) ==
    IF row.type = "FREE_DELIVERY_ABOVE_AMOUNT" THEN None
    ELSE IF row.required # None THEN row.required
    ELSE IF row.rule THEN ruleOrders ELSE None

FreesDelivery(row) == row.type = "FREE_DELIVERY_ABOVE_AMOUNT" /\ FreeDeliveryMode(row) = "FREE_DELIVERY"

CustomerQualifies(row, customer) ==
    LET required == RequiredOrders(row)
    IN CASE row.type \in FirstTime -> ~customer.blocked /\ customer.completed = 0
         [] row.type = "LOYALTY" -> required # None /\ required > 0 /\ customer.sinceUse >= required
         [] OTHER -> required = None \/ customer.completed >= required

(* What the row takes off this cart; meaningful when it is eligible.       *)
Discount(row, cart) ==
    LET total == Subtotal(cart, Lines(cart))
        matching == Matching(cart, row.scope)
        matched == Subtotal(cart, matching)
        base == IF matched > 0 THEN matched ELSE total
    IN CASE row.type = "FREE_DELIVERY_ABOVE_AMOUNT" ->
                IF FreesDelivery(row) THEN 0 ELSE PercentageDiscount(row.percent, total)
         [] row.type = "BUY_N_GET_M_FREE" -> BuyGetDiscount(row, cart)
         [] row.type = "FIRST_TIME_FREE_ITEM" -> Cheapest(cart, matching, 1)
         [] OTHER -> PercentageDiscount(row.value, base)

Aimed(cart, targets) == targets # {} => Subtotal(cart, Matching(cart, targets)) > 0

CartQualifies(row, cart, type) ==
    CASE row.type = "FREE_DELIVERY_ABOVE_AMOUNT" ->
            type # "pickup" /\ Subtotal(cart, Lines(cart)) >= row.value
      [] row.type = "BUY_N_GET_M_FREE" ->
            Aimed(cart, BuyFrom(row)) /\ Aimed(cart, FreeFrom(row)) /\ BuyGetDiscount(row, cart) > 0
      [] row.type = "FIRST_TIME_FREE_ITEM" ->
            row.scope # {} /\ Aimed(cart, row.scope) /\ Cheapest(cart, Matching(cart, row.scope), 1) > 0
      [] OTHER -> Aimed(cart, row.scope)

Eligible(row, cart, type, customer) ==
    /\ row.active /\ row.window = "live"
    /\ CustomerQualifies(row, customer)
    /\ CartQualifies(row, cart, type)

\* Mutant: delivery is free only when that offer is the one applied.
OnlyTheAppliedOne(rows, cart, type, customer) ==
    LET eligible == {row \in rows : Eligible(row, cart, type, customer)}
        discounts == {Discount(row, cart) : row \in {r \in eligible : ~FreesDelivery(r)}}
    IN [discount |-> IF discounts = {} THEN 0 ELSE Max(discounts),
        freeDelivery |-> discounts = {} /\ eligible # {}]

(* Of the eligible offers the largest discount is applied; free delivery   *)
(* comes on top of it.                                                     *)
EvaluatePromotions(rows, cart, type, customer) ==
    LET eligible == {row \in rows : Eligible(row, cart, type, customer)}
        discounts == {Discount(row, cart) : row \in {r \in eligible : ~FreesDelivery(r)}}
    IN [discount |-> IF discounts = {} THEN 0 ELSE Max(discounts),
        freeDelivery |-> \E row \in eligible : FreesDelivery(row)]

(* total_amount of an order for the cart.                                  *)
Charge(rows, cart, type, customer) ==
    LET subtotal == Subtotal(cart, Lines(cart))
        evaluation == EvaluatePromotions(rows, cart, type, customer)
        discount == Min({subtotal, Max({0, evaluation.discount})})
        fee == IF type = "pickup" \/ evaluation.freeDelivery THEN 0 ELSE DeliveryFee
    IN subtotal - discount + fee

OrderTypes == {"pickup", "delivery"}
Orderable == {c \in Carts : \A v \in Lines(c) : KeysOf[v] \subseteq entries}

(* Two rows that do the same for everybody.                                *)
SameOffer(row, other) ==
    \A c \in Orderable, type \in OrderTypes, customer \in Customers :
        Charge({row}, c, type, customer) = Charge({other}, c, type, customer)

OffersInit ==
    /\ offer \in {None} \cup {Normalized(row, NormalizeTargetGroups(row)) : row \in {r \in Rows : RowAccepted(r)}}
    /\ entries = Entries
    /\ ruleOrders = 1
    /\ requests = 0

OffersNext ==
    \/ \E row \in Rows : CreatePromotion(row)
    \/ \E n \in 1 .. 2 : UpdateLoyaltyRule(n)
    \/ \E e \in Entries : DeleteMenuEntry(e)
    \/ TogglePromotion \/ DeletePromotion

(* Another offer on the books never makes an order dearer: whatever a row  *)
(* becomes, whatever offers run beside it, whatever the cart, the way of   *)
(* delivery and the customer, the charge with it is at most the charge     *)
(* without it.                                                             *)
MoreOffersNeverCostMore ==
    [][(offer' # offer /\ offer' # None) =>
        \A others \in Beside, c \in Orderable, type \in OrderTypes, customer \in Customers :
            Charge(others \cup {offer'}, c, type, customer) <= Charge(others, c, type, customer)]_offerVars
=============================================================================
