--------------------------------- MODULE Cart ---------------------------------
(***************************************************************************)
(* The customer's cart on the phone and the screens that fill it.  A line  *)
(* is a size with its addons and keeps the size as it was when the line    *)
(* was first added; the product screen keeps the product it was opened     *)
(* with.  A size may have an order limit, over all lines of the size.      *)
(***************************************************************************)
EXTENDS Integers, FiniteSetsExt, Functions

CONSTANTS Nothing,      \* no limit, no size
          Sizes, TypeOf, AddonsOf,
          AddonPrice,
          SizeRows,     \* limit, price and active a size may have
          MaxUnits,     \* bound on what a cart holds
          MaxQuantity   \* bound on the quantity selector

ASSUME CartAssumption == \A row \in SizeRows : row.limit \in Nat \cup {Nothing}

VARIABLES menu,         \* size -> its row on the server
          cart,         \* line -> quantity and the row the line was added with
          screen        \* the screen in front, with its state

cartVars == <<menu, cart, screen>>

SizeOf(line) == line[1]
LinesOfSize(items, s) == {l \in DOMAIN items : SizeOf(l) = s}
UnitsOf(items, lines) == MapThenSumSet(LAMBDA l : items[l].quantity, lines)

LineTotal(items, l) == (items[l].row.price + AddonPrice * Cardinality(l[2])) * items[l].quantity
CartSubtotal(items) == MapThenSumSet(LAMBDA l : LineTotal(items, l), DOMAIN items)

(***************************************************************************)
(* CartContext.                                                            *)
(***************************************************************************)
\* Mutant: every line may reach the limit on its own.
ClampPerLine(items, line, quantity) ==
    IF items[line].row.limit = Nothing THEN quantity ELSE Max({0, Min({quantity, items[line].row.limit})})

ClampToOrderLimit(items, line, quantity) ==
    LET others == UnitsOf(items, LinesOfSize(items, SizeOf(line)) \ {line})
    IN IF items[line].row.limit = Nothing THEN quantity
       ELSE Max({0, Min({quantity, items[line].row.limit - others})})

Draft(items, line, row) ==
    [l \in DOMAIN items \cup {line} |-> IF l \in DOMAIN items THEN items[l] ELSE [quantity |-> 0, row |-> row]]

NextQuantity(items, line, row, quantity) ==
    LET draft == Draft(items, line, row)
    IN ClampToOrderLimit(draft, line, draft[line].quantity + quantity)

AddItem(items, line, row, quantity) ==
    LET next == NextQuantity(items, line, row, quantity)
    IN IF line \notin DOMAIN items /\ next <= 0 THEN items
       ELSE [Draft(items, line, row) EXCEPT ![line].quantity = next]

RemoveItem(items, line) == Restrict(items, DOMAIN items \ {line})

(* The line is clamped; whichever lines have no unit left go.              *)
UpdateQuantity(items, line, quantity) ==
    LET updated == [items EXCEPT ![line].quantity = ClampToOrderLimit(items, line, quantity)]
    IN IF quantity <= 0 THEN RemoveItem(items, line)
       ELSE Restrict(updated, {l \in DOMAIN items : updated[l].quantity > 0})

EmptyCart == Restrict(cart, {})

(* The quantity selector's two buttons.                                    *)
Decreased(value) == Max({1, value - 1})
Increased(value, max) == IF max = Nothing THEN value + 1 ELSE Min({max, value + 1})

(***************************************************************************)
(* The screens.  A product opens on its first active type, any of them     *)
(* here.                                                                   *)
(***************************************************************************)
Browsing == [name |-> "browsing"]

ActiveSizes(rows, type) == {s \in Sizes : TypeOf[s] = type /\ rows[s].active}
FirstSize(rows, type) ==
    IF ActiveSizes(rows, type) = {} THEN Nothing ELSE CHOOSE s \in ActiveSizes(rows, type) : TRUE

OpenProduct(type) ==
    /\ screen.name = "browsing"
    /\ screen' = [name |-> "product", rows |-> menu, type |-> type,
                  size |-> FirstSize(menu, type), addons |-> {}, quantity |-> 1]
    /\ UNCHANGED <<menu, cart>>

(* Another type keeps the quantity, another size starts again at one.      *)
HandleTypeSelect(type) ==
    /\ screen.name = "product"
    /\ screen' = [screen EXCEPT !.type = type, !.size = FirstSize(screen.rows, type), !.addons = {}]
    /\ UNCHANGED <<menu, cart>>

HandleSizeSelect(s) ==
    /\ screen.name = "product" /\ s \in ActiveSizes(screen.rows, screen.type)
    /\ screen' = [screen EXCEPT !.size = s, !.addons = {}, !.quantity = 1]
    /\ UNCHANGED <<menu, cart>>

ToggleAddon(addon) ==
    /\ screen.name = "product" /\ screen.size # Nothing /\ addon \in AddonsOf[screen.size]
    /\ screen' = [screen EXCEPT !.addons = IF addon \in @ THEN @ \ {addon} ELSE @ \cup {addon}]
    /\ UNCHANGED <<menu, cart>>

QuantityMax ==
    IF screen.size = Nothing \/ screen.rows[screen.size].limit = Nothing THEN Nothing
    ELSE Max({0, screen.rows[screen.size].limit - UnitsOf(cart, LinesOfSize(cart, screen.size))})

ChooseQuantity ==
    /\ screen.name = "product" /\ screen.quantity < MaxQuantity
    /\ \E quantity \in {Decreased(screen.quantity), Increased(screen.quantity, QuantityMax)} :
            screen' = [screen EXCEPT !.quantity = quantity]
    /\ UNCHANGED <<menu, cart>>

(* Whether the state updater has run by the time addItem returns is up to  *)
(* React; when it has not, a line with a limit is reported as refused and  *)
(* the screen stays.                                                       *)
AddToCart ==
    /\ screen.name = "product" /\ screen.size # Nothing /\ QuantityMax # 0
    /\ UnitsOf(cart, DOMAIN cart) + screen.quantity <= MaxUnits
    /\ LET line == <<screen.size, screen.addons>>
           row == screen.rows[screen.size]
           before == IF line \in DOMAIN cart THEN cart[line].quantity ELSE 0
       IN \E ran \in BOOLEAN :
            /\ cart' = AddItem(cart, line, row, screen.quantity)
            /\ screen' = IF (ran /\ NextQuantity(cart, line, row, screen.quantity) > before) \/ row.limit = Nothing
                         THEN Browsing ELSE screen
    /\ UNCHANGED menu

OpenCart ==
    /\ screen.name = "browsing"
    /\ screen' = [name |-> "cart"]
    /\ UNCHANGED <<menu, cart>>

LineMax(line) ==
    IF cart[line].row.limit = Nothing THEN Nothing
    ELSE Max({0, cart[line].row.limit - UnitsOf(cart, LinesOfSize(cart, SizeOf(line)) \ {line})})

PressQuantity(line) ==
    /\ screen.name = "cart"
    /\ \E quantity \in {Decreased(cart[line].quantity), Increased(cart[line].quantity, LineMax(line))} :
            cart' = UpdateQuantity(cart, line, quantity)
    /\ UnitsOf(cart', DOMAIN cart') <= MaxUnits
    /\ UNCHANGED <<menu, screen>>

PressRemove(line) ==
    /\ screen.name = "cart"
    /\ cart' = RemoveItem(cart, line)
    /\ UNCHANGED <<menu, screen>>

GoBack ==
    /\ screen.name \in {"product", "cart"}
    /\ screen' = Browsing
    /\ UNCHANGED <<menu, cart>>

(* An admin changes a size.                                                *)
ChangeSize(s, row) ==
    /\ row # menu[s]
    /\ menu' = [menu EXCEPT ![s] = row]
    /\ UNCHANGED <<cart, screen>>

CartInit(rows) == menu = rows /\ cart = [l \in {} |-> Nothing] /\ screen = Browsing

CartNext ==
    \/ \E s \in Sizes : OpenProduct(TypeOf[s]) \/ HandleTypeSelect(TypeOf[s]) \/ HandleSizeSelect(s)
    \/ \E addon \in UNION {AddonsOf[s] : s \in Sizes} : ToggleAddon(addon)
    \/ \E line \in DOMAIN cart : PressQuantity(line) \/ PressRemove(line)
    \/ ChooseQuantity \/ AddToCart \/ OpenCart \/ GoBack
=============================================================================
