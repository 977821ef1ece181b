------------------------------- MODULE Checkout -------------------------------
(***************************************************************************)
(* The checkout of the phone against the server that takes the order.  The *)
(* screen asks for the delivery fee whenever the place changes, with more  *)
(* than one such request possibly under way, and offers to place the order *)
(* when everything it knows says it will be taken; the server decides from *)
(* the menu, the bands and the settings of the moment.  The screen can be  *)
(* left while an order is being placed, and vanishes when the customer is  *)
(* signed out.  An address text is there or not, and a place is a point on *)
(* the map at a distance from the store.  Offers and working hours have    *)
(* modules of their own; here a store accepts orders or does not.          *)
(***************************************************************************)
EXTENDS Cart, DeliveryBands

CONSTANTS Places, Distance,
          Stores,           \* accepting, and the minimum of each order type
          MaxQuotes,        \* bound on the quotes under way
          MaxPlacements     \* bound on the orders being placed at once

VARIABLES store,            \* the settings on the server
          status,           \* the copy of them the phone has
          active,           \* the customer has an order in progress
          quotes,           \* requests for a fee, with their answers once computed
          placements        \* orders being placed

checkoutVars == <<cartVars, bandVars, store, status, active, quotes, placements>>

CheckoutOrderTypes == {"pickup", "delivery"}
OnCheckout == screen.name = "checkout"
SignedOut == [name |-> "signedOut"]

(***************************************************************************)
(* The server.                                                             *)
(***************************************************************************)
WithinOrderLimits(items) ==
    \A s \in Sizes : menu[s].limit # Nothing => UnitsOf(items, LinesOfSize(items, s)) <= menu[s].limit

OrderSubtotal(items) ==
    CartSubtotal([l \in DOMAIN items |-> [items[l] EXCEPT !.row = menu[SizeOf(l)]]])

ValidDeliveryFields(payload) ==
    payload.type = "delivery" => payload.address /\ payload.coords # Nothing

MeetsMinimum(subtotal, settings, type) == settings.minimum[type] > 0 => subtotal >= settings.minimum[type]

CreateAccepted(payload) ==
    /\ DOMAIN payload.items # {}
    /\ \A l \in DOMAIN payload.items : payload.items[l].quantity >= 1
    /\ ValidDeliveryFields(payload)
    /\ store.accepting
    /\ WithinOrderLimits(payload.items)
    /\ \A l \in DOMAIN payload.items : menu[SizeOf(l)].active
    /\ payload.type = "delivery" => QuotedFees(Distance[payload.coords]) # {}
    /\ ~active
    /\ MeetsMinimum(OrderSubtotal(payload.items), store, payload.type)

(***************************************************************************)
(* What the screen derives from its state.                                 *)
(***************************************************************************)
HasQuote == screen.type = "pickup" \/ (~screen.quoting /\ screen.fee # Nothing)
IsDeliveryValid == screen.type = "pickup" \/ (screen.address /\ screen.coords # Nothing /\ HasQuote)
CanPlaceOrder ==
    /\ status.accepting /\ DOMAIN cart # {}
    /\ IsDeliveryValid
    /\ CartSubtotal(cart) >= status.minimum[screen.type]
    /\ ~screen.loading

OrderPayload == [type |-> screen.type, address |-> screen.address, coords |-> screen.coords, items |-> cart]

(***************************************************************************)
(* The effect that asks for the fee.  It runs whenever the order type or   *)
(* the place has been set to another value, and cancels its predecessor.   *)
(***************************************************************************)
\* Mutant: the answer of a request that was overtaken still counts.
NothingCancelled(qs) == qs

Cancelled(qs) == {[q EXCEPT !.live = FALSE] : q \in qs}

QuoteEffect(form) ==
    IF form.type # "delivery" \/ form.coords = Nothing
    THEN /\ screen' = [form EXCEPT !.fee = Nothing, !.failed = FALSE, !.quoting = FALSE]
         /\ quotes' = Cancelled(quotes)
    ELSE /\ Cardinality(quotes) < MaxQuotes
         /\ screen' = [form EXCEPT !.fee = Nothing, !.failed = FALSE, !.quoting = TRUE]
         /\ quotes' = Cancelled(quotes)
                        \cup {[place |-> form.coords, live |-> TRUE, answered |-> FALSE, fees |-> {}, current |-> TRUE]}

Elsewhere == <<menu, cart, bandVars, store, active, placements>>

RefreshStoreStatus == status' \in {status, store}

NewCheckout ==
    [name |-> "checkout", type |-> "delivery", address |-> FALSE, coords |-> Nothing,
     fee |-> Nothing, failed |-> FALSE, quoting |-> FALSE, current |-> TRUE, loading |-> FALSE]

OpenCheckout ==
    /\ screen.name = "cart" /\ DOMAIN cart # {} /\ status.accepting
    /\ screen' = NewCheckout
    /\ RefreshStoreStatus
    /\ UNCHANGED <<Elsewhere, quotes>>

Focus ==
    /\ OnCheckout
    /\ RefreshStoreStatus
    /\ UNCHANGED <<Elsewhere, screen, quotes>>

(* Another type runs the effect.  Choosing delivery forgets the fee, and   *)
(* choosing it once more does so with nothing to run the effect again.     *)
SelectOrderType(type) ==
    /\ OnCheckout
    /\ IF type # screen.type THEN QuoteEffect([screen EXCEPT !.type = type])
       ELSE /\ screen' = IF type = "pickup" THEN screen ELSE [screen EXCEPT !.fee = Nothing, !.failed = FALSE]
            /\ UNCHANGED quotes
    /\ UNCHANGED <<Elsewhere, status>>

SelectDeliveryLocation(place) ==
    /\ OnCheckout /\ screen.type = "delivery"
    /\ QuoteEffect([screen EXCEPT !.coords = place])
    /\ UNCHANGED <<Elsewhere, status>>

(* The phone's own location comes some time after it was asked for, and    *)
(* with it, or not, an address.                                            *)
UseCurrentLocation(place, named) ==
    /\ OnCheckout
    /\ QuoteEffect([screen EXCEPT !.coords = place, !.address = @ \/ named])
    /\ UNCHANGED <<Elsewhere, status>>

(* The address book may hold any place, with its address.                  *)
ApplySavedAddress(place) ==
    /\ OnCheckout /\ screen.type = "delivery"
    /\ QuoteEffect([screen EXCEPT !.coords = place, !.address = TRUE])
    /\ UNCHANGED <<Elsewhere, status>>

ChangeDeliveryAddress(filled) ==
    /\ OnCheckout /\ screen.type = "delivery"
    /\ screen' = [screen EXCEPT !.address = filled]
    /\ UNCHANGED <<Elsewhere, status, quotes>>

LeaveCheckout ==
    /\ OnCheckout
    /\ screen' = Browsing
    /\ quotes' = Cancelled(quotes)
    /\ placements' = {[p EXCEPT !.here = FALSE] : p \in placements}
    /\ UNCHANGED <<menu, cart, bandVars, store, status, active>>

(* The answer names a fee, or none: refused, or lost.                      *)
GetDeliveryQuote(q) ==
    /\ ~q.answered
    /\ \E fees \in {QuotedFees(Distance[q.place]), {}} :
            quotes' = (quotes \ {q}) \cup {[q EXCEPT !.answered = TRUE, !.fees = fees]}
    /\ UNCHANGED <<Elsewhere, screen, status>>

QuoteArrives(q) ==
    /\ q.answered
    /\ quotes' = quotes \ {q}
    /\ IF ~q.live \/ ~OnCheckout THEN UNCHANGED screen
       ELSE \E fee \in IF q.fees = {} THEN {Nothing} ELSE q.fees :
                screen' = [screen EXCEPT !.fee = fee, !.failed = (q.fees = {}), !.quoting = FALSE,
                                         !.current = q.current]
    /\ UNCHANGED <<Elsewhere, status>>

(***************************************************************************)
(* Placing the order: the status is asked for again, then the order is     *)
(* sent as it was when the button was pressed.                             *)
(***************************************************************************)
PlaceOrder ==
    /\ OnCheckout /\ CanPlaceOrder
    /\ Cardinality(placements) < MaxPlacements
    /\ placements' = placements \cup {[step |-> "asking", payload |-> OrderPayload, here |-> TRUE]}
    /\ screen' = [screen EXCEPT !.loading = TRUE]
    /\ UNCHANGED <<menu, cart, bandVars, store, status, active, quotes>>

Ended(p) ==
    /\ placements' = placements \ {p}
    /\ screen' = IF p.here THEN [screen EXCEPT !.loading = FALSE] ELSE screen

StatusBeforePlacing(p) ==
    /\ p.step = "asking"
    /\ \/ /\ status' = store
          /\ IF store.accepting
             THEN /\ placements' = (placements \ {p})
                        \cup {[p EXCEPT !.step = IF screen = SignedOut THEN "refused" ELSE "sent"]}
                  /\ UNCHANGED screen
             ELSE Ended(p)
       \/ Ended(p) /\ UNCHANGED status
    /\ UNCHANGED <<menu, cart, bandVars, store, active, quotes>>

CreateOrder(p) ==
    /\ p.step = "sent"
    /\ active' = (active \/ CreateAccepted(p.payload))
    /\ placements' = (placements \ {p})
                        \cup {[p EXCEPT !.step = IF CreateAccepted(p.payload) THEN "taken" ELSE "refused"]}
    /\ UNCHANGED <<cartVars, bandVars, store, status, quotes>>

(* The answer to a taken order empties the cart and shows the orders,      *)
(* whatever the customer does by then.                                     *)
OrderTaken(p) ==
    /\ p.step = "taken"
    /\ placements' = {[other EXCEPT !.here = FALSE] : other \in placements \ {p}}
    /\ cart' = EmptyCart
    /\ screen' = IF screen = SignedOut THEN screen ELSE Browsing
    /\ quotes' = Cancelled(quotes)
    /\ UNCHANGED <<menu, bandVars, store, status, active>>

(* Refused, or the answer was lost.                                        *)
OrderFailed(p) ==
    /\ p.step \in {"taken", "refused"}
    /\ Ended(p)
    /\ UNCHANGED <<menu, cart, bandVars, store, status, active, quotes>>

(***************************************************************************)
(* The rest of the world.                                                  *)
(***************************************************************************)
FinishOrder ==
    /\ active
    /\ active' = FALSE
    /\ UNCHANGED <<cartVars, bandVars, store, status, quotes, placements>>

SignIn ==
    /\ screen = SignedOut
    /\ screen' = Browsing
    /\ UNCHANGED <<menu, cart, bandVars, store, status, active, quotes, placements>>

SignOut ==
    /\ screen # SignedOut
    /\ screen' = SignedOut
    /\ cart' = EmptyCart
    /\ quotes' = Cancelled(quotes)
    /\ placements' = {[p EXCEPT !.here = FALSE] : p \in placements}
    /\ UNCHANGED <<menu, bandVars, store, status, active>>

SetStore(settings) ==
    /\ settings # store
    /\ store' = settings
    /\ UNCHANGED <<cartVars, bandVars, status, active, quotes, placements>>

(* A change of the bands makes the fees quoted so far old; only the        *)
(* properties look at that.                                                *)
ChangeBands ==
    /\ BandsNext
    /\ IF bands' = bands THEN UNCHANGED <<quotes, screen>>
       ELSE /\ quotes' = {[q EXCEPT !.current = @ /\ ~q.answered] : q \in quotes}
            /\ screen' = IF OnCheckout THEN [screen EXCEPT !.current = FALSE] ELSE screen
    /\ UNCHANGED <<menu, cart, store, status, active, placements>>

CheckoutInit(rows, fees) ==
    /\ CartInit(rows) /\ BandsInit(fees)
    /\ store \in Stores /\ status = store
    /\ active = FALSE
    /\ quotes = {} /\ placements = {}

CheckoutNext ==
    \/ CartNext /\ UNCHANGED <<bandVars, store, status, active, quotes, placements>>
    \/ \E s \in Sizes, row \in SizeRows :
            ChangeSize(s, row) /\ UNCHANGED <<bandVars, store, status, active, quotes, placements>>
    \/ OpenCheckout \/ Focus \/ LeaveCheckout \/ PlaceOrder
    \/ \E type \in CheckoutOrderTypes : SelectOrderType(type)
    \/ \E filled \in BOOLEAN : ChangeDeliveryAddress(filled)
    \/ \E place \in Places :
            \/ SelectDeliveryLocation(place) \/ ApplySavedAddress(place)
            \/ \E named \in BOOLEAN : UseCurrentLocation(place, named)
    \/ \E q \in quotes : GetDeliveryQuote(q) \/ QuoteArrives(q)
    \/ \E p \in placements : StatusBeforePlacing(p) \/ CreateOrder(p) \/ OrderTaken(p) \/ OrderFailed(p)
    \/ \E settings \in Stores : SetStore(settings)
    \/ FinishOrder \/ SignIn \/ SignOut \/ ChangeBands

CheckoutSpec ==
    /\ SoundBands /\ \E rows \in [Sizes -> SizeRows] : CheckoutInit(rows, bands)
    /\ [][CheckoutNext]_checkoutVars

(* The copies the phone works with are those of the server.                *)
UpToDate ==
    /\ status = store
    /\ \A l \in DOMAIN cart : cart[l].row = menu[SizeOf(l)] /\ cart[l].row.active
    /\ screen.type = "delivery" => screen.current

(* A line keeps the limit it was added with, so a cart with lines from     *)
(* before and after a change of the limit can clamp a line to no units and *)
(* keep it; the server refuses such a line.                                *)
NoEmptyLine == \A l \in DOMAIN cart : cart[l].quantity > 0

(* The button does what it says: when it can be pressed, what the phone    *)
(* knows is up to date, no line is empty and the customer has no other     *)
(* order in progress, the server takes the order that would be sent: it is *)
(* within the limits of its sizes over all its lines, reaches the minimum  *)
(* of its type and goes to a place that is delivered to.                   *)
EnabledIsAccepted ==
    OnCheckout /\ CanPlaceOrder /\ UpToDate /\ NoEmptyLine /\ ~active => CreateAccepted(OrderPayload)

(* The fee next to the button is the fee of the place the order would go   *)
(* to, however many answers to earlier places are still on their way.      *)
FeeShownIsCharged ==
    OnCheckout /\ screen.type = "delivery" /\ screen.fee # Nothing /\ screen.current =>
        QuotedFees(Distance[screen.coords]) = {screen.fee}

(* "Calculating delivery fee..." stands in the place of the fee as long as *)
(* there is none: with a place chosen and no failure told, one is being    *)
(* asked for.                                                              *)
CalculatingMeansAsked ==
    OnCheckout /\ screen.type = "delivery" /\ screen.coords # Nothing /\ screen.fee = Nothing /\ ~screen.failed =>
        screen.quoting /\ \E q \in quotes : q.live
=============================================================================
