------------------------------ MODULE MCCheckout ------------------------------
(***************************************************************************)
(* The instance TLC checks of what stands between a customer and an order: *)
(* the working hours, the offers and the checkout with its cart and its    *)
(* fees.  They share no state; a behaviour takes one of them, and of the   *)
(* checkout either the whole way through the screens, the filling of a     *)
(* larger cart, the race of its quotes with changing bands, or the bands   *)
(* alone.                                                                  *)
(***************************************************************************)
EXTENDS StoreHours, OfferEditor, Checkout, TLC

CONSTANTS drinks, latte, cake, hot, plainLatte, milkLatte, slice,
          small, cup, syrup, near, far, inner, outer

VARIABLES part, changes

MCOpenings == {[opens |-> 1, closes |-> 2], [opens |-> 2, closes |-> 1]}

MCChildren == [e \in {drinks, latte, cake, hot} |-> IF e \in {drinks, hot} THEN {latte} ELSE {}]
MCKeys == plainLatte :> {drinks, latte} @@ milkLatte :> {drinks, latte} @@ slice :> {cake}
MCPrices == plainLatte :> 305 @@ milkLatte :> 350 @@ slice :> 210
MCCart(a, b, c) == plainLatte :> a @@ milkLatte :> b @@ slice :> c
MCCarts == {MCCart(2, 0, 0), MCCart(0, 1, 1), MCCart(0, 0, 1), MCCart(2, 1, 1)}
Who(n, s, b) == [completed |-> n, sinceUse |-> s, blocked |-> b]
MCCustomers == {Who(0, 0, FALSE), Who(0, 0, TRUE), Who(2, 1, TRUE)}
Plain == [type |-> "TEMPORARY", value |-> 10, window |-> "live", active |-> TRUE, required |-> None,
          buy |-> None, free |-> None, mode |-> None, percent |-> None, rule |-> FALSE,
          scope |-> {}, buyFrom |-> {}, freeFrom |-> {}]
Free == [Plain EXCEPT !.type = "FREE_DELIVERY_ABOVE_AMOUNT", !.value = 500]
BuyGet == [Plain EXCEPT !.type = "BUY_N_GET_M_FREE", !.value = 0, !.buy = 1, !.free = 1]
MCRows == {[Plain EXCEPT !.scope = {drinks}], [Plain EXCEPT !.type = "LOYALTY", !.rule = TRUE],
           Free, [Free EXCEPT !.percent = 20],
           [BuyGet EXCEPT !.scope = {latte}], [BuyGet EXCEPT !.buyFrom = {latte}, !.freeFrom = {cake}],
           [BuyGet EXCEPT !.buyFrom = {drinks}, !.freeFrom = {latte}],
           [Plain EXCEPT !.type = "FIRST_TIME_FREE_ITEM", !.scope = {cake}]}
MCBeside == {{}, {Free}, {Plain, Free}, {[BuyGet EXCEPT !.scope = {latte}]}}
MCValues == {50, 600}
MCCounts == {1}

MCType == small :> cup
MCAddons == small :> {syrup}
Unlimited == [limit |-> Nothing, price |-> 2, active |-> TRUE]
MCSizeRows == {[Unlimited EXCEPT !.limit = n] : n \in {Nothing, 1, 3}}
Minimum == [pickup |-> 0, delivery |-> 3]
MCStores == {[accepting |-> a, minimum |-> Minimum] : a \in BOOLEAN}
MCDistance == near :> 1 @@ far :> 3
Band(from, to, fee, sort) == [min |-> from, max |-> to, fee |-> fee, active |-> TRUE, sort |-> sort]
MCBandRows == {Band(0, 1, 1, 0), Band(1, 3, 2, 1), Band(0, 2, 1, 1), [Band(1, 2, 2, 0) EXCEPT !.active = FALSE]}
MCBandValues == {[active |-> TRUE], [active |-> FALSE], [max |-> 3], [min |-> 1, max |-> 2]}
MCBands == inner :> Band(0, 1, 1, 0) @@ outer :> Band(1, 2, 2, 1)

NoHoursPart == /\ settings = [ordering |-> TRUE, hours |-> NoHours] /\ now = 0 /\ asked = 0 /\ answers = {}
               /\ phone = [accepting |-> TRUE, next |-> Never, current |-> TRUE, timer |-> FALSE, missed |-> FALSE]
NoOffersPart == /\ offer = None /\ entries = Entries /\ ruleOrders = 1 /\ requests = 0 /\ editor = Closed /\ sent = NoSave
NoCheckoutPart == store = [accepting |-> TRUE, minimum |-> Minimum] /\ CheckoutInit([s \in Sizes |-> Unlimited], MCBands)

QuotingInit ==
    /\ menu = [s \in Sizes |-> Unlimited] /\ BandsInit(MCBands)
    /\ cart = [l \in {<<small, {}>>} |-> [quantity |-> 2, row |-> Unlimited]]
    /\ screen = NewCheckout
    /\ store \in Stores /\ store.accepting /\ status = store
    /\ active = FALSE /\ quotes = {} /\ placements = {}

Init ==
    /\ changes = 0
    /\ \/ part = "hours" /\ HoursInit /\ NoOffersPart /\ NoCheckoutPart
       \/ part = "offers" /\ OfferEditorInit /\ NoHoursPart /\ NoCheckoutPart
       \/ part = "bands" /\ NoHoursPart /\ NoOffersPart /\ NoCheckoutPart
       \/ part \in {"filling", "shopping"} /\ NoHoursPart /\ NoOffersPart
          /\ \E rows \in [Sizes -> SizeRows] : CheckoutInit(rows, MCBands)
       \/ part = "quoting" /\ NoHoursPart /\ NoOffersPart /\ QuotingInit

(* Larger carts and at most two changes of the menu, so that a limit can go *)
(* and come back while lines of its size are in the cart; nothing placed.  *)
Filling ==
    /\ CheckoutNext /\ UNCHANGED <<bandVars, store>>
    /\ changes' = changes + (IF menu' = menu THEN 0 ELSE 1) /\ changes' <= 2
    /\ placements' = {} /\ quotes' = {}

(* At most one change of the store and the menu while a customer shops for *)
(* one or two units of one line; carts of several lines are Filling's.     *)
Shopping ==
    /\ CheckoutNext /\ UNCHANGED bandVars
    /\ changes' = changes + (IF <<menu, store>>' = <<menu, store>> THEN 0 ELSE 1) /\ changes' <= 1
    /\ Cardinality(DOMAIN cart') <= 1 /\ UnitsOf(cart', DOMAIN cart') <= 2 /\ \A s \in Sizes : menu'[s].limit # 3
    /\ \A q \in quotes' : q.live /\ q.place = near

Quoting ==
    /\ CheckoutNext /\ UNCHANGED <<changes, menu, cart, store, placements>>
    /\ screen'.name = "checkout"
    /\ \A a \in Admins : saving'[a] # Idle => saving'[a].fields = {"active"}

(* While the save of a form that still may be edited is under way the      *)
(* admin leaves, cancels, deletes the offer or switches it on or off.      *)
Offering ==
    /\ OfferEditorNext
    /\ (sent # NoSave /\ sent' = sent /\ editor' # editor) =>
        /\ sent.edits < MaxEdits
        /\ editor' # Closed /\ editor'.edits > editor.edits => editor'.form = [editor.form EXCEPT !.active = ~@]

Next ==
    /\ UNCHANGED part
    /\ \/ part = "hours" /\ HoursNext /\ UNCHANGED <<changes, editorVars, checkoutVars>>
       \/ part = "offers" /\ Offering /\ UNCHANGED <<changes, hoursVars, checkoutVars>>
       \/ /\ part = "bands" /\ BandsNext
          /\ UNCHANGED <<changes, hoursVars, editorVars, cartVars, store, status, active, quotes, placements>>
       \/ part = "filling" /\ Filling /\ UNCHANGED <<hoursVars, editorVars>>
       \/ part = "shopping" /\ Shopping /\ UNCHANGED <<hoursVars, editorVars>>
       \/ part = "quoting" /\ Quoting /\ UNCHANGED <<hoursVars, editorVars>>

Spec == Init /\ [][Next]_<<part, changes, hoursVars, editorVars, checkoutVars>>
=============================================================================
