---------------------------- MODULE CheckoutProofs ----------------------------
(***************************************************************************)
(* The delivery fee between the bands on the server and the checkout on    *)
(* the phone, the cart and the order the checkout sends, the working hours *)
(* the phone follows, and the offers with their editor: for every menu and *)
(* every set of bands, admins, places, weekly tables, offers, carts and    *)
(* customers.                                                              *)
(***************************************************************************)
EXTENDS StoreHours, Checkout, OfferEditor, FunctionTheorems, FiniteSetTheorems, WellFoundedInduction, TLAPS

-----------------------------------------------------------------------------
(* The bands *)

\* What a request has in hand.
BandRequests ==
  [step : {"read", "checked"}, band : Bands, row : BandRow, fields : SUBSET BandFields, new : BOOLEAN]

\* With no other request about, the band is as the request read it, or deleted
\* since; and what was checked still has its place among the others.
BandRequestOK(request) ==
  /\ request \in BandRequests
  /\ request.new = TRUE => bands[request.band] = Idle /\ request.step = "checked"
  /\ request.new = FALSE => \/ bands[request.band] = Idle
                            \/ \A f \in BandFields \ request.fields : request.row[f] = bands[request.band][f]
  /\ request.step = "checked" =>
       /\ ValidBounds(request.row)
       /\ request.row.active = TRUE => NoOverlap(request.row, {request.band})

BandsOK ==
  /\ SoundBands
  /\ saving \in [Admins -> BandRequests \cup {Idle}]
  /\ \A a \in Admins : saving[a] # Idle => BandRequestOK(saving[a])

LEMMA RowFields ==
  ASSUME NEW row \in BandRow
  PROVE  DOMAIN row = BandFields /\ \A f \in BandFields : row[f] \in IF f = "active" THEN BOOLEAN ELSE Int
  BY DEF BandRow, BandFields

LEMMA BandsInitOK == SoundBands /\ BandsInit(bands) => BandsOK
  BY DEF BandsOK, BandsInit

\* A request that is begun, goes on or is given up, with the bands as they were.
LEMMA RequestStep ==
  ASSUME BandsOK, UNCHANGED bands, NEW a \in Admins, NEW request, saving' = [saving EXCEPT ![a] = request],
         request = Idle \/ BandRequestOK(request)
  PROVE  BandsOK'
<1>1. SoundBands'
  BY DEF BandsOK, SoundBands, ActiveBandsDisjoint, ActiveBands
<1>2. saving' \in [Admins -> BandRequests \cup {Idle}]
  BY DEF BandsOK, BandRequestOK
<1>3. \A r : BandRequestOK(r) => BandRequestOK(r)'
  BY DEF BandRequestOK, NoOverlap, ActiveBands
<1>4. \A other \in Admins : saving'[other] # Idle => BandRequestOK(saving'[other])
  BY DEF BandsOK
<1> QED
  BY <1>1, <1>2, <1>3, <1>4 DEF BandsOK

LEMMA CreateBandOK ==
  ASSUME BandsOK, NEW a \in Admins, NEW b \in Bands, NEW row \in BandRows, CreateDistanceBand(a, b, row)
  PROVE  BandsOK'
<1> DEFINE request == [step |-> "checked", band |-> b, row |-> row, fields |-> DOMAIN row, new |-> TRUE]
<1>1. row \in BandRow /\ DOMAIN row = BandFields
  BY BandAssumption, RowFields
<1>2. request \in BandRequests
  BY <1>1 DEF BandRequests
<1>3. /\ request.new = TRUE /\ request.step = "checked" /\ request.row = row /\ request.band = b
  OBVIOUS
<1>4. /\ bands[b] = Idle /\ ValidBounds(row) /\ (row.active = TRUE => NoOverlap(row, {}))
      /\ saving' = [saving EXCEPT ![a] = request] /\ UNCHANGED bands
  BY DEF CreateDistanceBand, ComparedWithOthers
<1> HIDE DEF request
<1>5. BandRequestOK(request)
  BY <1>2, <1>3, <1>4 DEF BandRequestOK, NoOverlap
<1> QED
  BY <1>4, <1>5, RequestStep

LEMMA ReadBandOK ==
  ASSUME BandsOK, NEW a \in Admins, NEW b \in Bands, NEW values \in BandValues, ReadForUpdate(a, b, values)
  PROVE  BandsOK'
<1> DEFINE row == [f \in DOMAIN bands[b] |-> IF f \in DOMAIN values THEN values[f] ELSE bands[b][f]]
           request == [step |-> "read", band |-> b, fields |-> DOMAIN values, new |-> FALSE, row |-> row]
<1>1. bands[b] \in BandRow
  BY DEF BandsOK, SoundBands, ReadForUpdate
<1>2. /\ DOMAIN values \in SUBSET BandFields
      /\ \A f \in DOMAIN values : values[f] \in IF f = "active" THEN BOOLEAN ELSE Int
  BY BandAssumption
<1>3. /\ row \in BandRow
      /\ \A f \in BandFields : row[f] = IF f \in DOMAIN values THEN values[f] ELSE bands[b][f]
  BY <1>1, <1>2 DEF BandRow, BandFields
<1>4. saving' = [saving EXCEPT ![a] = request] /\ UNCHANGED bands
  BY DEF ReadForUpdate
<1> HIDE DEF row
<1>5. request \in BandRequests
  BY <1>2, <1>3 DEF BandRequests
<1>6. /\ request.new = FALSE /\ request.step = "read" /\ request.row = row /\ request.band = b
      /\ request.fields = DOMAIN values
  OBVIOUS
<1> HIDE DEF request
<1>7. BandRequestOK(request)
  BY <1>3, <1>5, <1>6 DEF BandRequestOK
<1> QED
  BY <1>4, <1>7, RequestStep

LEMMA CheckBandOK ==
  ASSUME BandsOK, NEW a \in Admins, CheckUpdate(a)
  PROVE  BandsOK'
<1> DEFINE request == saving[a]
           checked == [request EXCEPT !.step = "checked"]
<1>1. request # Idle /\ request.step = "read" /\ BandRequestOK(request) /\ UNCHANGED bands
  BY DEF CheckUpdate, BandsOK
<1>2. request \in BandRequests /\ request.new = FALSE
  BY <1>1 DEF BandRequestOK, BandRequests
<1>3. \/ saving' = [saving EXCEPT ![a] = Idle]
      \/ /\ saving' = [saving EXCEPT ![a] = checked]
         /\ ValidBounds(request.row) /\ (request.row.active => NoOverlap(request.row, {request.band}))
  BY DEF CheckUpdate, ComparedWithOthers
<1>4. /\ checked \in BandRequests /\ checked.step = "checked" /\ checked.row = request.row
      /\ checked.band = request.band /\ checked.fields = request.fields /\ checked.new = request.new
  BY <1>2 DEF BandRequests
<1> HIDE DEF request, checked
<1>5. CASE saving' = [saving EXCEPT ![a] = Idle]
  BY <1>1, <1>5, RequestStep
<1>6. CASE /\ saving' = [saving EXCEPT ![a] = checked]
           /\ ValidBounds(request.row) /\ (request.row.active => NoOverlap(request.row, {request.band}))
  <2>1. BandRequestOK(checked)
    BY <1>1, <1>2, <1>4, <1>6 DEF BandRequestOK
  <2> QED
    BY <1>1, <1>6, <2>1, RequestStep
<1> QED
  BY <1>3, <1>5, <1>6

\* A row that overlaps no other may take its place.
LEMMA PutBand ==
  ASSUME SoundBands, NEW b \in Bands, NEW row \in BandRow, bands' = [bands EXCEPT ![b] = row],
         ValidBounds(row), row.active = TRUE => NoOverlap(row, {b})
  PROVE  SoundBands'
<1>1. bands' \in [Bands -> BandRow \cup {Idle}] /\ bands'[b] = row /\ \A c \in Bands \ {b} : bands'[c] = bands[c]
  BY DEF SoundBands
<1>2. \A c \in Bands : bands'[c] # Idle => ValidBounds(bands'[c])
  BY <1>1 DEF SoundBands
<1>3. row # Idle
  BY BandAssumption
<1>4. \A c \in ActiveBands' : c # b => c \in ActiveBands /\ bands'[c] = bands[c]
  BY <1>1 DEF ActiveBands
<1>5. b \in ActiveBands' => \A c \in ActiveBands \ {b} : ~Overlap(bands[c], row) /\ ~Overlap(row, bands[c])
  BY <1>1 DEF ActiveBands, NoOverlap, Overlap, SoundBands, BandRow
<1>6. \A c, d \in ActiveBands' : c # d => ~Overlap(bands'[c], bands'[d])
  BY <1>1, <1>4, <1>5 DEF SoundBands, ActiveBandsDisjoint
<1> QED
  BY <1>1, <1>2, <1>6 DEF SoundBands, ActiveBandsDisjoint, Overlap, ValidBounds

LEMMA CommitBandOK ==
  ASSUME BandsOK, OneBandRequest, NEW a \in Admins, CommitBand(a)
  PROVE  BandsOK'
<1> DEFINE request == saving[a]
           b == request.band
           written == [f \in DOMAIN bands[b] |-> IF f \in request.fields THEN request.row[f] ELSE bands[b][f]]
<1>1. request # Idle /\ request.step = "checked" /\ BandRequestOK(request)
  BY DEF CommitBand, BandsOK
<1>2. /\ request \in BandRequests /\ b \in Bands /\ request.row \in BandRow /\ request.new \in BOOLEAN
      /\ request.fields \in SUBSET BandFields
      /\ ValidBounds(request.row) /\ (request.row.active = TRUE => NoOverlap(request.row, {b}))
  BY <1>1 DEF BandRequestOK, BandRequests
<1>3. /\ saving' = [saving EXCEPT ![a] = Idle]
      /\ \/ request.new = TRUE /\ bands' = [bands EXCEPT ![b] = request.row]
         \/ UNCHANGED bands
         \/ request.new = FALSE /\ bands[b] # Idle /\ bands' = [bands EXCEPT ![b] = written]
  BY <1>2 DEF CommitBand
<1>4. request.new = FALSE /\ bands[b] # Idle => written = request.row
  <2> SUFFICES ASSUME request.new = FALSE, bands[b] # Idle
               PROVE  written = request.row
    OBVIOUS
  <2>1. bands[b] \in BandRow
    BY <1>2 DEF BandsOK, SoundBands
  <2>2. \A f \in BandFields \ request.fields : request.row[f] = bands[b][f]
    BY <1>1 DEF BandRequestOK
  <2>3. DOMAIN bands[b] = BandFields /\ DOMAIN request.row = BandFields
    BY <1>2, <2>1, RowFields
  <2>4. request.row = [f \in BandFields |-> request.row[f]]
    BY <1>2 DEF BandRow, BandFields
  <2> QED
    BY <2>2, <2>3, <2>4
<1> HIDE DEF written
<1>5. bands' = [bands EXCEPT ![b] = request.row] \/ UNCHANGED bands
  BY <1>3, <1>4
<1>6. SoundBands'
  <2>1. CASE UNCHANGED bands
    BY <2>1 DEF BandsOK, SoundBands, ActiveBandsDisjoint, ActiveBands
  <2>2. CASE bands' = [bands EXCEPT ![b] = request.row]
    BY <1>2, <2>2, PutBand DEF BandsOK
  <2> QED
    BY <1>5, <2>1, <2>2
<1>7. \A other \in Admins : saving'[other] = Idle
  BY <1>1, <1>3 DEF OneBandRequest, BandsOK
<1> QED
  BY <1>3, <1>6, <1>7 DEF BandsOK

LEMMA DeleteBandOK ==
  ASSUME BandsOK, NEW b \in Bands, DeleteDistanceBand(b)
  PROVE  BandsOK'
<1>1. bands' = [bands EXCEPT ![b] = Idle] /\ UNCHANGED saving
  BY DEF DeleteDistanceBand
<1>2. bands' \in [Bands -> BandRow \cup {Idle}] /\ bands'[b] = Idle /\ \A c \in Bands \ {b} : bands'[c] = bands[c]
  BY <1>1 DEF BandsOK, SoundBands
<1>3. \A c \in ActiveBands' : c \in ActiveBands /\ bands'[c] = bands[c]
  BY <1>2 DEF ActiveBands
<1>4. SoundBands'
  BY <1>2, <1>3 DEF BandsOK, SoundBands, ActiveBandsDisjoint
<1>5. ASSUME NEW request, BandRequestOK(request)
      PROVE  BandRequestOK(request)'
  <2>1. request.band \in Bands
    BY <1>5 DEF BandRequestOK, BandRequests
  <2> QED
    BY <1>2, <1>3, <1>5, <2>1 DEF BandRequestOK, NoOverlap
<1> QED
  BY <1>1, <1>4, <1>5 DEF BandsOK

LEMMA BandsStep == BandsOK /\ OneBandRequest /\ [BandsNext]_bandVars => BandsOK'
<1> SUFFICES ASSUME BandsOK, OneBandRequest, [BandsNext]_bandVars
             PROVE  BandsOK'
  OBVIOUS
<1>1. CASE UNCHANGED bandVars
  BY <1>1 DEF bandVars, BandsOK, SoundBands, ActiveBandsDisjoint, ActiveBands, BandRequestOK, NoOverlap
<1> QED
  BY <1>1, CreateBandOK, ReadBandOK, CheckBandOK, CommitBandOK, DeleteBandOK DEF BandsNext

\* As long as no two requests that change bands overlap in time, no two active
\* bands overlap either, whatever is asked for.
THEOREM BandsStayDisjoint == BandsSpec /\ []OneBandRequest => []ActiveBandsDisjoint
<1>1. BandsOK => ActiveBandsDisjoint
  BY DEF BandsOK, SoundBands
<1> QED
  BY <1>1, BandsInitOK, BandsStep, PTL DEF BandsSpec

-----------------------------------------------------------------------------
(* The fee *)

CheckoutScreens ==
  [name : {"checkout"}, type : CheckoutOrderTypes, address : BOOLEAN, coords : Places \cup {Nothing},
   fee : Int \cup {Nothing}, failed : BOOLEAN, quoting : BOOLEAN, current : BOOLEAN, loading : BOOLEAN]
Quotes == [place : Places, live : BOOLEAN, answered : BOOLEAN, fees : SUBSET Int, current : BOOLEAN]

ScreenOK(scr) == "name" \in DOMAIN scr /\ (scr.name = "checkout" => scr \in CheckoutScreens)

\* An answer the screen still waits for is about the place on the screen; one
\* that is not outdated names the fee of its place, or none.
QuoteOK(q) ==
  /\ q \in Quotes
  /\ q.live = TRUE => OnCheckout /\ screen.type = "delivery" /\ screen.coords = q.place
  /\ q.answered = TRUE /\ q.current = TRUE => q.fees \in {QuotedFees(Distance[q.place]), {}}

\* Only an order placed from the checkout in front comes back to it.
PlacementOK(p) == "here" \in DOMAIN p /\ p.here \in BOOLEAN /\ (p.here = TRUE => OnCheckout)

CheckoutOK ==
  /\ BandsOK /\ ScreenOK(screen)
  /\ \A q \in quotes : QuoteOK(q)
  /\ \A p \in placements : PlacementOK(p)
  /\ FeeShownIsCharged

\* Bands that do not overlap, and have a length, leave no choice of the fee.
LEMMA OneFee ==
  ASSUME SoundBands, NEW distance
  PROVE  /\ QuotedFees(distance) \subseteq Int
         /\ \A fee \in QuotedFees(distance) : QuotedFees(distance) = {fee}
<1> DEFINE reached == {b \in ActiveBands : bands[b].min <= distance /\ distance <= bands[b].max}
           before(b, c) == \/ bands[b].sort < bands[c].sort
                           \/ bands[b].sort = bands[c].sort /\ bands[b].min < bands[c].min
           first == {r \in reached : \A c \in reached : ~before(c, r)}
<1>1. QuotedFees(distance) = {bands[b].fee : b \in first}
  BY DEF QuotedFees
<1>2. \A b \in first : b \in ActiveBands /\ bands[b] \in BandRow /\ ValidBounds(bands[b])
  BY DEF ActiveBands, SoundBands
<1>3. ASSUME NEW b \in first, NEW c \in first, b # c
      PROVE  FALSE
  <2>1. ~before(b, c) /\ ~before(c, b)
    OBVIOUS
  <2>2. bands[b].sort = bands[c].sort /\ bands[b].min = bands[c].min
    BY <1>2, <2>1 DEF BandRow
  <2>3. Overlap(bands[b], bands[c])
    BY <1>2, <2>2 DEF Overlap, ValidBounds, BandRow
  <2> QED
    BY <1>2, <1>3, <2>3 DEF SoundBands, ActiveBandsDisjoint
<1> HIDE DEF first
<1>4. \A b \in first : bands[b].fee \in Int
  BY <1>2 DEF BandRow
<1> QED
  BY <1>1, <1>3, <1>4

LEMMA CheckoutInitOK ==
  SoundBands /\ (\E rows \in [Sizes -> SizeRows] : CheckoutInit(rows, bands)) => CheckoutOK
  BY BandsInitOK DEF CheckoutInit, CartInit, Browsing, CheckoutOK, ScreenOK, FeeShownIsCharged, OnCheckout

\* What the quotes and the fee depend on.
LEMMA SameBands ==
  ASSUME UNCHANGED bandVars
  PROVE  /\ BandsOK => BandsOK'
         /\ \A distance : QuotedFees(distance)' = QuotedFees(distance)
  BY DEF bandVars, BandsOK, SoundBands, ActiveBandsDisjoint, ActiveBands, BandRequestOK, NoOverlap, QuotedFees

LEMMA CancelledOK ==
  ASSUME CheckoutOK, UNCHANGED bandVars, NEW q \in Cancelled(quotes)
  PROVE  QuoteOK(q)'
<1>1. PICK old \in quotes : q = [old EXCEPT !.live = FALSE]
  BY DEF Cancelled
<1>2. old \in Quotes /\ (old.answered = TRUE /\ old.current = TRUE => old.fees \in {QuotedFees(Distance[old.place]), {}})
  BY DEF CheckoutOK, QuoteOK
<1>3. /\ q \in Quotes /\ q.live = FALSE /\ q.answered = old.answered /\ q.current = old.current
      /\ q.fees = old.fees /\ q.place = old.place
  BY <1>1, <1>2 DEF Quotes
<1> QED
  BY <1>2, <1>3, SameBands DEF QuoteOK

\* The screen goes on with the same place and the same type.
LEMMA SamePlace ==
  ASSUME CheckoutOK, UNCHANGED <<bandVars, quotes>>, OnCheckout, screen' \in CheckoutScreens,
         screen'.type = screen.type, screen'.coords = screen.coords, screen'.current = screen.current,
         screen'.fee \in {screen.fee, Nothing},
         \A p \in placements' : "here" \in DOMAIN p /\ p.here \in BOOLEAN
  PROVE  CheckoutOK'
<1>1. screen'.name = "checkout" /\ OnCheckout'
  BY DEF CheckoutScreens, OnCheckout
<1>2. ScreenOK(screen')
  BY <1>1 DEF ScreenOK, CheckoutScreens
<1>3. \A q \in quotes' : QuoteOK(q)'
  BY <1>1, SameBands DEF CheckoutOK, QuoteOK
<1>4. FeeShownIsCharged'
  BY SameBands DEF CheckoutOK, FeeShownIsCharged
<1>5. \A p \in placements' : PlacementOK(p)'
  BY <1>1 DEF PlacementOK
<1> QED
  BY <1>2, <1>3, <1>4, <1>5, SameBands DEF CheckoutOK, ScreenOK

\* The screen asks for the fee of another place, or for none.
LEMMA QuoteEffectOK ==
  ASSUME CheckoutOK, UNCHANGED <<bandVars, placements>>, OnCheckout, NEW form \in CheckoutScreens, QuoteEffect(form)
  PROVE  CheckoutOK'
<1>1. /\ screen' \in CheckoutScreens /\ screen'.name = "checkout" /\ screen'.fee = Nothing
      /\ screen'.type = form.type /\ screen'.coords = form.coords
  BY DEF QuoteEffect, CheckoutScreens
<1>2. OnCheckout' /\ ScreenOK(screen') /\ FeeShownIsCharged'
  BY <1>1 DEF OnCheckout, ScreenOK, CheckoutScreens, FeeShownIsCharged
<1>3. ASSUME NEW q \in quotes'
      PROVE  QuoteOK(q)'
  <2> DEFINE asked1 == [place |-> form.coords, live |-> TRUE, answered |-> FALSE, fees |-> {}, current |-> TRUE]
  <2>1. \/ q \in Cancelled(quotes)
        \/ form.type = "delivery" /\ form.coords # Nothing /\ q = asked1
    BY DEF QuoteEffect, CheckoutScreens, CheckoutOrderTypes
  <2>2. CASE form.type = "delivery" /\ form.coords # Nothing /\ q = asked1
    <3>1. form.coords \in Places
      BY <2>2 DEF CheckoutScreens
    <3>2. q \in Quotes /\ q.place = form.coords /\ q.answered = FALSE
      BY <2>2, <3>1 DEF Quotes
    <3> QED
      BY <1>1, <1>2, <2>2, <3>2 DEF QuoteOK
  <2> QED
    BY <2>1, <2>2, CancelledOK
<1>4. \A p \in placements' : PlacementOK(p)'
  BY <1>2 DEF PlacementOK, CheckoutOK
<1> QED
  BY <1>2, <1>3, <1>4, SameBands DEF CheckoutOK, ScreenOK

\* The checkout is left, and with it all it waited for.
LEMMA LeftOK ==
  ASSUME CheckoutOK, UNCHANGED bandVars, quotes' = Cancelled(quotes),
         \A p \in placements' : \E old \in placements : p = [old EXCEPT !.here = FALSE],
         screen' \in {Browsing, SignedOut}
  PROVE  CheckoutOK'
<1>1. ScreenOK(screen') /\ FeeShownIsCharged'
  BY DEF ScreenOK, Browsing, SignedOut, FeeShownIsCharged, OnCheckout
<1>2. \A q \in quotes' : QuoteOK(q)'
  BY CancelledOK
<1>3. \A p \in placements' : PlacementOK(p)'
  BY DEF PlacementOK, CheckoutOK
<1> QED
  BY <1>1, <1>2, <1>3, SameBands DEF CheckoutOK, ScreenOK

\* With no checkout in front there is nothing to keep up but the bands.
LEMMA ElsewhereOK ==
  ASSUME CheckoutOK, UNCHANGED <<bandVars, quotes, placements>>, ~OnCheckout, "name" \in DOMAIN screen',
         OnCheckout' => screen' = NewCheckout
  PROVE  CheckoutOK'
<1>1. NewCheckout \in CheckoutScreens /\ NewCheckout.fee = Nothing
  BY DEF NewCheckout, CheckoutScreens, CheckoutOrderTypes
<1>2. ScreenOK(screen') /\ FeeShownIsCharged'
  BY <1>1 DEF ScreenOK, FeeShownIsCharged, OnCheckout
<1>3. \A q \in quotes : q.live # TRUE
  BY DEF CheckoutOK, QuoteOK
<1>4. \A q \in quotes' : QuoteOK(q)'
  BY <1>3, SameBands DEF CheckoutOK, QuoteOK
<1>5. \A p \in placements' : PlacementOK(p)'
  BY DEF CheckoutOK, PlacementOK
<1> QED
  BY <1>2, <1>4, <1>5, SameBands DEF CheckoutOK, ScreenOK

LEMMA CartScreens ==
  ASSUME CheckoutOK, CartNext
  PROVE  ~OnCheckout /\ ~OnCheckout' /\ "name" \in DOMAIN screen'
<1>1. "name" \in DOMAIN screen
  BY DEF CheckoutOK, ScreenOK
<1>2. ASSUME NEW type, OpenProduct(type) \/ HandleTypeSelect(type)
      PROVE  ~OnCheckout /\ ~OnCheckout' /\ "name" \in DOMAIN screen'
  <2>1. CASE OpenProduct(type)
    BY <2>1 DEF OpenProduct, OnCheckout
  <2>2. CASE HandleTypeSelect(type)
    BY <1>1, <2>2 DEF HandleTypeSelect, OnCheckout
  <2> QED
    BY <1>2, <2>1, <2>2
<1>3. ASSUME NEW s, HandleSizeSelect(s) \/ ToggleAddon(s)
      PROVE  ~OnCheckout /\ ~OnCheckout' /\ "name" \in DOMAIN screen'
  BY <1>1, <1>3 DEF HandleSizeSelect, ToggleAddon, OnCheckout
<1>4. ASSUME NEW line, PressQuantity(line) \/ PressRemove(line)
      PROVE  ~OnCheckout /\ ~OnCheckout' /\ "name" \in DOMAIN screen'
  BY <1>1, <1>4 DEF PressQuantity, PressRemove, OnCheckout
<1>5. ASSUME ChooseQuantity \/ OpenCart \/ GoBack
      PROVE  ~OnCheckout /\ ~OnCheckout' /\ "name" \in DOMAIN screen'
  BY <1>1, <1>5 DEF ChooseQuantity, OpenCart, GoBack, Browsing, OnCheckout
<1>6. ASSUME AddToCart
      PROVE  ~OnCheckout /\ ~OnCheckout' /\ "name" \in DOMAIN screen'
  <2>1. screen.name = "product" /\ (screen' = Browsing \/ screen' = screen)
    BY <1>6 DEF AddToCart
  <2> QED
    BY <1>1, <2>1 DEF Browsing, OnCheckout
<1> QED
  BY <1>2, <1>3, <1>4, <1>5, <1>6 DEF CartNext

LEMMA ScreenStep ==
  ASSUME CheckoutOK,
         \/ OpenCheckout \/ Focus \/ LeaveCheckout
         \/ \E type \in CheckoutOrderTypes : SelectOrderType(type)
         \/ \E filled \in BOOLEAN : ChangeDeliveryAddress(filled)
         \/ \E place \in Places :
              \/ SelectDeliveryLocation(place) \/ ApplySavedAddress(place)
              \/ \E named \in BOOLEAN : UseCurrentLocation(place, named)
  PROVE  CheckoutOK'
<1>1. OnCheckout => screen \in CheckoutScreens /\ screen.name = "checkout"
  BY DEF CheckoutOK, ScreenOK, OnCheckout
<1>2. \A p \in placements : "here" \in DOMAIN p /\ p.here \in BOOLEAN
  BY DEF CheckoutOK, PlacementOK
<1>3. CASE OpenCheckout
  BY <1>3, ElsewhereOK DEF OpenCheckout, Elsewhere, NewCheckout, OnCheckout
<1>4. CASE Focus
  BY <1>1, <1>2, <1>4, SamePlace DEF Focus, Elsewhere
<1>5. CASE LeaveCheckout
  <2>1. \A p \in placements' : \E old \in placements : p = [old EXCEPT !.here = FALSE]
    BY <1>5 DEF LeaveCheckout
  <2> QED
    BY <1>5, <2>1, LeftOK DEF LeaveCheckout
<1>6. ASSUME NEW type \in CheckoutOrderTypes, SelectOrderType(type)
      PROVE  CheckoutOK'
  <2>1. OnCheckout /\ UNCHANGED <<bandVars, placements>>
    BY <1>6 DEF SelectOrderType, Elsewhere
  <2>2. CASE type # screen.type
    <3>1. [screen EXCEPT !.type = type] \in CheckoutScreens
      BY <1>1, <2>1 DEF CheckoutScreens
    <3> QED
      BY <1>6, <2>1, <2>2, <3>1, QuoteEffectOK DEF SelectOrderType
  <2>3. CASE type = screen.type
    <3>1. UNCHANGED quotes /\ (screen' = screen \/ screen' = [screen EXCEPT !.fee = Nothing, !.failed = FALSE])
      BY <1>6, <2>3 DEF SelectOrderType
    <3>2. /\ screen' \in CheckoutScreens /\ screen'.fee \in {screen.fee, Nothing}
          /\ screen'.type = screen.type /\ screen'.coords = screen.coords /\ screen'.current = screen.current
      BY <1>1, <2>1, <3>1 DEF CheckoutScreens
    <3> QED
      BY <1>2, <2>1, <3>1, <3>2, SamePlace
  <2> QED
    BY <2>2, <2>3
<1>7. ASSUME NEW filled \in BOOLEAN, ChangeDeliveryAddress(filled)
      PROVE  CheckoutOK'
  <2>1. OnCheckout /\ UNCHANGED <<bandVars, placements, quotes>> /\ screen' = [screen EXCEPT !.address = filled]
    BY <1>7 DEF ChangeDeliveryAddress, Elsewhere
  <2>2. /\ screen' \in CheckoutScreens /\ screen'.fee = screen.fee
        /\ screen'.type = screen.type /\ screen'.coords = screen.coords /\ screen'.current = screen.current
    BY <1>1, <2>1 DEF CheckoutScreens
  <2> QED
    BY <1>2, <2>1, <2>2, SamePlace
<1>8. ASSUME NEW place \in Places, NEW named \in BOOLEAN,
             \/ SelectDeliveryLocation(place) \/ ApplySavedAddress(place) \/ UseCurrentLocation(place, named)
      PROVE  CheckoutOK'
  <2>1. OnCheckout /\ UNCHANGED <<bandVars, placements>>
    BY <1>8 DEF SelectDeliveryLocation, ApplySavedAddress, UseCurrentLocation, Elsewhere
  <2>2. \A address \in BOOLEAN :
          /\ [screen EXCEPT !.coords = place] \in CheckoutScreens
          /\ [screen EXCEPT !.coords = place, !.address = address] \in CheckoutScreens
    BY <1>1, <2>1 DEF CheckoutScreens
  <2>3. (screen.address \/ named) \in BOOLEAN
    OBVIOUS
  <2>4. CASE SelectDeliveryLocation(place)
    BY <2>1, <2>2, <2>4, QuoteEffectOK DEF SelectDeliveryLocation
  <2>5. CASE ApplySavedAddress(place)
    BY <2>1, <2>2, <2>5, QuoteEffectOK DEF ApplySavedAddress
  <2>6. CASE UseCurrentLocation(place, named)
    BY <2>1, <2>2, <2>3, <2>6, QuoteEffectOK DEF UseCurrentLocation
  <2> QED
    BY <1>8, <2>4, <2>5, <2>6
<1> QED
  BY <1>3, <1>4, <1>5, <1>6, <1>7, <1>8

LEMMA QuoteStep ==
  ASSUME CheckoutOK, NEW q \in quotes, GetDeliveryQuote(q) \/ QuoteArrives(q)
  PROVE  CheckoutOK'
<1>1. UNCHANGED <<bandVars, placements>>
  BY DEF GetDeliveryQuote, QuoteArrives, Elsewhere
<1>2. QuoteOK(q) /\ SoundBands /\ SoundBands'
  BY <1>1, SameBands DEF CheckoutOK, BandsOK
<1>3. CASE GetDeliveryQuote(q)
  <2>1. PICK fees \in {QuotedFees(Distance[q.place]), {}} :
            quotes' = (quotes \ {q}) \cup {[q EXCEPT !.answered = TRUE, !.fees = fees]}
    BY <1>3 DEF GetDeliveryQuote
  <2> DEFINE answer == [q EXCEPT !.answered = TRUE, !.fees = fees]
  <2>2. fees \in SUBSET Int
    BY <1>2, OneFee
  <2>3. /\ answer \in Quotes /\ answer.place = q.place /\ answer.live = q.live /\ answer.fees = fees
        /\ answer.answered = TRUE
    BY <1>2, <2>2 DEF QuoteOK, Quotes
  <2>4. UNCHANGED screen
    BY <1>3 DEF GetDeliveryQuote
  <2> HIDE DEF answer
  <2>5. QuoteOK(answer)'
    BY <1>1, <1>2, <2>3, <2>4, SameBands DEF QuoteOK, OnCheckout
  <2>6. \A other \in quotes' : QuoteOK(other)'
    <3>1. \A other \in quotes : QuoteOK(other)'
      BY <1>1, <2>4, SameBands DEF CheckoutOK, QuoteOK, OnCheckout
    <3> QED
      BY <2>1, <2>5, <3>1 DEF answer
  <2> QED
    BY <1>1, <2>4, <2>6, SameBands DEF CheckoutOK, PlacementOK, FeeShownIsCharged, OnCheckout
<1>4. CASE QuoteArrives(q) /\ UNCHANGED screen
  <2>1. quotes' = quotes \ {q}
    BY <1>4 DEF QuoteArrives
  <2>2. \A other \in quotes' : QuoteOK(other)'
    BY <1>1, <1>4, <2>1, SameBands DEF CheckoutOK, QuoteOK, OnCheckout
  <2> QED
    BY <1>1, <1>4, <2>2, SameBands DEF CheckoutOK, PlacementOK, FeeShownIsCharged, OnCheckout
<1>5. CASE QuoteArrives(q) /\ screen' # screen
  <2>1. /\ q.answered /\ quotes' = quotes \ {q} /\ q.live /\ OnCheckout
        /\ \E fee \in IF q.fees = {} THEN {Nothing} ELSE q.fees :
             screen' = [screen EXCEPT !.fee = fee, !.failed = (q.fees = {}), !.quoting = FALSE,
                                      !.current = q.current]
    BY <1>5 DEF QuoteArrives
  <2>2. PICK fee : /\ fee \in q.fees \/ fee = Nothing
                   /\ screen' = [screen EXCEPT !.fee = fee, !.failed = (q.fees = {}), !.quoting = FALSE,
                                               !.current = q.current]
    BY <2>1
  <2>3. screen \in CheckoutScreens
    BY <2>1 DEF CheckoutOK, ScreenOK, OnCheckout
  <2>4. q \in Quotes /\ q.answered = TRUE /\ q.live = TRUE
    BY <1>2, <2>1 DEF QuoteOK, Quotes
  <2>5. fee \in Int \cup {Nothing} /\ q.current \in BOOLEAN /\ (q.fees = {}) \in BOOLEAN
    BY <2>2, <2>4 DEF Quotes
  <2>6. /\ screen' \in CheckoutScreens /\ screen'.name = "checkout" /\ screen'.fee = fee
        /\ screen'.type = screen.type /\ screen'.coords = screen.coords /\ screen'.current = q.current
    BY <2>2, <2>3, <2>5 DEF CheckoutScreens
  <2>7. OnCheckout' /\ ScreenOK(screen')
    BY <2>6 DEF OnCheckout, ScreenOK, CheckoutScreens
  <2>8. \A other \in quotes' : QuoteOK(other)'
    BY <1>1, <2>1, <2>6, <2>7, SameBands DEF CheckoutOK, QuoteOK
  <2>9. FeeShownIsCharged'
    <3> SUFFICES ASSUME screen'.fee # Nothing, screen'.current = TRUE
                 PROVE  QuotedFees(Distance[screen.coords])' = {screen'.fee}
      BY <2>6 DEF FeeShownIsCharged
    <3>1. q.fees = QuotedFees(Distance[q.place]) /\ fee \in q.fees /\ screen.coords = q.place
      BY <1>2, <2>2, <2>4, <2>6 DEF QuoteOK
    <3>2. QuotedFees(Distance[q.place]) = {fee}
      BY <1>2, <3>1, OneFee
    <3>3. QuotedFees(Distance[screen.coords])' = QuotedFees(Distance[screen'.coords])
      BY <1>1, SameBands
    <3> QED
      BY <2>6, <3>1, <3>2, <3>3
  <2>10. \A p \in placements' : PlacementOK(p)'
    BY <1>1, <2>7 DEF CheckoutOK, PlacementOK
  <2> QED
    BY <1>1, <2>7, <2>8, <2>9, <2>10, SameBands DEF CheckoutOK, ScreenOK
<1> QED
  BY <1>3, <1>4, <1>5

\* An order that comes back, or goes on, leaves the place and the fee alone.
LEMMA PlacementsOK ==
  ASSUME CheckoutOK, UNCHANGED <<bandVars, quotes>>,
         \A p \in placements' : "here" \in DOMAIN p /\ p.here \in BOOLEAN /\ (p.here = TRUE => OnCheckout),
         \/ UNCHANGED screen
         \/ OnCheckout /\ \E loading \in BOOLEAN : screen' = [screen EXCEPT !.loading = loading]
  PROVE  CheckoutOK'
<1>1. CASE OnCheckout
  <2>1. screen \in CheckoutScreens
    BY <1>1 DEF CheckoutOK, ScreenOK, OnCheckout
  <2>2. /\ screen' \in CheckoutScreens /\ screen'.fee = screen.fee
        /\ screen'.type = screen.type /\ screen'.coords = screen.coords /\ screen'.current = screen.current
    BY <2>1 DEF CheckoutScreens
  <2> QED
    BY <1>1, <2>2, SamePlace
<1>2. CASE ~OnCheckout
  <2>1. UNCHANGED screen
    BY <1>2
  <2>2. \A q \in quotes' : QuoteOK(q)'
    BY <2>1, SameBands DEF CheckoutOK, QuoteOK, OnCheckout
  <2>3. \A p \in placements' : PlacementOK(p)'
    BY <2>1 DEF PlacementOK, OnCheckout
  <2> QED
    BY <1>2, <2>1, <2>2, <2>3, SameBands DEF CheckoutOK, FeeShownIsCharged, OnCheckout
<1> QED
  BY <1>1, <1>2

LEMMA PlacementStep ==
  ASSUME CheckoutOK,
         \/ PlaceOrder
         \/ \E p \in placements : StatusBeforePlacing(p) \/ CreateOrder(p) \/ OrderTaken(p) \/ OrderFailed(p)
  PROVE  CheckoutOK'
<1>1. \A p \in placements : "here" \in DOMAIN p /\ p.here \in BOOLEAN /\ (p.here = TRUE => OnCheckout)
  BY DEF CheckoutOK, PlacementOK
<1>2. ASSUME PlaceOrder
      PROVE  CheckoutOK'
  <2> DEFINE new == [step |-> "asking", payload |-> OrderPayload, here |-> TRUE]
  <2>1. /\ OnCheckout /\ UNCHANGED <<bandVars, quotes>> /\ placements' = placements \cup {new}
        /\ screen' = [screen EXCEPT !.loading = TRUE]
    BY <1>2 DEF PlaceOrder
  <2>2. "here" \in DOMAIN new /\ new.here = TRUE
    OBVIOUS
  <2> HIDE DEF new
  <2>3. \A p \in placements' : "here" \in DOMAIN p /\ p.here \in BOOLEAN /\ (p.here = TRUE => OnCheckout)
    BY <1>1, <2>1, <2>2
  <2>4. TRUE \in BOOLEAN
    OBVIOUS
  <2> QED
    BY <2>1, <2>3, <2>4, PlacementsOK
<1>3. ASSUME NEW p \in placements, Ended(p), UNCHANGED <<bandVars, quotes>>
      PROVE  CheckoutOK'
  BY <1>1, <1>3, PlacementsOK DEF Ended
<1>4. ASSUME NEW p \in placements, NEW step, placements' = (placements \ {p}) \cup {[p EXCEPT !.step = step]},
             UNCHANGED <<bandVars, quotes, screen>>
      PROVE  CheckoutOK'
  <2>1. [p EXCEPT !.step = step].here = p.here /\ "here" \in DOMAIN [p EXCEPT !.step = step]
    BY <1>1
  <2> QED
    BY <1>1, <1>4, <2>1, PlacementsOK
<1>5. ASSUME NEW p \in placements, StatusBeforePlacing(p)
      PROVE  CheckoutOK'
  BY <1>3, <1>4, <1>5 DEF StatusBeforePlacing
<1>6. ASSUME NEW p \in placements, CreateOrder(p)
      PROVE  CheckoutOK'
  BY <1>4, <1>6 DEF CreateOrder, cartVars
<1>7. ASSUME NEW p \in placements, OrderFailed(p)
      PROVE  CheckoutOK'
  BY <1>3, <1>7 DEF OrderFailed
<1>8. ASSUME NEW p \in placements, OrderTaken(p)
      PROVE  CheckoutOK'
  <2>1. /\ UNCHANGED bandVars /\ quotes' = Cancelled(quotes)
        /\ \A other \in placements' : \E old \in placements : other = [old EXCEPT !.here = FALSE]
        /\ screen' \in {Browsing, SignedOut}
    BY <1>8 DEF OrderTaken
  <2> QED
    BY <2>1, LeftOK
<1> QED
  BY <1>2, <1>5, <1>6, <1>7, <1>8

\* When the bands change, the fees quoted so far are marked as old.
LEMMA ChangeBandsOK ==
  ASSUME CheckoutOK, OneBandRequest, ChangeBands
  PROVE  CheckoutOK'
<1>1. BandsOK'
  BY BandsStep DEF CheckoutOK, ChangeBands
<1>2. CASE bands' = bands
  <2>1. UNCHANGED <<quotes, screen, placements, bands>>
    BY <1>2 DEF ChangeBands
  <2>2. \A distance : QuotedFees(distance)' = QuotedFees(distance)
    BY <1>2 DEF QuotedFees, ActiveBands
  <2>3. \A q \in quotes' : QuoteOK(q)'
    BY <2>1, <2>2 DEF CheckoutOK, QuoteOK, OnCheckout
  <2> QED
    BY <1>1, <2>1, <2>2, <2>3 DEF CheckoutOK, FeeShownIsCharged, PlacementOK, OnCheckout
<1>3. CASE bands' # bands
  <2>1. /\ quotes' = {[q EXCEPT !.current = @ /\ ~q.answered] : q \in quotes}
        /\ screen' = IF OnCheckout THEN [screen EXCEPT !.current = FALSE] ELSE screen
        /\ UNCHANGED placements
    BY <1>3 DEF ChangeBands
  <2>3. /\ ScreenOK(screen') /\ FeeShownIsCharged' /\ (OnCheckout' <=> OnCheckout)
        /\ OnCheckout => screen'.type = screen.type /\ screen'.coords = screen.coords
    <3>1. CASE OnCheckout
      <4>1. screen \in CheckoutScreens
        BY <3>1 DEF CheckoutOK, ScreenOK, OnCheckout
      <4>2. /\ screen' \in CheckoutScreens /\ screen'.name = "checkout" /\ screen'.current = FALSE
            /\ screen'.type = screen.type /\ screen'.coords = screen.coords
        BY <2>1, <3>1, <4>1 DEF CheckoutScreens
      <4> QED
        BY <3>1, <4>2 DEF ScreenOK, FeeShownIsCharged, OnCheckout, CheckoutScreens
    <3>2. CASE ~OnCheckout
      BY <2>1, <3>2 DEF CheckoutOK, FeeShownIsCharged, OnCheckout
    <3> QED
      BY <3>1, <3>2
  <2>4. ASSUME NEW q \in quotes'
        PROVE  QuoteOK(q)'
    <3>1. PICK old \in quotes : q = [old EXCEPT !.current = @ /\ ~old.answered]
      BY <2>1
    <3>2. QuoteOK(old) /\ old \in Quotes /\ (old.current /\ ~old.answered) \in BOOLEAN
      BY DEF CheckoutOK, QuoteOK, Quotes
    <3>3. /\ q \in Quotes /\ q.live = old.live /\ q.place = old.place /\ q.answered = old.answered
          /\ q.answered = TRUE => q.current = FALSE
      BY <3>1, <3>2 DEF Quotes
    <3> QED
      BY <2>3, <3>2, <3>3 DEF QuoteOK
  <2>5. \A p \in placements' : PlacementOK(p)'
    BY <2>1, <2>3 DEF CheckoutOK, PlacementOK
  <2> QED
    BY <1>1, <2>3, <2>4, <2>5 DEF CheckoutOK, ScreenOK
<1> QED
  BY <1>2, <1>3

LEMMA CheckoutStep == CheckoutOK /\ OneBandRequest /\ [CheckoutNext]_checkoutVars => CheckoutOK'
<1> SUFFICES ASSUME CheckoutOK, OneBandRequest, [CheckoutNext]_checkoutVars
             PROVE  CheckoutOK'
  OBVIOUS
<1>1. ASSUME UNCHANGED <<bandVars, quotes, placements, screen>>
      PROVE  CheckoutOK'
  BY <1>1, PlacementsOK DEF CheckoutOK, PlacementOK
<1>2. CASE UNCHANGED checkoutVars
  BY <1>1, <1>2 DEF checkoutVars, cartVars
<1>3. CASE CartNext /\ UNCHANGED <<bandVars, store, status, active, quotes, placements>>
  BY <1>3, CartScreens, ElsewhereOK
<1>4. ASSUME \/ \E s \in Sizes, row \in SizeRows :
                   ChangeSize(s, row) /\ UNCHANGED <<bandVars, store, status, active, quotes, placements>>
             \/ \E settings1 \in Stores : SetStore(settings1)
             \/ FinishOrder
      PROVE  CheckoutOK'
  BY <1>1, <1>4 DEF ChangeSize, SetStore, FinishOrder, cartVars
<1>5. CASE SignIn
  BY <1>5, ElsewhereOK DEF SignIn, SignedOut, Browsing, OnCheckout
<1>6. CASE SignOut
  <2>1. \A p \in placements' : \E old \in placements : p = [old EXCEPT !.here = FALSE]
    BY <1>6 DEF SignOut
  <2> QED
    BY <1>6, <2>1, LeftOK DEF SignOut
<1> QED
  BY <1>2, <1>3, <1>4, <1>5, <1>6, ScreenStep, QuoteStep, PlacementStep, ChangeBandsOK DEF CheckoutNext

\* However many answers to earlier places are on their way, and however the
\* bands are changed, one request after another, a fee that is not marked as old
\* is the one fee of the place on the screen.
THEOREM FeeIsCharged == CheckoutSpec /\ []OneBandRequest => []FeeShownIsCharged
<1>1. CheckoutOK => FeeShownIsCharged
  BY DEF CheckoutOK
<1> QED
  BY <1>1, CheckoutInitOK, CheckoutStep, PTL DEF CheckoutSpec

-----------------------------------------------------------------------------
(* Sums over finite sets *)

LEMMA LeastNat ==
  ASSUME NEW S, S \subseteq Nat, S # {}
  PROVE  \E m \in S : \A k \in S : m <= k
<1>1. \E m \in S : \A k \in S : <<k, m>> \notin OpToRel(<, Nat)
  BY NatLessThanWellFounded, WFMin
<1>2. \A k, m \in S : k < m => <<k, m>> \in OpToRel(<, Nat)
  BY DEF OpToRel
<1>3. \A k, m \in S : k < m \/ m <= k
  OBVIOUS
<1> QED BY <1>1, <1>2, <1>3

\* Among subsets of a finite set one is the smallest: nothing that is left of
\* it without one element is among them.
LEMMA SmallestSet ==
  ASSUME NEW S, IsFiniteSet(S), NEW sets, sets \subseteq SUBSET S, sets # {}
  PROVE  \E s \in sets : \A x \in s : s \ {x} \notin sets
<1>1. sets \subseteq FiniteSubsetsOf(S)
  BY FS_Subset DEF FiniteSubsetsOf
<1>2. PICK s \in sets : \A r \in sets : <<r, s>> \notin StrictSubsetOrdering(S)
  BY <1>1, FS_StrictSubsetOrderingWellFounded, WFMin
<1>3. \A x \in s : <<s \ {x}, s>> \in StrictSubsetOrdering(S)
  BY DEF StrictSubsetOrdering
<1> QED
  BY <1>2, <1>3

\* A table of the sums over all subsets, as the folds of the library make it.
Pick(s) == CHOOSE x \in s : TRUE
SumStep(f, g, s) == IF s = {} THEN 0 ELSE f[Pick(s)] + g[s \ {Pick(s)}]
IsSums(f, S, g) == g = [s \in SUBSET S |-> SumStep(f, g, s)]

LEMMA Picked ==
  ASSUME NEW s, s # {}
  PROVE  Pick(s) \in s
  BY DEF Pick

\* There is a table: it grows with the size of the subsets.
LEMMA SumsExist ==
  ASSUME NEW S, IsFiniteSet(S), NEW f
  PROVE  \E g : IsSums(f, S, g)
<1> DEFINE Upto(n, g) == \A s \in SUBSET S : Cardinality(s) <= n => g[s] = SumStep(f, g, s)
           Table(n) == \E g : g = [s \in SUBSET S |-> g[s]] /\ Upto(n, g)
           missing == {n \in Nat : ~Table(n)}
<1>1. \A s \in SUBSET S : IsFiniteSet(s) /\ Cardinality(s) \in Nat /\ Cardinality(s) <= Cardinality(S)
  BY FS_Subset, FS_CardinalityType
<1>2. Table(0)
  <2> DEFINE g == [s \in SUBSET S |-> 0]
  <2>1. \A s \in SUBSET S : Cardinality(s) <= 0 => s = {}
    BY <1>1, FS_EmptySet
  <2>2. Upto(0, g)
    BY <2>1 DEF SumStep
  <2> HIDE DEF Upto
  <2>3. g = [s \in SUBSET S |-> g[s]]
    OBVIOUS
  <2> QED
    BY <2>2, <2>3
<1>3. ASSUME NEW n \in Nat, Table(n)
      PROVE  Table(n + 1)
  <2>1. PICK g : g = [s \in SUBSET S |-> g[s]] /\ Upto(n, g)
    BY <1>3
  <2> DEFINE h == [s \in SUBSET S |-> IF Cardinality(s) <= n THEN g[s] ELSE SumStep(f, g, s)]
  <2>2. ASSUME NEW s \in SUBSET S, Cardinality(s) <= n + 1
        PROVE  h[s] = SumStep(f, h, s)
    <3>1. h[s] = SumStep(f, g, s)
      BY <2>1
    <3>2. CASE s = {}
      BY <3>1, <3>2 DEF SumStep
    <3>3. CASE s # {}
      <4>1. Pick(s) \in s /\ s \ {Pick(s)} \in SUBSET S
        BY <3>3, Picked
      <4>2. Cardinality(s \ {Pick(s)}) = Cardinality(s) - 1
        BY <1>1, <4>1, FS_RemoveElement
      <4>3. Cardinality(s \ {Pick(s)}) <= n
        BY <1>1, <2>2, <4>2
      <4>4. h[s \ {Pick(s)}] = g[s \ {Pick(s)}]
        BY <4>1, <4>3
      <4> HIDE DEF h
      <4> QED
        BY <3>1, <4>4 DEF SumStep
    <3> QED
      BY <3>2, <3>3
  <2>3. Upto(n + 1, h)
    BY <2>2
  <2>4. h = [s \in SUBSET S |-> h[s]]
    OBVIOUS
  <2> HIDE DEF h, Upto
  <2> QED
    BY <2>3, <2>4
<1> HIDE DEF Table
<1>4. missing = {}
  <2> SUFFICES ASSUME missing # {} PROVE FALSE
    OBVIOUS
  <2>1. PICK n \in missing : \A k \in missing : n <= k
    <3>1. missing \subseteq Nat
      OBVIOUS
    <3> HIDE DEF missing
    <3> QED
      BY <3>1, LeastNat
  <2>2. n # 0
    BY <1>2
  <2>3. n - 1 \in Nat /\ ~(n <= n - 1) /\ n - 1 + 1 = n
    BY <2>2
  <2>4. Table(n - 1)
    BY <2>1, <2>3
  <2>5. Table(n - 1 + 1)
    BY <1>3, <2>3, <2>4
  <2> QED
    BY <2>3, <2>5
<1>5. Table(Cardinality(S))
  BY <1>1, <1>4
<1>6. PICK g : g = [s \in SUBSET S |-> g[s]] /\ Upto(Cardinality(S), g)
  BY <1>5 DEF Table
<1>7. \A s \in SUBSET S : g[s] = SumStep(f, g, s)
  BY <1>1, <1>6
<1>8. g = [s \in SUBSET S |-> SumStep(f, g, s)]
  BY <1>6, <1>7
<1> QED
  BY <1>8 DEF IsSums

\* There is one table only, also for what two sets have in common.
LEMMA SumsAgree ==
  ASSUME NEW S, IsFiniteSet(S), NEW T \in SUBSET S, NEW f, NEW g, NEW h, IsSums(f, S, g), IsSums(f, T, h)
  PROVE  \A s \in SUBSET T : g[s] = h[s]
<1> DEFINE differ == {s \in SUBSET T : g[s] # h[s]}
<1>1. \A s \in SUBSET T : g[s] = SumStep(f, g, s) /\ h[s] = SumStep(f, h, s)
  BY DEF IsSums
<1>2. ASSUME differ # {}
      PROVE  FALSE
  <2>1. PICK s \in differ : \A x \in s : s \ {x} \notin differ
    <3>1. differ \subseteq SUBSET S
      OBVIOUS
    <3> HIDE DEF differ
    <3> QED
      BY <1>2, <3>1, SmallestSet
  <2>2. s # {}
    BY <1>1 DEF SumStep
  <2>3. Pick(s) \in s /\ g[s \ {Pick(s)}] = h[s \ {Pick(s)}]
    BY <2>1, <2>2, Picked
  <2> QED
    BY <1>1, <2>3 DEF SumStep
<1> QED
  BY <1>2

\* The elements can be taken in any order.
LEMMA SumsAdd ==
  ASSUME NEW S, IsFiniteSet(S), NEW f, \A x \in S : f[x] \in Nat, NEW g, IsSums(f, S, g)
  PROVE  /\ g[{}] = 0
         /\ \A s \in SUBSET S : g[s] \in Nat
         /\ \A s \in SUBSET S : \A x \in s : g[s] = f[x] + g[s \ {x}]
<1>1. \A s \in SUBSET S : g[s] = SumStep(f, g, s)
  BY DEF IsSums
<1>2. g[{}] = 0
  BY <1>1 DEF SumStep
<1>3. \A s \in SUBSET S : s # {} => Pick(s) \in s /\ g[s] = f[Pick(s)] + g[s \ {Pick(s)}]
  BY <1>1, Picked DEF SumStep
<1>4. ASSUME NEW s0 \in SUBSET S
      PROVE  g[s0] \in Nat
  <2> DEFINE wrong == {s \in SUBSET S : g[s] \notin Nat}
  <2>1. ASSUME wrong # {}
        PROVE  FALSE
    <3>1. PICK s \in wrong : \A x \in s : s \ {x} \notin wrong
      <4>1. wrong \subseteq SUBSET S
        OBVIOUS
      <4> HIDE DEF wrong
      <4> QED
        BY <2>1, <4>1, SmallestSet
    <3>2. s # {}
      BY <1>2
    <3>3. Pick(s) \in s /\ g[s] = f[Pick(s)] + g[s \ {Pick(s)}]
      BY <1>3, <3>2
    <3>4. g[s \ {Pick(s)}] \in Nat /\ f[Pick(s)] \in Nat
      BY <3>1, <3>3
    <3> QED
      BY <3>3, <3>4
  <2> QED
    BY <2>1
<1>5. ASSUME NEW s0 \in SUBSET S, NEW x0 \in s0
      PROVE  g[s0] = f[x0] + g[s0 \ {x0}]
  <2> DEFINE wrong == {s \in SUBSET S : \E x \in s : g[s] # f[x] + g[s \ {x}]}
  <2>1. ASSUME wrong # {}
        PROVE  FALSE
    <3>1. PICK s \in wrong : \A x \in s : s \ {x} \notin wrong
      <4>1. wrong \subseteq SUBSET S
        OBVIOUS
      <4> HIDE DEF wrong
      <4> QED
        BY <2>1, <4>1, SmallestSet
    <3>2. PICK x \in s : g[s] # f[x] + g[s \ {x}]
      OBVIOUS
    <3> DEFINE p == Pick(s)
               rest == (s \ {x}) \ {p}
    <3>3. p \in s /\ g[s] = f[p] + g[s \ {p}]
      BY <1>3, <3>2
    <3>4. x # p
      BY <3>2, <3>3
    <3> HIDE DEF p
    <3>5. g[s \ {x}] = f[p] + g[rest]
      BY <3>1, <3>3, <3>4
    <3>6. g[s \ {p}] = f[x] + g[(s \ {p}) \ {x}]
      BY <3>1, <3>3, <3>4
    <3>7. g[s \ {p}] = f[x] + g[rest]
      <4>1. (s \ {p}) \ {x} = rest
        OBVIOUS
      <4> HIDE DEF rest
      <4> QED
        BY <3>6, <4>1
    <3>8. g[rest] \in Nat /\ f[p] \in Nat /\ f[x] \in Nat
      BY <1>4, <3>3
    <3> HIDE DEF rest
    <3> QED
      BY <3>2, <3>3, <3>5, <3>7, <3>8
  <2> QED
    BY <2>1
<1> QED
  BY <1>2, <1>4, <1>5

-----------------------------------------------------------------------------
(* The units of a cart *)

\* The library's fold is a table of sums.
LEMMA UnitsTable ==
  ASSUME NEW items, NEW S, IsFiniteSet(S), NEW f, \A l \in S : f[l] = items[l].quantity, NEW g, IsSums(f, S, g)
  PROVE  \A T \in SUBSET S : UnitsOf(items, T) = g[T]
<1> SUFFICES ASSUME NEW T \in SUBSET S PROVE UnitsOf(items, T) = g[T]
  OBVIOUS
<1> DEFINE Fold(iter) ==
             iter = [s \in SUBSET T |-> IF s = {} THEN 0 ELSE items[Pick(s)].quantity + iter[s \ {Pick(s)}]]
           h == CHOOSE iter : Fold(iter)
<1>1. UnitsOf(items, T) = h[T]
  BY DEF UnitsOf, MapThenSumSet, MapThenFoldSet, Pick
<1>2. \A iter : \A s \in SUBSET T :
        SumStep(f, iter, s) = IF s = {} THEN 0 ELSE items[Pick(s)].quantity + iter[s \ {Pick(s)}]
  <2>1. \A s \in SUBSET T : s # {} => f[Pick(s)] = items[Pick(s)].quantity
    BY Picked
  <2> QED
    BY <2>1 DEF SumStep
<1>3. ASSUME NEW iter
      PROVE  Fold(iter) <=> IsSums(f, T, iter)
  <2> DEFINE a == [s \in SUBSET T |-> IF s = {} THEN 0 ELSE items[Pick(s)].quantity + iter[s \ {Pick(s)}]]
             b == [s \in SUBSET T |-> SumStep(f, iter, s)]
  <2>1. a = b
    BY <1>2
  <2>2. Fold(iter) <=> iter = a
    OBVIOUS
  <2>3. IsSums(f, T, iter) <=> iter = b
    BY DEF IsSums
  <2> HIDE DEF a, b
  <2> QED
    BY <2>1, <2>2, <2>3
<1> HIDE DEF Fold
<1>4. IsFiniteSet(T)
  BY FS_Subset
<1>5. \E iter : Fold(iter)
  BY <1>3, <1>4, SumsExist
<1>6. IsSums(f, T, h)
  BY <1>3, <1>5
<1> HIDE DEF h
<1> QED
  BY <1>1, <1>6, SumsAgree

Counted(items, S) == IsFiniteSet(S) /\ \A l \in S : items[l].quantity \in Nat

LEMMA UnitsAdd ==
  ASSUME NEW items, NEW S, Counted(items, S)
  PROVE  /\ UnitsOf(items, {}) = 0
         /\ \A s \in SUBSET S : UnitsOf(items, s) \in Nat
         /\ \A s \in SUBSET S : \A x \in s : UnitsOf(items, s) = items[x].quantity + UnitsOf(items, s \ {x})
<1> DEFINE f == [l \in S |-> items[l].quantity]
<1>1. \A l \in S : f[l] = items[l].quantity /\ f[l] \in Nat
  BY DEF Counted
<1> HIDE DEF f
<1>2. IsFiniteSet(S)
  BY DEF Counted
<1>3. PICK g : IsSums(f, S, g)
  BY <1>2, SumsExist
<1>4. \A s \in SUBSET S : UnitsOf(items, s) = g[s]
  <2>1. \A l \in S : f[l] = items[l].quantity
    BY <1>1
  <2> QED
    BY <1>2, <1>3, <2>1, UnitsTable
<1>5. /\ g[{}] = 0
      /\ \A s \in SUBSET S : g[s] \in Nat
      /\ \A s \in SUBSET S : \A x \in s : g[s] = f[x] + g[s \ {x}]
  <2>1. \A l \in S : f[l] \in Nat
    BY <1>1
  <2> QED
    BY <1>2, <1>3, <2>1, SumsAdd
<1>6. \A s \in SUBSET S : \A x \in s : UnitsOf(items, s) = items[x].quantity + UnitsOf(items, s \ {x})
  BY <1>1, <1>4, <1>5
<1> QED
  BY <1>4, <1>5, <1>6

\* The sum looks at the quantities alone.
LEMMA UnitsSame ==
  ASSUME NEW items, NEW others, NEW S, Counted(items, S), \A l \in S : others[l].quantity = items[l].quantity
  PROVE  UnitsOf(others, S) = UnitsOf(items, S)
<1> DEFINE f == [l \in S |-> items[l].quantity]
<1>1. \A l \in S : f[l] = items[l].quantity /\ f[l] = others[l].quantity
  OBVIOUS
<1> HIDE DEF f
<1>2. IsFiniteSet(S)
  BY DEF Counted
<1>3. PICK g : IsSums(f, S, g)
  BY <1>2, SumsExist
<1>4. \A l \in S : f[l] = items[l].quantity
  BY <1>1
<1>5. \A l \in S : f[l] = others[l].quantity
  BY <1>1
<1>6. S \in SUBSET S
  OBVIOUS
<1>7. UnitsOf(items, S) = g[S]
  BY <1>2, <1>3, <1>4, <1>6, UnitsTable
<1>8. UnitsOf(others, S) = g[S]
  BY <1>2, <1>3, <1>5, <1>6, UnitsTable
<1> QED
  BY <1>7, <1>8

LEMMA UnitsMonotone ==
  ASSUME NEW items, NEW S, Counted(items, S), NEW T \in SUBSET S
  PROVE  UnitsOf(items, T) <= UnitsOf(items, S)
<1> DEFINE larger == {s \in SUBSET S : T \subseteq s /\ ~(UnitsOf(items, T) <= UnitsOf(items, s))}
<1>1. /\ \A s \in SUBSET S : UnitsOf(items, s) \in Nat
      /\ \A s \in SUBSET S : \A x \in s : UnitsOf(items, s) = items[x].quantity + UnitsOf(items, s \ {x})
      /\ \A x \in S : items[x].quantity \in Nat
  BY UnitsAdd DEF Counted
<1>2. ASSUME larger # {}
      PROVE  FALSE
  <2>1. PICK s \in larger : \A x \in s : s \ {x} \notin larger
    <3>1. larger \subseteq SUBSET S /\ IsFiniteSet(S)
      BY DEF Counted
    <3> HIDE DEF larger
    <3> QED
      BY <1>2, <3>1, SmallestSet
  <2>2. s # T
    BY <1>1
  <2>3. PICK x \in s : x \notin T
    BY <2>2
  <2>4. UnitsOf(items, T) <= UnitsOf(items, s \ {x})
    BY <2>1, <2>3
  <2>5. UnitsOf(items, s) = items[x].quantity + UnitsOf(items, s \ {x}) /\ items[x].quantity \in Nat
    BY <1>1
  <2>6. UnitsOf(items, s) \in Nat /\ UnitsOf(items, s \ {x}) \in Nat /\ UnitsOf(items, T) \in Nat
    BY <1>1
  <2>7. ~(UnitsOf(items, T) <= UnitsOf(items, s))
    OBVIOUS
  <2> QED
    BY <2>4, <2>5, <2>6, <2>7
<1> QED
  BY <1>2

-----------------------------------------------------------------------------
(* The cart *)

Line == [quantity : Nat, row : SizeRows]
LinesWith(items, s, row) == {l \in LinesOfSize(items, s) : items[l].row = row}

\* The lines of a size that were added with the same limit are within it; lines
\* with another limit may be there too.
ItemsOK(items) ==
  /\ items = [l \in DOMAIN items |-> items[l]]
  /\ IsFiniteSet(DOMAIN items)
  /\ \A l \in DOMAIN items : items[l] \in Line
  /\ \A s \in Sizes, row \in SizeRows :
       row.limit # Nothing => UnitsOf(items, LinesWith(items, s, row)) <= row.limit

LEMMA ItemsCounted ==
  ASSUME NEW items, IsFiniteSet(DOMAIN items), \A l \in DOMAIN items : items[l] \in Line,
         NEW S \in SUBSET DOMAIN items
  PROVE  Counted(items, S)
  BY FS_Subset DEF Counted, Line

LEMMA MaxMin ==
  ASSUME NEW a \in Int, NEW b \in Int
  PROVE  /\ Max({a, b}) = IF a >= b THEN a ELSE b
         /\ Min({a, b}) = IF a <= b THEN a ELSE b
<1>1. \E x \in {a, b} : \A y \in {a, b} : x >= y
  OBVIOUS
<1>2. \E x \in {a, b} : \A y \in {a, b} : x <= y
  OBVIOUS
<1>3. Max({a, b}) \in {a, b} /\ \A y \in {a, b} : Max({a, b}) >= y
  BY <1>1 DEF Max
<1>4. Min({a, b}) \in {a, b} /\ \A y \in {a, b} : Min({a, b}) <= y
  BY <1>2 DEF Min
<1>5. Max({a, b}) = IF a >= b THEN a ELSE b
  BY <1>3
<1>6. Min({a, b}) = IF a <= b THEN a ELSE b
  BY <1>4
<1> QED
  BY <1>5, <1>6

\* A clamped quantity leaves room for the other lines of the size, or is none.
LEMMA Clamped ==
  ASSUME NEW items, IsFiniteSet(DOMAIN items), \A l \in DOMAIN items : items[l] \in Line,
         NEW line \in DOMAIN items, NEW k \in Nat
  PROVE  LET n == ClampToOrderLimit(items, line, k)
             limit == items[line].row.limit
         IN  /\ n \in Nat
             /\ limit # Nothing =>
                  /\ limit \in Nat
                  /\ n = 0 \/ n + UnitsOf(items, LinesOfSize(items, SizeOf(line)) \ {line}) <= limit
<1> DEFINE limit == items[line].row.limit
           room == UnitsOf(items, LinesOfSize(items, SizeOf(line)) \ {line})
           n == ClampToOrderLimit(items, line, k)
<1>1. limit \in Nat \cup {Nothing}
  BY CartAssumption DEF Line
<1>2. room \in Nat
  <2> DEFINE S == LinesOfSize(items, SizeOf(line)) \ {line}
  <2>1. S \in SUBSET DOMAIN items
    BY DEF LinesOfSize
  <2> HIDE DEF S
  <2>2. Counted(items, S)
    BY <2>1, ItemsCounted
  <2>3. UnitsOf(items, S) \in Nat
    BY <2>2, UnitsAdd
  <2> QED
    BY <2>3 DEF S
<1>3. n = IF limit = Nothing THEN k ELSE Max({0, Min({k, limit - room})})
  BY DEF ClampToOrderLimit
<1> HIDE DEF limit, room, n
<1>4. CASE limit = Nothing
  BY <1>3, <1>4 DEF limit, n
<1>5. CASE limit # Nothing
  <2>1. limit \in Nat /\ limit - room \in Int
    BY <1>1, <1>2, <1>5
  <2> DEFINE m == Min({k, limit - room})
  <2>2. m \in Int /\ m <= limit - room
    <3>1. k \in Int
      OBVIOUS
    <3>2. Min({k, limit - room}) = IF k <= limit - room THEN k ELSE limit - room
      BY <2>1, <3>1, MaxMin
    <3> QED
      BY <2>1, <3>2
  <2>3. n = Max({0, m})
    BY <1>3, <1>5
  <2> HIDE DEF m
  <2>4. n = IF 0 >= m THEN 0 ELSE m
    <3>1. 0 \in Int
      OBVIOUS
    <3> QED
      BY <2>2, <2>3, <3>1, MaxMin
  <2>5. n \in Nat /\ (n = 0 \/ n + room <= limit)
    BY <1>2, <2>1, <2>2, <2>4
  <2> QED
    BY <2>1, <2>5 DEF limit, room, n
<1> QED
  BY <1>4, <1>5

LEMMA UnitsWithout ==
  ASSUME NEW items, NEW S, Counted(items, S), NEW x \in S
  PROVE  UnitsOf(items, S) = items[x].quantity + UnitsOf(items, S \ {x}) /\ UnitsOf(items, S \ {x}) \in Nat
<1>1. S \in SUBSET S /\ S \ {x} \in SUBSET S
  OBVIOUS
<1> QED
  BY <1>1, UnitsAdd

\* Another limit of the same size may hold lines the new one does not see.
LEMMA OthersWithin ==
  ASSUME NEW items, ItemsOK(items), NEW s \in Sizes, NEW row \in SizeRows, row.limit # Nothing,
         NEW L \in SUBSET LinesWith(items, s, row)
  PROVE  UnitsOf(items, L) \in Nat /\ row.limit \in Nat /\ UnitsOf(items, L) <= row.limit
<1> DEFINE all == LinesWith(items, s, row)
<1>1. all \in SUBSET DOMAIN items
  BY DEF LinesWith, LinesOfSize
<1>2. UnitsOf(items, all) <= row.limit /\ row.limit \in Nat
  BY CartAssumption DEF ItemsOK
<1> HIDE DEF all
<1>3. Counted(items, all)
  BY <1>1, ItemsCounted DEF ItemsOK
<1>4. L \in SUBSET all
  BY DEF all
<1>5. UnitsOf(items, L) <= UnitsOf(items, all)
  BY <1>3, <1>4, UnitsMonotone
<1>6. \A S \in SUBSET all : UnitsOf(items, S) \in Nat
  BY <1>3, UnitsAdd
<1>7. all \in SUBSET all
  OBVIOUS
<1> QED
  BY <1>2, <1>4, <1>5, <1>6, <1>7

\* Lines that keep their row and quantity stay within their limits.
LEMMA FewerLines ==
  ASSUME NEW items, ItemsOK(items), NEW S \in SUBSET DOMAIN items
  PROVE  ItemsOK(Restrict(items, S))
<1> DEFINE left == Restrict(items, S)
<1>1. left = [l \in S |-> items[l]]
  BY DEF Restrict
<1>2. DOMAIN left = S /\ left = [l \in DOMAIN left |-> left[l]] /\ \A l \in S : left[l] = items[l]
  BY <1>1
<1>3. IsFiniteSet(S)
  BY FS_Subset DEF ItemsOK
<1>4. \A l \in S : left[l] \in Line
  BY <1>2 DEF ItemsOK
<1> HIDE DEF left
<1>5. ASSUME NEW s \in Sizes, NEW row \in SizeRows, row.limit # Nothing
      PROVE  UnitsOf(left, LinesWith(left, s, row)) <= row.limit
  <2> DEFINE L == LinesWith(left, s, row)
  <2>1. L \in SUBSET LinesWith(items, s, row) /\ L \in SUBSET DOMAIN items /\ \A l \in L : left[l] = items[l]
    BY <1>2 DEF LinesWith, LinesOfSize
  <2> HIDE DEF L
  <2>2. Counted(items, L)
    BY <2>1, ItemsCounted DEF ItemsOK
  <2>3. UnitsOf(left, L) = UnitsOf(items, L)
    BY <2>1, <2>2, UnitsSame
  <2>4. UnitsOf(items, L) <= row.limit
    BY <1>5, <2>1, OthersWithin
  <2> QED
    BY <2>3, <2>4 DEF L
<1> QED
  BY <1>2, <1>3, <1>4, <1>5 DEF ItemsOK, left

\* A line set to its clamped quantity stays within the limit it was added with,
\* together with the lines of its size that share that limit.
LEMMA ClampedLine ==
  ASSUME NEW items, ItemsOK(items), NEW line \in DOMAIN items, NEW k \in Nat
  PROVE  ItemsOK([items EXCEPT ![line].quantity = ClampToOrderLimit(items, line, k)])
<1> DEFINE n == ClampToOrderLimit(items, line, k)
           set == [items EXCEPT ![line].quantity = n]
           others == LinesOfSize(items, SizeOf(line)) \ {line}
<1>1. n \in Nat /\ (items[line].row.limit # Nothing =>
                      n = 0 \/ n + UnitsOf(items, others) <= items[line].row.limit)
  BY Clamped DEF ItemsOK
<1> HIDE DEF n
<1>2. /\ DOMAIN set = DOMAIN items /\ set = [l \in DOMAIN set |-> set[l]]
      /\ \A l \in DOMAIN items \ {line} : set[l] = items[l]
      /\ set[line] = [items[line] EXCEPT !.quantity = n]
  BY DEF ItemsOK
<1>3. items[line] \in Line
  BY DEF ItemsOK
<1>4. set[line] \in Line /\ set[line].quantity = n /\ set[line].row = items[line].row
  BY <1>1, <1>2, <1>3 DEF Line
<1> HIDE DEF set
<1>5. IsFiniteSet(DOMAIN set) /\ \A l \in DOMAIN set : set[l] \in Line
  BY <1>2, <1>4 DEF ItemsOK
<1>6. ASSUME NEW s \in Sizes, NEW row \in SizeRows, row.limit # Nothing
      PROVE  UnitsOf(set, LinesWith(set, s, row)) <= row.limit
  <2> DEFINE L == LinesWith(items, s, row)
  <2>1. LinesWith(set, s, row) = L
    BY <1>2, <1>4 DEF LinesWith, LinesOfSize
  <2>2. L \in SUBSET DOMAIN items /\ L \in SUBSET L /\ L \ {line} \in SUBSET L /\ L \ {line} \in SUBSET DOMAIN items
    BY DEF LinesWith, LinesOfSize
  <2>3. line \in L => L \ {line} \subseteq others /\ row = items[line].row
    BY DEF LinesWith, LinesOfSize
  <2> HIDE DEF L, others
  <2>4. Counted(items, L) /\ Counted(set, L) /\ Counted(items, L \ {line})
    BY <1>2, <1>5, <2>2, ItemsCounted DEF ItemsOK
  <2>5. \A S \in SUBSET LinesWith(items, s, row) : UnitsOf(items, S) \in Nat /\ row.limit \in Nat /\ UnitsOf(items, S) <= row.limit
    BY <1>6, OthersWithin
  <2>6. CASE line \notin L
    <3>1. \A l \in L : set[l].quantity = items[l].quantity
      BY <1>2, <2>2, <2>6
    <3>2. UnitsOf(set, L) = UnitsOf(items, L)
      BY <2>4, <3>1, UnitsSame
    <3> QED
      BY <2>1, <2>2, <2>5, <3>2 DEF L
  <2>7. CASE line \in L
    <3> DEFINE rest == L \ {line}
    <3>1. \A l \in rest : set[l].quantity = items[l].quantity
      BY <1>2, <2>2
    <3>2. UnitsOf(set, rest) = UnitsOf(items, rest)
      BY <2>4, <3>1, UnitsSame
    <3>3. UnitsOf(set, L) = n + UnitsOf(set, rest)
      BY <1>4, <2>4, <2>7, UnitsWithout
    <3>4. UnitsOf(items, rest) \in Nat /\ row.limit \in Nat /\ UnitsOf(items, rest) <= row.limit
      BY <2>2, <2>5 DEF L
    <3>5. UnitsOf(items, rest) <= UnitsOf(items, others) /\ UnitsOf(items, others) \in Nat
      <4>1. others \in SUBSET DOMAIN items /\ others \in SUBSET others
        BY DEF others, LinesOfSize
      <4>2. Counted(items, others)
        BY <4>1, ItemsCounted DEF ItemsOK
      <4>3. rest \in SUBSET others
        BY <2>3, <2>7
      <4> HIDE DEF rest
      <4> QED
        BY <4>1, <4>2, <4>3, UnitsMonotone, UnitsAdd
    <3>6. n = 0 \/ n + UnitsOf(items, others) <= row.limit
      BY <1>1, <1>6, <2>3, <2>7
    <3> HIDE DEF rest
    <3>7. n + UnitsOf(items, rest) <= row.limit
      BY <1>1, <3>4, <3>5, <3>6
    <3> QED
      BY <2>1, <3>2, <3>3, <3>7
  <2> QED
    BY <2>6, <2>7
<1> QED
  BY <1>2, <1>5, <1>6 DEF ItemsOK, set, n

\* A new line starts with nothing.
LEMMA DraftOK ==
  ASSUME NEW items, ItemsOK(items), NEW line, NEW row \in SizeRows
  PROVE  ItemsOK(Draft(items, line, row)) /\ line \in DOMAIN Draft(items, line, row)
<1> DEFINE draft == Draft(items, line, row)
<1>1. /\ draft = [l \in DOMAIN draft |-> draft[l]] /\ DOMAIN draft = DOMAIN items \cup {line}
      /\ \A l \in DOMAIN items : draft[l] = items[l]
      /\ line \notin DOMAIN items => draft[line] = [quantity |-> 0, row |-> row]
  BY DEF Draft
<1>2. CASE line \in DOMAIN items
  <2>1. DOMAIN draft = DOMAIN items
    BY <1>1, <1>2
  <2>2. draft = [l \in DOMAIN items |-> items[l]]
    BY <1>1, <2>1
  <2> HIDE DEF draft
  <2>3. draft = items
    BY <2>2 DEF ItemsOK
  <2> QED
    BY <1>2, <2>3 DEF draft
<1>3. CASE line \notin DOMAIN items
  <2> HIDE DEF draft
  <2>1. draft[line] \in Line /\ draft[line].quantity = 0 /\ draft[line].row = row
    BY <1>1, <1>3 DEF Line
  <2>2. IsFiniteSet(DOMAIN draft)
    BY <1>1, FS_AddElement DEF ItemsOK
  <2>3. \A l \in DOMAIN draft : draft[l] \in Line
    BY <1>1, <2>1 DEF ItemsOK
  <2>4. ASSUME NEW s \in Sizes, NEW r \in SizeRows, r.limit # Nothing
        PROVE  UnitsOf(draft, LinesWith(draft, s, r)) <= r.limit
    <3> DEFINE L == LinesWith(items, s, r)
               M == LinesWith(draft, s, r)
    <3>1. M = L \/ (line \in M /\ M \ {line} = L)
      BY <1>1, <1>3 DEF LinesWith, LinesOfSize
    <3>2. L \in SUBSET DOMAIN items /\ M \in SUBSET DOMAIN draft /\ L \in SUBSET LinesWith(items, s, r)
      BY DEF LinesWith, LinesOfSize
    <3> HIDE DEF L, M
    <3>3. Counted(items, L) /\ Counted(draft, M)
      BY <2>2, <2>3, <3>2, ItemsCounted DEF ItemsOK
    <3>4. \A l \in L : draft[l].quantity = items[l].quantity
      BY <1>1, <3>2
    <3>5. UnitsOf(draft, L) = UnitsOf(items, L)
      BY <3>3, <3>4, UnitsSame
    <3>6. UnitsOf(items, L) \in Nat /\ r.limit \in Nat /\ UnitsOf(items, L) <= r.limit
      BY <2>4, <3>2, OthersWithin
    <3>7. ASSUME line \in M, M \ {line} = L
          PROVE  UnitsOf(draft, M) = UnitsOf(draft, L)
      <4>1. UnitsOf(draft, M) = 0 + UnitsOf(draft, M \ {line}) /\ UnitsOf(draft, M \ {line}) \in Nat
        BY <2>1, <3>3, <3>7, UnitsWithout
      <4> QED
        BY <3>7, <4>1
    <3> QED
      BY <3>1, <3>5, <3>6, <3>7 DEF M
  <2> QED
    BY <1>1, <2>2, <2>3, <2>4 DEF ItemsOK, draft
<1> QED
  BY <1>2, <1>3

LEMMA AddItemOK ==
  ASSUME NEW items, ItemsOK(items), NEW line, NEW row \in SizeRows, NEW quantity \in Nat
  PROVE  ItemsOK(AddItem(items, line, row, quantity))
<1> DEFINE draft == Draft(items, line, row)
<1>1. ItemsOK(draft) /\ line \in DOMAIN draft
  BY DraftOK
<1>2. AddItem(items, line, row, quantity) \in
        {items, [draft EXCEPT ![line].quantity = ClampToOrderLimit(draft, line, draft[line].quantity + quantity)]}
  BY DEF AddItem, NextQuantity
<1> HIDE DEF draft
<1>3. draft[line].quantity + quantity \in Nat
  BY <1>1 DEF ItemsOK, Line
<1> QED
  BY <1>1, <1>2, <1>3, ClampedLine

LEMMA UpdateQuantityOK ==
  ASSUME NEW items, ItemsOK(items), NEW line \in DOMAIN items, NEW quantity \in Int
  PROVE  ItemsOK(UpdateQuantity(items, line, quantity)) /\ ItemsOK(RemoveItem(items, line))
<1>1. ItemsOK(RemoveItem(items, line))
  BY FewerLines DEF RemoveItem
<1>2. CASE quantity <= 0
  BY <1>1, <1>2 DEF UpdateQuantity
<1>3. CASE ~(quantity <= 0)
  <2> DEFINE updated == [items EXCEPT ![line].quantity = ClampToOrderLimit(items, line, quantity)]
             left == {l \in DOMAIN items : updated[l].quantity > 0}
  <2>1. quantity \in Nat
    BY <1>3
  <2>2. ItemsOK(updated)
    BY <2>1, ClampedLine
  <2>3. left \in SUBSET DOMAIN updated
    OBVIOUS
  <2>4. UpdateQuantity(items, line, quantity) = Restrict(updated, left)
    BY <1>3 DEF UpdateQuantity
  <2> HIDE DEF updated, left
  <2> QED
    BY <1>1, <2>2, <2>3, <2>4, FewerLines
<1> QED
  BY <1>2, <1>3

\* The product screen keeps the rows of the menu it was opened with.
ProductScreens ==
  [name : {"product"}, rows : [Sizes -> SizeRows], type : {TypeOf[s] : s \in Sizes}, size : Sizes \cup {Nothing},
   addons : SUBSET UNION {AddonsOf[s] : s \in Sizes}, quantity : Nat]

CartOK ==
  /\ ItemsOK(cart)
  /\ menu \in [Sizes -> SizeRows]
  /\ screen.name = "product" => screen \in ProductScreens

LEMMA Selected ==
  ASSUME NEW q \in Nat, NEW max \in Nat \cup {Nothing}
  PROVE  Decreased(q) \in Nat /\ Increased(q, max) \in Nat
<1>1. q - 1 \in Int /\ q + 1 \in Nat /\ 1 \in Int /\ q + 1 \in Int
  OBVIOUS
<1>2. Decreased(q) \in Nat
  BY <1>1, MaxMin DEF Decreased
<1>3. CASE max = Nothing
  BY <1>1, <1>2, <1>3 DEF Increased
<1>4. CASE max # Nothing
  <2>1. max \in Nat /\ max \in Int
    BY <1>4
  <2>2. Min({max, q + 1}) \in {max, q + 1}
    BY <1>1, <2>1, MaxMin
  <2> QED
    BY <1>1, <1>2, <1>4, <2>1, <2>2 DEF Increased
<1> QED
  BY <1>2, <1>3, <1>4

\* What a selector may go up to.
LEMMA Room ==
  ASSUME NEW items, ItemsOK(items), NEW row \in SizeRows, row.limit # Nothing, NEW S \in SUBSET DOMAIN items
  PROVE  Max({0, row.limit - UnitsOf(items, S)}) \in Nat
<1>1. Counted(items, S) /\ S \in SUBSET S
  BY ItemsCounted DEF ItemsOK
<1>2. UnitsOf(items, S) \in Nat /\ row.limit \in Nat
  BY <1>1, UnitsAdd, CartAssumption
<1> DEFINE room == row.limit - UnitsOf(items, S)
<1>3. room \in Int /\ 0 \in Int
  BY <1>2
<1> HIDE DEF room
<1>4. Max({0, room}) \in Nat
  BY <1>3, MaxMin
<1> QED
  BY <1>4 DEF room

LEMMA LinesMax ==
  ASSUME CartOK, NEW line \in DOMAIN cart
  PROVE  LineMax(line) \in Nat \cup {Nothing} /\ cart[line].quantity \in Nat
<1>1. cart[line].row \in SizeRows /\ cart[line].quantity \in Nat
  BY DEF CartOK, ItemsOK, Line
<1> DEFINE S == LinesOfSize(cart, SizeOf(line)) \ {line}
<1>2. S \in SUBSET DOMAIN cart
  BY DEF LinesOfSize
<1> HIDE DEF S
<1>3. cart[line].row.limit # Nothing => Max({0, cart[line].row.limit - UnitsOf(cart, S)}) \in Nat
  BY <1>1, <1>2, Room DEF CartOK
<1> QED
  BY <1>1, <1>3 DEF LineMax, S

LEMMA SelectorMax ==
  ASSUME CartOK, screen.name = "product"
  PROVE  QuantityMax \in Nat \cup {Nothing}
<1> DEFINE S == LinesOfSize(cart, screen.size)
           row == screen.rows[screen.size]
<1>1. S \in SUBSET DOMAIN cart
  BY DEF LinesOfSize
<1>2. screen.size # Nothing => row \in SizeRows
  BY DEF CartOK, ProductScreens
<1>3. QuantityMax = IF screen.size = Nothing \/ row.limit = Nothing THEN Nothing
                    ELSE Max({0, row.limit - UnitsOf(cart, S)})
  BY DEF QuantityMax
<1> HIDE DEF S, row
<1>4. screen.size # Nothing /\ row.limit # Nothing => Max({0, row.limit - UnitsOf(cart, S)}) \in Nat
  BY <1>1, <1>2, Room DEF CartOK
<1> QED
  BY <1>3, <1>4

LEMMA CartStep ==
  ASSUME CartOK, "name" \in DOMAIN screen, CartNext
  PROVE  CartOK'
<1>1. ASSUME UNCHANGED <<menu, cart>>, screen'.name = "product" => screen' \in ProductScreens
      PROVE  CartOK'
  BY <1>1 DEF CartOK, ItemsOK, Line
<1>2. ASSUME NEW rows \in [Sizes -> SizeRows], NEW type
      PROVE  FirstSize(rows, type) \in Sizes \cup {Nothing}
  BY DEF FirstSize, ActiveSizes
<1>3. screen.name = "product" => screen \in ProductScreens
  BY DEF CartOK
<1>4. ASSUME NEW s \in Sizes, OpenProduct(TypeOf[s])
      PROVE  CartOK'
  <2>1. menu \in [Sizes -> SizeRows]
    BY DEF CartOK
  <2>2. screen' \in ProductScreens /\ UNCHANGED <<menu, cart>>
    BY <1>2, <1>4, <2>1 DEF OpenProduct, ProductScreens
  <2> QED
    BY <1>1, <2>2
<1>5. ASSUME NEW s \in Sizes, HandleTypeSelect(TypeOf[s])
      PROVE  CartOK'
  <2>1. screen \in ProductScreens /\ screen.rows \in [Sizes -> SizeRows]
    BY <1>3, <1>5 DEF HandleTypeSelect, ProductScreens
  <2>2. FirstSize(screen.rows, TypeOf[s]) \in Sizes \cup {Nothing}
    BY <1>2, <2>1
  <2>3. screen' \in ProductScreens /\ UNCHANGED <<menu, cart>>
    BY <1>5, <2>1, <2>2 DEF HandleTypeSelect, ProductScreens
  <2> QED
    BY <1>1, <2>3
<1>6. ASSUME NEW s \in Sizes, HandleSizeSelect(s)
      PROVE  CartOK'
  <2>1. screen' \in ProductScreens /\ UNCHANGED <<menu, cart>>
    BY <1>3, <1>6 DEF HandleSizeSelect, ProductScreens
  <2> QED
    BY <1>1, <2>1
<1>7. ASSUME NEW addon \in UNION {AddonsOf[s] : s \in Sizes}, ToggleAddon(addon)
      PROVE  CartOK'
  <2>1. screen' \in ProductScreens /\ UNCHANGED <<menu, cart>>
    BY <1>3, <1>7 DEF ToggleAddon, ProductScreens
  <2> QED
    BY <1>1, <2>1
<1>8. ASSUME ChooseQuantity
      PROVE  CartOK'
  <2>1. screen \in ProductScreens /\ screen.quantity \in Nat
    BY <1>3, <1>8 DEF ChooseQuantity, ProductScreens
  <2>2. QuantityMax \in Nat \cup {Nothing}
    BY <1>8, SelectorMax DEF ChooseQuantity
  <2>3. PICK quantity \in {Decreased(screen.quantity), Increased(screen.quantity, QuantityMax)} :
          screen' = [screen EXCEPT !.quantity = quantity]
    BY <1>8 DEF ChooseQuantity
  <2>4. quantity \in Nat
    BY <2>1, <2>2, <2>3, Selected
  <2>5. screen' \in ProductScreens
    BY <2>1, <2>3, <2>4 DEF ProductScreens
  <2> QED
    BY <1>1, <1>8, <2>5 DEF ChooseQuantity
<1>9. ASSUME ItemsOK(cart'), UNCHANGED menu, UNCHANGED screen \/ screen' = Browsing
      PROVE  CartOK'
  BY <1>3, <1>9 DEF CartOK, Browsing
<1>10. ASSUME AddToCart
       PROVE  CartOK'
  <2> DEFINE line == <<screen.size, screen.addons>>
             row == screen.rows[screen.size]
  <2>1. cart' = AddItem(cart, line, row, screen.quantity) /\ UNCHANGED menu /\ (UNCHANGED screen \/ screen' = Browsing)
    BY <1>10 DEF AddToCart
  <2>2. row \in SizeRows /\ screen.quantity \in Nat
    BY <1>3, <1>10 DEF AddToCart, ProductScreens
  <2> HIDE DEF line, row
  <2>3. ItemsOK(cart')
    BY <2>1, <2>2, AddItemOK DEF CartOK
  <2> QED
    BY <1>9, <2>1, <2>3
<1>11. ASSUME NEW line \in DOMAIN cart, PressQuantity(line)
       PROVE  CartOK'
  <2>1. PICK quantity \in {Decreased(cart[line].quantity), Increased(cart[line].quantity, LineMax(line))} :
          cart' = UpdateQuantity(cart, line, quantity)
    BY <1>11 DEF PressQuantity
  <2>2. quantity \in Int
    <3>1. LineMax(line) \in Nat \cup {Nothing} /\ cart[line].quantity \in Nat
      BY LinesMax
    <3>2. Decreased(cart[line].quantity) \in Nat /\ Increased(cart[line].quantity, LineMax(line)) \in Nat
      BY <3>1, Selected
    <3> QED
      BY <2>1, <3>2
  <2>3. ItemsOK(cart')
    BY <2>1, <2>2, UpdateQuantityOK DEF CartOK
  <2> QED
    BY <1>9, <1>11, <2>3 DEF PressQuantity
<1>12. ASSUME NEW line \in DOMAIN cart, PressRemove(line)
       PROVE  CartOK'
  <2>1. ItemsOK(cart')
    <3>1. 0 \in Int
      OBVIOUS
    <3> QED
      BY <1>12, <3>1, UpdateQuantityOK DEF PressRemove, CartOK
  <2> QED
    BY <1>9, <1>12, <2>1 DEF PressRemove
<1>13. ASSUME OpenCart \/ GoBack
       PROVE  CartOK'
  BY <1>1, <1>13 DEF OpenCart, GoBack, Browsing
<1> QED
  BY <1>4, <1>5, <1>6, <1>7, <1>8, <1>10, <1>11, <1>12, <1>13 DEF CartNext

LEMMA CartInitOK ==
  ASSUME NEW rows \in [Sizes -> SizeRows], CartInit(rows)
  PROVE  CartOK
<1>1. DOMAIN cart = {} /\ cart = [l \in DOMAIN cart |-> cart[l]] /\ IsFiniteSet({})
  BY FS_EmptySet DEF CartInit
<1>2. ASSUME NEW s \in Sizes, NEW row \in SizeRows, row.limit # Nothing
      PROVE  UnitsOf(cart, LinesWith(cart, s, row)) <= row.limit
  <2>1. LinesWith(cart, s, row) = {}
    BY <1>1 DEF LinesWith, LinesOfSize
  <2>2. Counted(cart, {})
    BY <1>1 DEF Counted
  <2>3. UnitsOf(cart, {}) = 0
    BY <2>2, UnitsAdd
  <2>4. row.limit \in Nat
    BY <1>2, CartAssumption
  <2> QED
    BY <2>1, <2>3, <2>4
<1> QED
  BY <1>1, <1>2 DEF CartOK, ItemsOK, CartInit, Browsing

\* Away from the cart's own screens the cart stays or is emptied, and no product
\* is opened.
LEMMA AwayFromProducts ==
  ASSUME CartOK, UNCHANGED cart \/ cart' = EmptyCart, menu' \in [Sizes -> SizeRows],
         UNCHANGED screen \/ screen'.name # "product"
  PROVE  CartOK'
<1>1. {} \in SUBSET DOMAIN cart
  OBVIOUS
<1>2. ItemsOK(EmptyCart)
  BY <1>1, FewerLines DEF CartOK, EmptyCart
<1>3. ItemsOK(cart')
  BY <1>2 DEF CartOK
<1> QED
  BY <1>3 DEF CartOK

LEMMA CheckoutKeepsCart ==
  ASSUME CartOK, CheckoutOK,
         \/ OpenCheckout \/ Focus \/ LeaveCheckout \/ PlaceOrder
         \/ \E type \in CheckoutOrderTypes : SelectOrderType(type)
         \/ \E filled \in BOOLEAN : ChangeDeliveryAddress(filled)
         \/ \E place \in Places :
              \/ SelectDeliveryLocation(place) \/ ApplySavedAddress(place)
              \/ \E named \in BOOLEAN : UseCurrentLocation(place, named)
         \/ \E q \in quotes : GetDeliveryQuote(q) \/ QuoteArrives(q)
         \/ \E p \in placements : StatusBeforePlacing(p) \/ CreateOrder(p) \/ OrderTaken(p) \/ OrderFailed(p)
         \/ \E settings1 \in Stores : SetStore(settings1)
         \/ FinishOrder \/ SignIn \/ SignOut \/ ChangeBands
  PROVE  CartOK'
<1>1. menu \in [Sizes -> SizeRows]
  BY DEF CartOK
<1>2. OnCheckout => screen \in CheckoutScreens /\ screen.name = "checkout"
  BY DEF CheckoutOK, ScreenOK, OnCheckout
<1>3. ASSUME UNCHANGED <<menu, cart>>, UNCHANGED screen \/ screen'.name # "product"
      PROVE  CartOK'
  BY <1>1, <1>3, AwayFromProducts
<1>4. CASE \/ Focus \/ FinishOrder \/ \E settings1 \in Stores : SetStore(settings1)
           \/ \E q \in quotes : GetDeliveryQuote(q)
           \/ \E p \in placements : CreateOrder(p)
  BY <1>3, <1>4 DEF Focus, FinishOrder, SetStore, GetDeliveryQuote, CreateOrder, Elsewhere, cartVars
<1>5. CASE OpenCheckout \/ SignIn
  BY <1>3, <1>5 DEF OpenCheckout, SignIn, NewCheckout, Browsing, Elsewhere
<1>6. CASE LeaveCheckout
  BY <1>3, <1>6 DEF LeaveCheckout, Browsing
<1>7. CASE SignOut
  BY <1>1, <1>7, AwayFromProducts DEF SignOut, SignedOut
<1>8. ASSUME NEW form \in CheckoutScreens, QuoteEffect(form), UNCHANGED <<menu, cart>>
      PROVE  CartOK'
  <2>1. screen'.name = "checkout"
    BY <1>8 DEF QuoteEffect, CheckoutScreens
  <2> QED
    BY <1>3, <1>8, <2>1
<1>9. ASSUME NEW type \in CheckoutOrderTypes, SelectOrderType(type)
      PROVE  CartOK'
  <2>1. OnCheckout /\ UNCHANGED <<menu, cart>>
    BY <1>9 DEF SelectOrderType, Elsewhere
  <2>2. [screen EXCEPT !.type = type] \in CheckoutScreens
    BY <1>2, <2>1 DEF CheckoutScreens
  <2>3. CASE type # screen.type
    BY <1>8, <1>9, <2>1, <2>2, <2>3 DEF SelectOrderType
  <2>4. CASE type = screen.type
    <3>1. screen' = screen \/ screen' = [screen EXCEPT !.fee = Nothing, !.failed = FALSE]
      BY <1>9, <2>4 DEF SelectOrderType
    <3>2. screen'.name = "checkout"
      BY <1>2, <2>1, <3>1 DEF CheckoutScreens
    <3> QED
      BY <1>3, <2>1, <3>2
  <2> QED
    BY <2>3, <2>4
<1>10. ASSUME NEW filled \in BOOLEAN, ChangeDeliveryAddress(filled)
       PROVE  CartOK'
  <2>1. OnCheckout /\ UNCHANGED <<menu, cart>> /\ screen' = [screen EXCEPT !.address = filled]
    BY <1>10 DEF ChangeDeliveryAddress, Elsewhere
  <2>2. screen'.name = "checkout"
    BY <1>2, <2>1 DEF CheckoutScreens
  <2> QED
    BY <1>3, <2>1, <2>2
<1>11. ASSUME NEW place \in Places, NEW named \in BOOLEAN,
              \/ SelectDeliveryLocation(place) \/ ApplySavedAddress(place) \/ UseCurrentLocation(place, named)
       PROVE  CartOK'
  <2>1. OnCheckout /\ UNCHANGED <<menu, cart>>
    BY <1>11 DEF SelectDeliveryLocation, ApplySavedAddress, UseCurrentLocation, Elsewhere
  <2>2. \A address \in BOOLEAN :
          /\ [screen EXCEPT !.coords = place] \in CheckoutScreens
          /\ [screen EXCEPT !.coords = place, !.address = address] \in CheckoutScreens
    BY <1>2, <2>1 DEF CheckoutScreens
  <2>3. (screen.address \/ named) \in BOOLEAN
    OBVIOUS
  <2>4. CASE SelectDeliveryLocation(place)
    BY <1>8, <2>1, <2>2, <2>4 DEF SelectDeliveryLocation
  <2>5. CASE ApplySavedAddress(place)
    BY <1>8, <2>1, <2>2, <2>5 DEF ApplySavedAddress
  <2>6. CASE UseCurrentLocation(place, named)
    BY <1>8, <2>1, <2>2, <2>3, <2>6 DEF UseCurrentLocation
  <2> QED
    BY <1>11, <2>4, <2>5, <2>6
<1>12. ASSUME NEW q \in quotes, QuoteArrives(q)
       PROVE  CartOK'
  <2>1. UNCHANGED <<menu, cart>>
    BY <1>12 DEF QuoteArrives, Elsewhere
  <2>2. \/ UNCHANGED screen
        \/ OnCheckout /\ \E fee : screen' = [screen EXCEPT !.fee = fee, !.failed = (q.fees = {}), !.quoting = FALSE,
                                                         !.current = q.current]
    BY <1>12 DEF QuoteArrives
  <2>3. UNCHANGED screen \/ screen'.name = "checkout"
    BY <1>2, <2>2 DEF CheckoutScreens
  <2> QED
    BY <1>3, <2>1, <2>3
<1>13. ASSUME UNCHANGED <<menu, cart>>,
              UNCHANGED screen \/ (OnCheckout /\ \E loading \in BOOLEAN : screen' = [screen EXCEPT !.loading = loading])
       PROVE  CartOK'
  <2>1. UNCHANGED screen \/ screen'.name = "checkout"
    BY <1>2, <1>13 DEF CheckoutScreens
  <2> QED
    BY <1>3, <1>13, <2>1
<1>14. CASE PlaceOrder
  BY <1>13, <1>14 DEF PlaceOrder
<1>15. ASSUME NEW p \in placements, StatusBeforePlacing(p) \/ OrderFailed(p)
       PROVE  CartOK'
  <2>1. p.here \in BOOLEAN /\ (p.here = TRUE => OnCheckout)
    BY DEF CheckoutOK, PlacementOK
  <2>2. UNCHANGED <<menu, cart>> /\ (UNCHANGED screen \/ Ended(p))
    BY <1>15 DEF StatusBeforePlacing, OrderFailed
  <2> QED
    BY <1>13, <2>1, <2>2 DEF Ended
<1>16. ASSUME NEW p \in placements, OrderTaken(p)
       PROVE  CartOK'
  BY <1>1, <1>16, AwayFromProducts DEF OrderTaken, Browsing, SignedOut
<1>17. CASE ChangeBands
  <2>1. UNCHANGED <<menu, cart>> /\ (UNCHANGED screen \/ (OnCheckout /\ screen' = [screen EXCEPT !.current = FALSE]))
    BY <1>17 DEF ChangeBands
  <2>2. UNCHANGED screen \/ screen'.name = "checkout"
    BY <1>2, <2>1 DEF CheckoutScreens
  <2> QED
    BY <1>3, <2>1, <2>2
<1> QED
  BY <1>4, <1>5, <1>6, <1>7, <1>9, <1>10, <1>11, <1>12, <1>14, <1>15, <1>16, <1>17

LEMMA CartKept ==
  CartOK /\ CheckoutOK /\ [CheckoutNext]_checkoutVars => CartOK'
<1> SUFFICES ASSUME CartOK, CheckoutOK, [CheckoutNext]_checkoutVars
             PROVE  CartOK'
  OBVIOUS
<1>1. menu \in [Sizes -> SizeRows]
  BY DEF CartOK
<1>2. CASE UNCHANGED checkoutVars
  BY <1>1, <1>2, AwayFromProducts DEF checkoutVars, cartVars
<1>3. CASE CartNext
  BY <1>3, CartStep DEF CheckoutOK, ScreenOK
<1>4. ASSUME NEW s \in Sizes, NEW row \in SizeRows, ChangeSize(s, row)
      PROVE  CartOK'
  BY <1>1, <1>4, AwayFromProducts DEF ChangeSize
<1> QED
  BY <1>2, <1>3, <1>4, CheckoutKeepsCart DEF CheckoutNext

\* With an up-to-date menu the lines of a size all share its limit, and the two
\* subtotals are the same sum.
LEMMA UpToDateAccepted == CartOK /\ CheckoutOK => EnabledIsAccepted
<1> SUFFICES ASSUME CartOK, CheckoutOK, OnCheckout, CanPlaceOrder, UpToDate, NoEmptyLine, ~active
             PROVE  CreateAccepted(OrderPayload)
  BY DEF EnabledIsAccepted
<1>1. screen \in CheckoutScreens
  BY DEF CheckoutOK, ScreenOK, OnCheckout
<1>2. \A l \in DOMAIN cart : cart[l] \in Line /\ cart[l].row = menu[SizeOf(l)] /\ menu[SizeOf(l)].active
  BY DEF UpToDate, CartOK, ItemsOK
<1>3. \A l \in DOMAIN cart : cart[l].quantity >= 1
  BY <1>2 DEF NoEmptyLine, Line
<1>4. WithinOrderLimits(cart)
  <2> SUFFICES ASSUME NEW s \in Sizes, menu[s].limit # Nothing
               PROVE  UnitsOf(cart, LinesOfSize(cart, s)) <= menu[s].limit
    BY DEF WithinOrderLimits
  <2>1. LinesWith(cart, s, menu[s]) = LinesOfSize(cart, s)
    BY <1>2 DEF LinesWith, LinesOfSize
  <2>2. menu[s] \in SizeRows
    BY DEF CartOK
  <2>3. UnitsOf(cart, LinesWith(cart, s, menu[s])) <= menu[s].limit
    BY <2>2 DEF CartOK, ItemsOK
  <2> QED
    BY <2>1, <2>3
<1>5. OrderSubtotal(cart) = CartSubtotal(cart)
  <2> DEFINE priced == [l \in DOMAIN cart |-> [cart[l] EXCEPT !.row = menu[SizeOf(l)]]]
  <2>1. \A l \in DOMAIN cart : [cart[l] EXCEPT !.row = menu[SizeOf(l)]] = cart[l]
    BY <1>2 DEF Line
  <2>2. priced = [l \in DOMAIN cart |-> cart[l]]
    BY <2>1
  <2>3. priced = cart
    BY <2>2 DEF CartOK, ItemsOK
  <2>4. OrderSubtotal(cart) = CartSubtotal(priced)
    BY DEF OrderSubtotal
  <2> HIDE DEF priced
  <2> QED
    BY <2>3, <2>4
<1>6. ASSUME screen.type = "delivery"
      PROVE  screen.address /\ screen.coords # Nothing /\ QuotedFees(Distance[screen.coords]) # {}
  <2>1. screen.address /\ screen.coords # Nothing /\ screen.fee # Nothing
    BY <1>6 DEF CanPlaceOrder, IsDeliveryValid, HasQuote
  <2>2. screen.current
    BY <1>6 DEF UpToDate
  <2>3. FeeShownIsCharged
    BY DEF CheckoutOK
  <2>4. QuotedFees(Distance[screen.coords]) = {screen.fee}
    BY <1>6, <2>1, <2>2, <2>3 DEF FeeShownIsCharged
  <2> QED
    BY <2>1, <2>4
<1>7. store.accepting /\ DOMAIN cart # {} /\ CartSubtotal(cart) >= store.minimum[screen.type]
  BY DEF CanPlaceOrder, UpToDate
<1> DEFINE order == OrderPayload
<1>8. order.type = screen.type /\ order.address = screen.address /\ order.coords = screen.coords /\ order.items = cart
  BY DEF OrderPayload
<1> HIDE DEF order
<1>9. ValidDeliveryFields(order)
  BY <1>6, <1>8 DEF ValidDeliveryFields
<1>10. MeetsMinimum(OrderSubtotal(order.items), store, order.type)
  BY <1>5, <1>7, <1>8 DEF MeetsMinimum
<1>11. CreateAccepted(order)
  BY <1>2, <1>3, <1>4, <1>6, <1>7, <1>8, <1>9, <1>10 DEF CreateAccepted
<1> QED
  BY <1>11 DEF order

\* When the button can be pressed and the phone is up to date, the server takes
\* the order, whatever was put into the cart while the menu changed: the lines of
\* a size that agree on its limit never exceed it together.
THEOREM ButtonIsAccepted == CheckoutSpec /\ []OneBandRequest => []EnabledIsAccepted
<1>1. CheckoutSpec => CartOK
  BY CartInitOK DEF CheckoutSpec, CheckoutInit
<1> QED
  BY <1>1, CheckoutInitOK, CheckoutStep, CartKept, UpToDateAccepted, PTL DEF CheckoutSpec

-----------------------------------------------------------------------------
(* The working hours: arithmetic and first days *)

LEMMA Division ==
  ASSUME NEW a \in Int, NEW d \in Nat \ {0}
  PROVE  /\ a \div d \in Int
         /\ a % d \in 0 .. d - 1
         /\ a = d * (a \div d) + (a % d)
<1>1. a % d \in 0 .. d - 1
  BY SMT
<1>2. a \div d \in Int
  BY SMT
<1>3. a = d * (a \div d) + (a % d)
  BY SMT
<1> QED
  BY <1>1, <1>2, <1>3

LEMMA Quotient ==
  ASSUME NEW a \in Int, NEW d \in Nat \ {0}, NEW q \in Int, NEW r \in 0 .. d - 1, a = d * q + r
  PROVE  a \div d = q /\ a % d = r
<1>1. a \div d = q
  BY SMT
<1>2. a = d * (a \div d) + (a % d) /\ a % d \in Int /\ r \in Int /\ d * q \in Int
  BY Division
<1>3. a = d * q + (a % d)
  BY <1>1, <1>2
<1> QED
  BY <1>1, <1>2, <1>3

LEMMA Shift ==
  ASSUME NEW a \in Int, NEW d \in Nat \ {0}
  PROVE  (a + d) % d = a % d
<1> DEFINE q == a \div d
           r == a % d
<1>1. q \in Int /\ r \in 0 .. d - 1 /\ a = d * q + r
  BY Division
<1> HIDE DEF q, r
<1>2. d * (q + 1) = d * q + d
  BY <1>1
<1>3. a + d = d * (q + 1) + r
  BY <1>1, <1>2
<1>4. a + d \in Int /\ q + 1 \in Int
  BY <1>1
<1>5. (a + d) % d = r
  BY <1>1, <1>3, <1>4, Quotient
<1> QED
  BY <1>5 DEF r

LEMMA Product ==
  ASSUME NEW a \in Int, NEW b \in Int, NEW d \in Nat \ {0}, a < b
  PROVE  a * d + d <= b * d
  OBVIOUS

First(days) == CHOOSE d \in days : \A e \in days : d <= e

LEMMA FirstOf ==
  ASSUME NEW days, days \subseteq Int, days # {},
         NEW low \in Int, \A e \in days : low <= e
  PROVE  First(days) \in days /\ \A e \in days : First(days) <= e
<1> DEFINE S == {e - low : e \in days}
<1>1. \A e \in days : e - low \in Nat
  OBVIOUS
<1>5. S \subseteq Nat
  BY <1>1
<1>6. S # {}
  OBVIOUS
<1>2. PICK m \in S : \A k \in S : m <= k
  <2> HIDE DEF S
  <2> QED
    BY <1>5, <1>6, LeastNat
<1>3. PICK d \in days : m = d - low
  BY <1>2
<1>4. \A e \in days : d <= e
  <2> TAKE e \in days
  <2>1. e - low \in S
    OBVIOUS
  <2>2. d - low <= e - low
    BY <1>2, <1>3, <2>1
  <2> QED
    BY <2>2
<1> QED
  BY <1>4 DEF First

LEMMA IsFirst ==
  ASSUME NEW days, days \subseteq Int, NEW m \in days, \A e \in days : m <= e
  PROVE  First(days) = m
<1>1. First(days) \in days /\ \A e \in days : First(days) <= e
  BY DEF First
<1>2. First(days) \in Int /\ m \in Int
  BY <1>1
<1>3. First(days) <= m /\ m <= First(days)
  BY <1>1
<1> QED
  BY <1>2, <1>3

(* The timetable at a moment, whatever the moment.                         *)
EntryIn(h, d) == h[d % WeekDays]
StartIn(h, d) == d * DayLength + EntryIn(h, d).opens
EndIn(h, d) ==
    d * DayLength + EntryIn(h, d).closes
        + IF EntryIn(h, d).closes <= EntryIn(h, d).opens THEN DayLength ELSE 0
OpenAt(h, t) ==
    {d \in {(t \div DayLength) - 1, t \div DayLength} :
        EntryIn(h, d) # DayOff /\ StartIn(h, d) <= t /\ t < EndIn(h, d)}
AheadAt(h, t) ==
    {d \in (t \div DayLength) .. (t \div DayLength) + WeekDays :
        EntryIn(h, d) # DayOff /\ StartIn(h, d) > t}
StatusAt(h, t) ==
    IF h = NoHours THEN [open |-> TRUE, next |-> Never]
    ELSE IF OpenAt(h, t) # {} THEN [open |-> TRUE, next |-> EndIn(h, First(OpenAt(h, t))) - t]
    ELSE [open |-> FALSE,
          next |-> IF AheadAt(h, t) = {} THEN Never ELSE StartIn(h, First(AheadAt(h, t))) - t]

Weekly == [0 .. WeekDays - 1 -> Openings \cup {DayOff}]

LEMMA StatusNow == EvaluateWorkingHours = StatusAt(settings.hours, now)
  BY DEF EvaluateWorkingHours, StatusAt, OpenDays, OpenAt, AheadAt, DaysAhead, Today, Entry, Start, End,
         EntryIn, StartIn, EndIn, First

(* What an open day says: it starts on that day and ends on it or on the   *)
(* next.                                                                   *)
LEMMA DayFacts ==
  ASSUME NEW h \in Weekly, NEW d \in Int, EntryIn(h, d) # DayOff
  PROVE  /\ StartIn(h, d) \in Int /\ EndIn(h, d) \in Int
         /\ d * DayLength \in Int
         /\ d * DayLength <= StartIn(h, d) /\ StartIn(h, d) < d * DayLength + DayLength
         /\ EndIn(h, d) < d * DayLength + DayLength + DayLength
         /\ StartIn(h, d) < EndIn(h, d)
<1>1. d % WeekDays \in 0 .. WeekDays - 1
  BY HoursAssumption, Division
<1>2. EntryIn(h, d) \in Openings
  BY <1>1 DEF EntryIn, Weekly
<1>3. EntryIn(h, d) \in [opens : 0 .. DayLength - 1, closes : 0 .. DayLength - 1]
  BY <1>2, HoursAssumption
<1> DEFINE e == EntryIn(h, d)
           m == d * DayLength
<1>4. m \in Int /\ e.opens \in 0 .. DayLength - 1 /\ e.closes \in 0 .. DayLength - 1 /\ DayLength \in Nat \ {0}
  BY <1>3, HoursAssumption
<1>5. StartIn(h, d) = m + e.opens
  BY DEF StartIn
<1>6. EndIn(h, d) = m + e.closes + IF e.closes <= e.opens THEN DayLength ELSE 0
  BY DEF EndIn
<1> HIDE DEF e, m
<1>7. /\ StartIn(h, d) \in Int /\ EndIn(h, d) \in Int
      /\ m <= StartIn(h, d) /\ StartIn(h, d) < m + DayLength
      /\ EndIn(h, d) < m + DayLength + DayLength
      /\ StartIn(h, d) < EndIn(h, d)
  <2>1. CASE e.closes <= e.opens
    BY <2>1, <1>4, <1>5, <1>6
  <2>2. CASE ~ (e.closes <= e.opens)
    BY <2>2, <1>4, <1>5, <1>6
  <2> QED
    BY <2>1, <2>2
<1> QED
  BY <1>4, <1>7 DEF m

LEMMA DayOf ==
  ASSUME NEW t \in Int
  PROVE  /\ t \div DayLength \in Int
         /\ (t \div DayLength) * DayLength \in Int
         /\ (t \div DayLength) * DayLength <= t
         /\ t < (t \div DayLength) * DayLength + DayLength
<1> DEFINE q == t \div DayLength
           r == t % DayLength
<1>1. q \in Int /\ r \in 0 .. DayLength - 1 /\ t = DayLength * q + r
  BY Division, HoursAssumption
<1> HIDE DEF q, r
<1>2. q * DayLength = DayLength * q /\ q * DayLength \in Int
  BY <1>1, HoursAssumption
<1>3. q * DayLength <= t /\ t < q * DayLength + DayLength
  BY <1>1, <1>2, HoursAssumption
<1> QED
  BY <1>1, <1>2, <1>3 DEF q

(* A tick stays within the day or reaches the first moment of the next.    *)
LEMMA DayTurns ==
  ASSUME NEW t \in Int
  PROVE  \/ (t + 1) \div DayLength = t \div DayLength
         \/ /\ (t + 1) \div DayLength = (t \div DayLength) + 1
            /\ t + 1 = (t \div DayLength) * DayLength + DayLength
<1> DEFINE q == t \div DayLength
           p == (t + 1) \div DayLength
<1>1. q \in Int /\ q * DayLength \in Int /\ q * DayLength <= t /\ t < q * DayLength + DayLength
  BY DayOf
<1>2. p \in Int /\ p * DayLength \in Int /\ p * DayLength <= t + 1 /\ t + 1 < p * DayLength + DayLength
  <2>1. t + 1 \in Int
    OBVIOUS
  <2> QED
    BY <2>1, DayOf
<1> HIDE DEF q, p
<1>3. ~ (p < q)
  BY <1>1, <1>2, Product, HoursAssumption
<1>4. q + 1 \in Int /\ (q + 1) * DayLength = q * DayLength + DayLength
  BY <1>1, HoursAssumption
<1>5. ~ (q + 1 < p)
  <2> SUFFICES ASSUME q + 1 < p PROVE FALSE
    OBVIOUS
  <2>1. (q + 1) * DayLength + DayLength <= p * DayLength
    BY <1>2, <1>4, Product, HoursAssumption
  <2> QED
    BY <1>1, <1>2, <1>4, <2>1, HoursAssumption
<1>6. p = q \/ p = q + 1
  BY <1>1, <1>2, <1>3, <1>5
<1>7. p = q + 1 => t + 1 = q * DayLength + DayLength
  BY <1>1, <1>2, <1>4, HoursAssumption
<1> QED
  BY <1>6, <1>7 DEF p, q

LEMMA Later ==
  ASSUME NEW h \in Weekly, NEW d \in Int, NEW e \in Int, d < e,
         EntryIn(h, d) # DayOff, EntryIn(h, e) # DayOff
  PROVE  StartIn(h, d) < StartIn(h, e)
<1>1. d * DayLength + DayLength <= e * DayLength
  BY Product, HoursAssumption
<1>2. StartIn(h, d) \in Int /\ StartIn(h, d) < d * DayLength + DayLength /\ d * DayLength \in Int
  BY DayFacts
<1>3. StartIn(h, e) \in Int /\ e * DayLength <= StartIn(h, e) /\ e * DayLength \in Int
  BY DayFacts
<1> QED
  BY <1>1, <1>2, <1>3, HoursAssumption

LEMMA NextWeekday ==
  ASSUME NEW h, NEW d \in Int
  PROVE  EntryIn(h, d + WeekDays) = EntryIn(h, d)
  BY Shift, HoursAssumption DEF EntryIn

LEMMA Moments ==
  ASSUME NEW h \in Weekly, NEW t \in Int
  PROVE  /\ OpenAt(h, t) # {} => First(OpenAt(h, t)) \in OpenAt(h, t)
                                /\ \A e \in OpenAt(h, t) : First(OpenAt(h, t)) <= e
         /\ AheadAt(h, t) # {} => First(AheadAt(h, t)) \in AheadAt(h, t)
                                 /\ \A e \in AheadAt(h, t) : First(AheadAt(h, t)) <= e
<1>1. t \div DayLength \in Int /\ WeekDays \in Nat
  BY DayOf, HoursAssumption
<1>2. OpenAt(h, t) \subseteq Int /\ \A e \in OpenAt(h, t) : (t \div DayLength) - 1 <= e
  BY <1>1 DEF OpenAt
<1>3. AheadAt(h, t) \subseteq Int /\ \A e \in AheadAt(h, t) : t \div DayLength <= e
  BY <1>1 DEF AheadAt
<1>4. (t \div DayLength) - 1 \in Int
  BY <1>1
<1> QED
  BY <1>1, <1>2, <1>3, <1>4, FirstOf

(* Whatever comes next is still to come.                                   *)
LEMMA NextIsAhead ==
  ASSUME NEW h \in Weekly \cup {NoHours}, NEW t \in Int
  PROVE  LET s == StatusAt(h, t) IN
         /\ s.open \in BOOLEAN
         /\ s.next = Never \/ (s.next \in Int /\ s.next >= 1)
<1>1. CASE h = NoHours
  BY <1>1 DEF StatusAt
<1>2. CASE h # NoHours /\ OpenAt(h, t) # {}
  <2> DEFINE m == First(OpenAt(h, t))
  <2>1. h \in Weekly
    BY <1>2
  <2>2. m \in OpenAt(h, t)
    BY <1>2, <2>1, Moments
  <2>3. m \in Int /\ EntryIn(h, m) # DayOff /\ t < EndIn(h, m)
    BY <2>2, DayOf DEF OpenAt
  <2>4. EndIn(h, m) \in Int
    BY <2>1, <2>3, DayFacts
  <2>5. StatusAt(h, t) = [open |-> TRUE, next |-> EndIn(h, m) - t]
    BY <1>2 DEF StatusAt
  <2> HIDE DEF m
  <2> QED
    BY <2>3, <2>4, <2>5
<1>3. CASE h # NoHours /\ OpenAt(h, t) = {} /\ AheadAt(h, t) # {}
  <2> DEFINE m == First(AheadAt(h, t))
  <2>1. h \in Weekly
    BY <1>3
  <2>2. m \in AheadAt(h, t)
    BY <1>3, <2>1, Moments
  <2>3. m \in Int /\ EntryIn(h, m) # DayOff /\ StartIn(h, m) > t
    BY <2>2, DayOf, HoursAssumption DEF AheadAt
  <2>4. StartIn(h, m) \in Int
    BY <2>1, <2>3, DayFacts
  <2>5. StatusAt(h, t) = [open |-> FALSE, next |-> StartIn(h, m) - t]
    BY <1>3 DEF StatusAt
  <2> HIDE DEF m
  <2> QED
    BY <2>3, <2>4, <2>5
<1>4. CASE h # NoHours /\ OpenAt(h, t) = {} /\ AheadAt(h, t) = {}
  BY <1>4 DEF StatusAt
<1> QED
  BY <1>1, <1>2, <1>3, <1>4

(* While the store is open, the end of the interval stays where it is.     *)
LEMMA StaysOpen ==
  ASSUME NEW h \in Weekly, NEW t \in Int, OpenAt(h, t) # {},
         EndIn(h, First(OpenAt(h, t))) > t + 1
  PROVE  OpenAt(h, t + 1) # {} /\ First(OpenAt(h, t + 1)) = First(OpenAt(h, t))
<1> DEFINE T == t \div DayLength
           N == (t + 1) \div DayLength
           m == First(OpenAt(h, t))
           D == DayLength
<1>1. D \in Nat \ {0}
  BY HoursAssumption
<1>2. T \in Int /\ T * D \in Int /\ T * D <= t /\ t < T * D + D
  BY DayOf
<1>3. N = T \/ (N = T + 1 /\ t + 1 = T * D + D)
  BY DayTurns
<1>4. \A d : d \in OpenAt(h, t) <=>
             d \in {T - 1, T} /\ EntryIn(h, d) # DayOff /\ StartIn(h, d) <= t /\ t < EndIn(h, d)
  BY DEF OpenAt
<1>5. \A d : d \in OpenAt(h, t + 1) <=>
             d \in {N - 1, N} /\ EntryIn(h, d) # DayOff /\ StartIn(h, d) <= t + 1 /\ t + 1 < EndIn(h, d)
  BY DEF OpenAt
<1>6. m \in OpenAt(h, t) /\ \A e \in OpenAt(h, t) : m <= e
  BY Moments
<1> HIDE DEF T, N, m
<1>7. m \in {T - 1, T} /\ m \in Int /\ EntryIn(h, m) # DayOff /\ StartIn(h, m) <= t /\ EndIn(h, m) > t + 1
  BY <1>2, <1>4, <1>6 DEF m
<1>8. /\ StartIn(h, m) \in Int /\ EndIn(h, m) \in Int /\ EndIn(h, m) < m * D + D + D
      /\ m * D \in Int
  BY <1>7, DayFacts
<1>9. N = T + 1 => m = T
  <2> SUFFICES ASSUME N = T + 1, m = T - 1 PROVE FALSE
    BY <1>7
  <2>1. m * D + D <= T * D
    BY <1>1, <1>2, <1>7, Product
  <2> QED
    BY <1>1, <1>2, <1>3, <1>7, <1>8, <2>1
<1>10. m \in OpenAt(h, t + 1)
  <2>1. m \in {N - 1, N}
    BY <1>2, <1>3, <1>7, <1>9
  <2>2. StartIn(h, m) <= t + 1
    BY <1>7, <1>8
  <2> QED
    BY <1>5, <1>7, <1>8, <2>1, <2>2
<1>11. \A e \in OpenAt(h, t + 1) : m <= e
  <2> SUFFICES ASSUME NEW e \in OpenAt(h, t + 1), ~ (m <= e) PROVE FALSE
    OBVIOUS
  <2>1. N \in Int /\ e \in {N - 1, N} /\ e \in Int /\ EntryIn(h, e) # DayOff /\ t + 1 < EndIn(h, e)
    BY <1>2, <1>3, <1>5
  <2>2. N = T /\ e = T - 1
    BY <1>2, <1>3, <1>7, <1>9, <2>1
  <2>3. StartIn(h, e) \in Int /\ EndIn(h, e) \in Int /\ StartIn(h, e) < e * D + D /\ e * D \in Int
    BY <2>1, DayFacts
  <2>4. e * D + D <= T * D
    BY <1>1, <1>2, <2>1, <2>2, Product
  <2>5. StartIn(h, e) <= t
    BY <1>1, <1>2, <2>3, <2>4
  <2>6. e \in OpenAt(h, t)
    BY <1>4, <2>1, <2>2, <2>3, <2>5
  <2> QED
    BY <1>6, <2>6
<1>12. OpenAt(h, t + 1) \subseteq Int
  BY <1>2, <1>3, <1>5
<1>13. First(OpenAt(h, t + 1)) = m
  BY <1>10, <1>11, <1>12, IsFirst
<1> QED
  BY <1>10, <1>13 DEF m

(* While it is closed, it stays closed and the next opening is where it    *)
(* was, or there is none.                                                  *)
LEMMA StaysClosed ==
  ASSUME NEW h \in Weekly, NEW t \in Int, OpenAt(h, t) = {},
         AheadAt(h, t) # {} => StartIn(h, First(AheadAt(h, t))) > t + 1
  PROVE  /\ OpenAt(h, t + 1) = {}
         /\ AheadAt(h, t + 1) = {} <=> AheadAt(h, t) = {}
         /\ AheadAt(h, t) # {} => First(AheadAt(h, t + 1)) = First(AheadAt(h, t))
<1> DEFINE T == t \div DayLength
           N == (t + 1) \div DayLength
           m == First(AheadAt(h, t))
           D == DayLength
           W == WeekDays
<1>1. D \in Nat \ {0} /\ W \in Nat \ {0}
  BY HoursAssumption
<1>2. T \in Int /\ T * D \in Int /\ T * D <= t /\ t < T * D + D
  BY DayOf
<1>3. N = T \/ (N = T + 1 /\ t + 1 = T * D + D)
  BY DayTurns
<1>4. \A d : d \in OpenAt(h, t) <=>
             d \in {T - 1, T} /\ EntryIn(h, d) # DayOff /\ StartIn(h, d) <= t /\ t < EndIn(h, d)
  BY DEF OpenAt
<1>5. \A d : d \in OpenAt(h, t + 1) <=>
             d \in {N - 1, N} /\ EntryIn(h, d) # DayOff /\ StartIn(h, d) <= t + 1 /\ t + 1 < EndIn(h, d)
  BY DEF OpenAt
<1>6. \A d : d \in AheadAt(h, t) <=>
             d \in T .. T + W /\ EntryIn(h, d) # DayOff /\ StartIn(h, d) > t
  BY DEF AheadAt
<1>7. \A d : d \in AheadAt(h, t + 1) <=>
             d \in N .. N + W /\ EntryIn(h, d) # DayOff /\ StartIn(h, d) > t + 1
  BY DEF AheadAt
<1>8. AheadAt(h, t) # {} => m \in AheadAt(h, t) /\ \A e \in AheadAt(h, t) : m <= e
  BY Moments
<1>9. AheadAt(h, t) # {} => StartIn(h, m) > t + 1
  OBVIOUS
<1> HIDE DEF T, N, m, D, W
<1>10. N \in Int
  BY <1>2, <1>3
\* No opening is a tick away.
<1>11. ASSUME NEW d \in T .. T + W, EntryIn(h, d) # DayOff, StartIn(h, d) = t + 1
       PROVE  FALSE
  <2>1. d \in AheadAt(h, t)
    BY <1>6, <1>11
  <2>2. m \in AheadAt(h, t) /\ m <= d /\ StartIn(h, m) > t + 1
    BY <1>8, <1>9, <2>1
  <2>3. d \in Int /\ m \in Int /\ EntryIn(h, m) # DayOff
    BY <1>1, <1>2, <1>6, <2>2
  <2>4. m # d
    BY <1>11, <2>2
  <2>5. StartIn(h, m) < StartIn(h, d)
    BY <1>11, <2>2, <2>3, <2>4, Later
  <2>6. StartIn(h, m) \in Int
    BY <2>3, DayFacts
  <2> QED
    BY <1>11, <2>2, <2>5, <2>6
<1>12. OpenAt(h, t + 1) = {}
  <2> SUFFICES ASSUME NEW d \in OpenAt(h, t + 1) PROVE FALSE
    OBVIOUS
  <2>1. d \in {N - 1, N} /\ d \in Int /\ EntryIn(h, d) # DayOff /\ StartIn(h, d) <= t + 1 /\ t + 1 < EndIn(h, d)
    BY <1>5, <1>10
  <2>2. /\ StartIn(h, d) \in Int /\ EndIn(h, d) \in Int /\ StartIn(h, d) < d * D + D
        /\ d * D <= StartIn(h, d) /\ d * D \in Int
    BY <2>1, DayFacts DEF D
  <2>3. d \in {T - 1, T} => ~ (StartIn(h, d) <= t)
    BY <1>4, <2>1, <2>2
  <2>4. d # T - 1
    <3> SUFFICES ASSUME d = T - 1 PROVE FALSE
      OBVIOUS
    <3>1. d * D + D <= T * D
      BY <1>1, <1>2, <2>1, Product
    <3> QED
      BY <1>1, <1>2, <2>2, <2>3, <3>1
  <2>5. CASE d = T
    <3>1. StartIn(h, d) = t + 1
      BY <2>1, <2>2, <2>3, <2>5
    <3>2. d \in T .. T + W
      BY <1>1, <1>2, <2>5
    <3> QED
      BY <1>11, <2>1, <3>1, <3>2
  <2>6. CASE d = T + 1
    <3>1. T * D + D <= d * D
      BY <1>1, <1>2, <2>1, <2>6, Product
    <3>2. t < StartIn(h, d)
      BY <1>1, <1>2, <2>2, <3>1
    <3>3. StartIn(h, d) = t + 1
      BY <2>1, <2>2, <3>2
    <3>4. d \in T .. T + W
      BY <1>1, <1>2, <2>6
    <3> QED
      BY <1>11, <2>1, <3>3, <3>4
  <2> QED
    BY <1>2, <1>3, <2>1, <2>4, <2>5, <2>6
\* What is ahead after the tick was ahead before it, but for the day that has
\* come into view.
<1>13. \A e \in AheadAt(h, t + 1) : e \in AheadAt(h, t) \/ (N = T + 1 /\ e = T + 1 + W)
  <2> TAKE e \in AheadAt(h, t + 1)
  <2>1. e \in N .. N + W /\ e \in Int /\ EntryIn(h, e) # DayOff /\ StartIn(h, e) > t + 1
    BY <1>1, <1>7, <1>10
  <2>2. StartIn(h, e) \in Int
    BY <2>1, DayFacts
  <2>3. StartIn(h, e) > t
    BY <2>1, <2>2
  <2>4. e \in T .. T + W \/ (N = T + 1 /\ e = T + 1 + W)
    BY <1>1, <1>2, <1>3, <2>1
  <2> QED
    BY <1>6, <2>1, <2>3, <2>4
<1>14. AheadAt(h, t) = {} => AheadAt(h, t + 1) = {}
  <2> SUFFICES ASSUME AheadAt(h, t) = {}, NEW e \in AheadAt(h, t + 1) PROVE FALSE
    OBVIOUS
  <2>1. e = (T + 1) + W
    BY <1>13
  <2>2. T + 1 \in Int /\ T + 1 \in T .. T + W
    BY <1>1, <1>2
  <2>3. EntryIn(h, T + 1) # DayOff
    <3>1. EntryIn(h, (T + 1) + W) = EntryIn(h, T + 1)
      BY <2>2, NextWeekday DEF W
    <3> QED
      BY <1>7, <2>1, <3>1
  <2>4. (T + 1) * D <= StartIn(h, T + 1) /\ StartIn(h, T + 1) \in Int /\ (T + 1) * D \in Int
    BY <2>2, <2>3, DayFacts DEF D
  <2>5. T * D + D <= (T + 1) * D
    BY <1>1, <1>2, Product
  <2>6. StartIn(h, T + 1) > t
    BY <1>1, <1>2, <2>4, <2>5
  <2> QED
    BY <1>6, <2>2, <2>3, <2>6
<1>15. AheadAt(h, t) # {} => m \in AheadAt(h, t + 1)
  <2> SUFFICES ASSUME AheadAt(h, t) # {} PROVE m \in AheadAt(h, t + 1)
    OBVIOUS
  <2>1. m \in T .. T + W /\ m \in Int /\ EntryIn(h, m) # DayOff /\ StartIn(h, m) > t + 1
    BY <1>1, <1>2, <1>6, <1>8, <1>9
  <2>2. StartIn(h, m) < m * D + D /\ StartIn(h, m) \in Int /\ m * D \in Int
    BY <2>1, DayFacts DEF D
  <2>3. N = T + 1 => m # T
    BY <1>1, <1>2, <1>3, <2>1, <2>2
  <2>4. m \in N .. N + W
    BY <1>1, <1>2, <1>3, <2>1, <2>3
  <2> QED
    BY <1>7, <2>1, <2>4
<1>16. AheadAt(h, t) # {} => First(AheadAt(h, t + 1)) = m
  <2> SUFFICES ASSUME AheadAt(h, t) # {} PROVE First(AheadAt(h, t + 1)) = m
    OBVIOUS
  <2>1. m \in AheadAt(h, t + 1)
    BY <1>15
  <2>2. m \in T .. T + W /\ m \in Int
    BY <1>1, <1>2, <1>6, <1>8
  <2>3. \A e \in AheadAt(h, t + 1) : m <= e
    BY <1>1, <1>2, <1>8, <1>13, <2>2
  <2>4. AheadAt(h, t + 1) \subseteq Int
    BY <1>1, <1>7, <1>10
  <2> QED
    BY <2>1, <2>3, <2>4, IsFirst
<1> QED
  BY <1>12, <1>14, <1>15, <1>16 DEF m

(* A tick before the next change changes nothing else.                     *)
LEMMA TickKeeps ==
  ASSUME NEW h \in Weekly \cup {NoHours}, NEW t \in Int,
         StatusAt(h, t).next = Never \/ StatusAt(h, t).next > 1
  PROVE  /\ StatusAt(h, t + 1).open = StatusAt(h, t).open
         /\ StatusAt(h, t + 1).next = IF StatusAt(h, t).next = Never THEN Never
                                      ELSE StatusAt(h, t).next - 1
<1>1. CASE h = NoHours
  BY <1>1 DEF StatusAt
<1>2. CASE h # NoHours /\ OpenAt(h, t) # {}
  <2> DEFINE m == First(OpenAt(h, t))
  <2>1. h \in Weekly /\ m \in OpenAt(h, t)
    BY <1>2, Moments
  <2>2. m \in Int /\ EntryIn(h, m) # DayOff
    BY <2>1, DayOf DEF OpenAt
  <2>3. EndIn(h, m) \in Int
    BY <2>1, <2>2, DayFacts
  <2>4. StatusAt(h, t) = [open |-> TRUE, next |-> EndIn(h, m) - t]
    BY <1>2 DEF StatusAt
  <2>5. EndIn(h, m) - t \in Int /\ EndIn(h, m) - t # Never
    BY <2>3, HoursAssumption
  <2>6. EndIn(h, m) > t + 1
    BY <2>3, <2>4, <2>5
  <2>7. OpenAt(h, t + 1) # {} /\ First(OpenAt(h, t + 1)) = m
    BY <1>2, <2>1, <2>6, StaysOpen
  <2>8. StatusAt(h, t + 1) = [open |-> TRUE, next |-> EndIn(h, m) - (t + 1)]
    BY <1>2, <2>7 DEF StatusAt
  <2> DEFINE n == EndIn(h, m)
  <2> HIDE DEF m, n
  <2>9. n \in Int /\ n - (t + 1) = (n - t) - 1
    BY <2>3 DEF n
  <2>10. StatusAt(h, t).open = TRUE /\ StatusAt(h, t + 1).open = TRUE
    BY <2>4, <2>8
  <2>11. StatusAt(h, t).next = n - t /\ StatusAt(h, t + 1).next = n - (t + 1)
    BY <2>4, <2>8 DEF n
  <2> QED
    BY <2>5, <2>9, <2>10, <2>11 DEF n
<1>3. CASE h # NoHours /\ OpenAt(h, t) = {}
  <2> DEFINE m == First(AheadAt(h, t))
  <2>1. h \in Weekly
    BY <1>3
  <2>2. StatusAt(h, t) = [open |-> FALSE,
                          next |-> IF AheadAt(h, t) = {} THEN Never ELSE StartIn(h, m) - t]
    BY <1>3 DEF StatusAt
  <2>3. AheadAt(h, t) # {} => StartIn(h, m) \in Int
    <3> SUFFICES ASSUME AheadAt(h, t) # {} PROVE StartIn(h, m) \in Int
      OBVIOUS
    <3>1. m \in AheadAt(h, t)
      BY <2>1, Moments
    <3>2. m \in Int /\ EntryIn(h, m) # DayOff
      BY <3>1, DayOf, HoursAssumption DEF AheadAt
    <3> QED
      BY <2>1, <3>2, DayFacts
  <2>4. AheadAt(h, t) # {} => StartIn(h, m) - t \in Int /\ StartIn(h, m) - t # Never
    BY <2>3, HoursAssumption
  <2>5. AheadAt(h, t) # {} => StartIn(h, m) > t + 1
    <3> HIDE DEF m
    <3> QED
      BY <2>2, <2>3, <2>4
  <2>6. /\ OpenAt(h, t + 1) = {}
        /\ AheadAt(h, t + 1) = {} <=> AheadAt(h, t) = {}
        /\ AheadAt(h, t) # {} => First(AheadAt(h, t + 1)) = m
    BY <1>3, <2>1, <2>5, StaysClosed
  <2>7. StatusAt(h, t + 1) = [open |-> FALSE,
                              next |-> IF AheadAt(h, t) = {} THEN Never ELSE StartIn(h, m) - (t + 1)]
    BY <1>3, <2>6 DEF StatusAt
  <2> DEFINE n == StartIn(h, m)
  <2> HIDE DEF m, n
  <2>8. AheadAt(h, t) # {} => n \in Int /\ n - (t + 1) = (n - t) - 1
    BY <2>3 DEF n
  <2>9. StatusAt(h, t).open = FALSE /\ StatusAt(h, t + 1).open = FALSE
    BY <2>2, <2>7
  <2>10. /\ StatusAt(h, t).next = IF AheadAt(h, t) = {} THEN Never ELSE n - t
         /\ StatusAt(h, t + 1).next = IF AheadAt(h, t) = {} THEN Never ELSE n - (t + 1)
    BY <2>2, <2>7 DEF n
  <2> QED
    BY <2>4, <2>8, <2>9, <2>10 DEF n
<1> QED
  BY <1>1, <1>2, <1>3

(* A week later the table says the same.                                   *)
LEMMA WeekFacts ==
  /\ WeekDays * DayLength \in Nat \ {0}
  /\ \A t \in Int : (t + WeekDays * DayLength) \div DayLength = (t \div DayLength) + WeekDays
  /\ \A d \in Int : (d + WeekDays) * DayLength = d * DayLength + WeekDays * DayLength
<1> DEFINE L == WeekDays * DayLength
<1>1. L \in Nat \ {0} /\ L = DayLength * WeekDays
  BY HoursAssumption
<1>2. \A d \in Int : (d + WeekDays) * DayLength = d * DayLength + WeekDays * DayLength
  BY HoursAssumption
<1>3. ASSUME NEW t \in Int
      PROVE  (t + L) \div DayLength = (t \div DayLength) + WeekDays
  <2> DEFINE q == t \div DayLength
             r == t % DayLength
  <2>1. q \in Int /\ r \in 0 .. DayLength - 1 /\ t = DayLength * q + r
    BY Division, HoursAssumption
  <2> HIDE DEF q, r, L
  <2>2. DayLength * (q + WeekDays) = DayLength * q + DayLength * WeekDays
    BY <2>1, HoursAssumption
  <2>3. t + L \in Int /\ q + WeekDays \in Int /\ DayLength * q \in Int
    BY <1>1, <2>1, HoursAssumption
  <2>4. t + L = DayLength * (q + WeekDays) + r
    BY <1>1, <2>1, <2>2, <2>3
  <2>5. (t + L) \div DayLength = q + WeekDays
    BY <2>1, <2>3, <2>4, Quotient, HoursAssumption
  <2> QED
    BY <2>5 DEF q
<1> QED
  BY <1>1, <1>2, <1>3

LEMMA WeekShift ==
  ASSUME NEW h \in Weekly, NEW t \in Int
  PROVE  LET L == WeekDays * DayLength IN
         /\ \A d \in Int : d + WeekDays \in OpenAt(h, t + L) <=> d \in OpenAt(h, t)
         /\ \A d \in Int : d + WeekDays \in AheadAt(h, t + L) <=> d \in AheadAt(h, t)
         /\ \A d \in Int : EntryIn(h, d) # DayOff =>
               /\ StartIn(h, d + WeekDays) = StartIn(h, d) + L
               /\ EndIn(h, d + WeekDays) = EndIn(h, d) + L
<1> DEFINE L == WeekDays * DayLength
           W == WeekDays
           T == t \div DayLength
<1>1. L \in Nat \ {0} /\ W \in Nat \ {0} /\ T \in Int /\ (t + L) \div DayLength = T + W
  BY WeekFacts, DayOf, HoursAssumption
<1>2. ASSUME NEW d \in Int, EntryIn(h, d) # DayOff
      PROVE  /\ StartIn(h, d + W) = StartIn(h, d) + L
             /\ EndIn(h, d + W) = EndIn(h, d) + L
  <2> DEFINE e == EntryIn(h, d)
             m == d * DayLength
  <2>1. d % WeekDays \in 0 .. WeekDays - 1
    BY HoursAssumption, Division
  <2>2. e \in [opens : 0 .. DayLength - 1, closes : 0 .. DayLength - 1]
    BY <1>2, <2>1, HoursAssumption DEF EntryIn, Weekly
  <2>3. m \in Int /\ e.opens \in Int /\ e.closes \in Int /\ DayLength \in Int
    BY <2>2, HoursAssumption
  <2>4. EntryIn(h, d + W) = e
    BY NextWeekday
  <2>5. (d + W) * DayLength = m + L
    BY WeekFacts
  <2>6. StartIn(h, d) = m + e.opens /\ StartIn(h, d + W) = (m + L) + e.opens
    BY <2>4, <2>5 DEF StartIn
  <2>7. /\ EndIn(h, d) = m + e.closes + IF e.closes <= e.opens THEN DayLength ELSE 0
        /\ EndIn(h, d + W) = (m + L) + e.closes + IF e.closes <= e.opens THEN DayLength ELSE 0
    BY <2>4, <2>5 DEF EndIn
  <2> HIDE DEF e, m, L
  <2>8. StartIn(h, d + W) = StartIn(h, d) + L
    BY <1>1, <2>3, <2>6
  <2>9. EndIn(h, d + W) = EndIn(h, d) + L
    <3>1. CASE e.closes <= e.opens
      BY <1>1, <2>3, <2>7, <3>1
    <3>2. CASE ~ (e.closes <= e.opens)
      BY <1>1, <2>3, <2>7, <3>2
    <3> QED
      BY <3>1, <3>2
  <2> QED
    BY <2>8, <2>9
<1>3. ASSUME NEW d \in Int
      PROVE  d + W \in OpenAt(h, t + L) <=> d \in OpenAt(h, t)
  <2>1. EntryIn(h, d + W) = EntryIn(h, d)
    BY NextWeekday
  <2>2. d + W \in OpenAt(h, t + L) <=>
            /\ d + W \in {(T + W) - 1, T + W}
            /\ EntryIn(h, d + W) # DayOff /\ StartIn(h, d + W) <= t + L /\ t + L < EndIn(h, d + W)
    BY <1>1 DEF OpenAt
  <2>3. d \in OpenAt(h, t) <=>
            d \in {T - 1, T} /\ EntryIn(h, d) # DayOff /\ StartIn(h, d) <= t /\ t < EndIn(h, d)
    BY DEF OpenAt
  <2> HIDE DEF T, W, L
  <2>4. d + W \in {(T + W) - 1, T + W} <=> d \in {T - 1, T}
    BY <1>1
  <2>5. ASSUME EntryIn(h, d) # DayOff
        PROVE  /\ StartIn(h, d + W) <= t + L <=> StartIn(h, d) <= t
               /\ t + L < EndIn(h, d + W) <=> t < EndIn(h, d)
    <3>1. StartIn(h, d) \in Int /\ EndIn(h, d) \in Int
      BY <2>5, DayFacts
    <3>2. StartIn(h, d + W) = StartIn(h, d) + L /\ EndIn(h, d + W) = EndIn(h, d) + L
      BY <1>2, <2>5
    <3> QED
      BY <1>1, <3>1, <3>2
  <2> QED
    BY <2>1, <2>2, <2>3, <2>4, <2>5
<1>4. ASSUME NEW d \in Int
      PROVE  d + W \in AheadAt(h, t + L) <=> d \in AheadAt(h, t)
  <2>1. EntryIn(h, d + W) = EntryIn(h, d)
    BY NextWeekday
  <2>2. d + W \in AheadAt(h, t + L) <=>
            /\ d + W \in T + W .. (T + W) + W
            /\ EntryIn(h, d + W) # DayOff /\ StartIn(h, d + W) > t + L
    BY <1>1 DEF AheadAt
  <2>3. d \in AheadAt(h, t) <=> d \in T .. T + W /\ EntryIn(h, d) # DayOff /\ StartIn(h, d) > t
    BY DEF AheadAt
  <2> HIDE DEF T, W, L
  <2>4. d + W \in T + W .. (T + W) + W <=> d \in T .. T + W
    BY <1>1
  <2>5. ASSUME EntryIn(h, d) # DayOff
        PROVE  StartIn(h, d + W) > t + L <=> StartIn(h, d) > t
    <3>1. StartIn(h, d) \in Int
      BY <2>5, DayFacts
    <3>2. StartIn(h, d + W) = StartIn(h, d) + L
      BY <1>2, <2>5
    <3> QED
      BY <1>1, <3>1, <3>2
  <2> QED
    BY <2>1, <2>2, <2>3, <2>4, <2>5
<1> QED
  BY <1>2, <1>3, <1>4

LEMMA FirstShifts ==
  ASSUME NEW S, S \subseteq Int, NEW R, R \subseteq Int, NEW w \in Int, NEW m \in S,
         \A e \in S : m <= e, \A d \in Int : d + w \in R <=> d \in S
  PROVE  R # {} /\ First(R) = m + w
<1>1. m + w \in R
  OBVIOUS
<1>2. \A e \in R : m + w <= e
  <2> TAKE e \in R
  <2>1. e - w \in Int /\ (e - w) + w = e
    OBVIOUS
  <2>2. e - w \in S
    BY <2>1
  <2>3. m <= e - w
    BY <2>2
  <2> QED
    BY <2>1, <2>3
<1> QED
  BY <1>1, <1>2, IsFirst

LEMMA EmptyShifts ==
  ASSUME NEW S, S = {}, NEW R, R \subseteq Int, NEW w \in Int,
         \A d \in Int : d + w \in R <=> d \in S
  PROVE  R = {}
<1> SUFFICES ASSUME NEW e \in R PROVE FALSE
  OBVIOUS
<1>1. e - w \in Int /\ (e - w) + w = e
  OBVIOUS
<1> QED
  BY <1>1

LEMMA SameNextWeek ==
  ASSUME NEW h \in Weekly \cup {NoHours}, NEW t \in Int
  PROVE  StatusAt(h, t + WeekDays * DayLength) = StatusAt(h, t)
<1> DEFINE L == WeekDays * DayLength
           W == WeekDays
<1>1. CASE h = NoHours
  BY <1>1 DEF StatusAt
<1>2. CASE h # NoHours
  <2>1. h \in Weekly
    BY <1>2
  <2>2. /\ \A d \in Int : d + W \in OpenAt(h, t + L) <=> d \in OpenAt(h, t)
        /\ \A d \in Int : d + W \in AheadAt(h, t + L) <=> d \in AheadAt(h, t)
        /\ \A d \in Int : EntryIn(h, d) # DayOff =>
              /\ StartIn(h, d + W) = StartIn(h, d) + L
              /\ EndIn(h, d + W) = EndIn(h, d) + L
    BY <2>1, WeekShift
  <2>3. L \in Int /\ W \in Int /\ t + L \in Int
    BY WeekFacts, HoursAssumption
  <2>4. /\ OpenAt(h, t) \subseteq Int /\ AheadAt(h, t) \subseteq Int
        /\ \A d \in OpenAt(h, t) : EntryIn(h, d) # DayOff
        /\ \A d \in AheadAt(h, t) : EntryIn(h, d) # DayOff
    BY DayOf, HoursAssumption DEF OpenAt, AheadAt
  <2>5. OpenAt(h, t + L) \subseteq Int /\ AheadAt(h, t + L) \subseteq Int
    <3>1. (t + L) \div DayLength \in Int
      BY <2>3, DayOf
    <3> HIDE DEF L
    <3> QED
      BY <3>1, HoursAssumption DEF OpenAt, AheadAt
  <2> HIDE DEF L, W
  <2>6. CASE OpenAt(h, t) # {}
    <3> DEFINE m == First(OpenAt(h, t))
    <3>1. m \in OpenAt(h, t) /\ \A e \in OpenAt(h, t) : m <= e
      BY <2>1, <2>6, Moments
    <3>2. m \in Int /\ EntryIn(h, m) # DayOff
      BY <2>4, <3>1
    <3>3. EndIn(h, m) \in Int
      BY <2>1, <3>2, DayFacts
    <3> HIDE DEF m
    <3>4. OpenAt(h, t + L) # {} /\ First(OpenAt(h, t + L)) = m + W
      BY <2>2, <2>3, <2>4, <2>5, <3>1, FirstShifts
    <3>5. EndIn(h, m + W) - (t + L) = EndIn(h, m) - t
      BY <2>2, <2>3, <3>2, <3>3
    <3>6. StatusAt(h, t) = [open |-> TRUE, next |-> EndIn(h, m) - t]
      BY <1>2, <2>6 DEF StatusAt, m
    <3>7. StatusAt(h, t + L) = [open |-> TRUE, next |-> EndIn(h, m + W) - (t + L)]
      BY <1>2, <3>4 DEF StatusAt
    <3> QED
      BY <3>5, <3>6, <3>7 DEF L
  <2>7. CASE OpenAt(h, t) = {} /\ AheadAt(h, t) # {}
    <3> DEFINE m == First(AheadAt(h, t))
    <3>1. m \in AheadAt(h, t) /\ \A e \in AheadAt(h, t) : m <= e
      BY <2>1, <2>7, Moments
    <3>2. m \in Int /\ EntryIn(h, m) # DayOff
      BY <2>4, <3>1
    <3>3. StartIn(h, m) \in Int
      BY <2>1, <3>2, DayFacts
    <3> HIDE DEF m
    <3>4. AheadAt(h, t + L) # {} /\ First(AheadAt(h, t + L)) = m + W
      BY <2>2, <2>3, <2>4, <2>5, <3>1, FirstShifts
    <3>5. OpenAt(h, t + L) = {}
      BY <2>2, <2>3, <2>5, <2>7, EmptyShifts
    <3>6. StartIn(h, m + W) - (t + L) = StartIn(h, m) - t
      BY <2>2, <2>3, <3>2, <3>3
    <3>7. StatusAt(h, t) = [open |-> FALSE, next |-> StartIn(h, m) - t]
      BY <1>2, <2>7 DEF StatusAt, m
    <3>8. StatusAt(h, t + L) = [open |-> FALSE, next |-> StartIn(h, m + W) - (t + L)]
      BY <1>2, <3>4, <3>5 DEF StatusAt
    <3> QED
      BY <3>6, <3>7, <3>8 DEF L
  <2>8. CASE OpenAt(h, t) = {} /\ AheadAt(h, t) = {}
    <3>1. OpenAt(h, t + L) = {} /\ AheadAt(h, t + L) = {}
      BY <2>2, <2>3, <2>5, <2>8, EmptyShifts
    <3> QED
      BY <1>2, <2>8, <3>1 DEF StatusAt, L
  <2> QED
    BY <2>6, <2>7, <2>8
<1> QED
  BY <1>1, <1>2

(* The inductive invariant.  An answer is as old as its age says.  What is *)
(* marked as computed from these settings, and names no moment that has    *)
(* passed, is what the server would say now.  A phone that has let such a  *)
(* moment pass is waiting: for its timer, for the server, or for an answer *)
(* that looks further ahead.                                               *)
Ahead(next) == next = Never \/ next > 0
AnswerType == [accepting : BOOLEAN, next : Int \cup {Never}, current : BOOLEAN, age : 0 .. MaxDelay]
PhoneType ==
    [accepting : BOOLEAN, next : Int \cup {Never}, current : BOOLEAN, timer : BOOLEAN, missed : BOOLEAN]

HoursTypes ==
    /\ settings \in [ordering : BOOLEAN, hours : Weekly \cup {NoHours}]
    /\ now \in 0 .. WeekDays * DayLength - 1
    /\ asked \in Nat
    /\ answers \subseteq AnswerType /\ IsFiniteSet(answers)
    /\ phone \in PhoneType
Saying(a) ==
    a.current /\ Ahead(a.next) =>
        a.accepting = AcceptingOrders /\ a.next = EvaluateWorkingHours.next
AnswersAge == \A a \in answers : a.next = Never \/ a.next >= 1 - a.age
Waiting ==
    phone.next # Never /\ phone.next <= 0 /\ ~phone.timer =>
        \/ phone.missed \/ asked > 0
        \/ \E a \in answers : a.next = Never \/ a.next > phone.next
TimerSet == phone.next # Never /\ phone.next > 0 => phone.timer
PhoneFloor == phone.next = Never \/ phone.next >= -MaxDelay - 1
HoursOK ==
    /\ HoursTypes
    /\ \A a \in answers : Saying(a)
    /\ Saying(phone)
    /\ AnswersAge /\ Waiting /\ TimerSet /\ PhoneFloor

LEMMA ServerStatus ==
  ASSUME settings \in [ordering : BOOLEAN, hours : Weekly \cup {NoHours}], now \in Int
  PROVE  /\ AcceptingOrders \in BOOLEAN
         /\ StoreStatus \in AnswerType
         /\ Ahead(StoreStatus.next)
         /\ StoreStatus.next = Never \/ (StoreStatus.next \in Int /\ StoreStatus.next >= 1)
         /\ StoreStatus.current = TRUE /\ StoreStatus.age = 0
         /\ StoreStatus.accepting = AcceptingOrders
         /\ StoreStatus.next = EvaluateWorkingHours.next
<1>1. settings.hours \in Weekly \cup {NoHours} /\ settings.ordering \in BOOLEAN
  OBVIOUS
<1>2. /\ EvaluateWorkingHours.open \in BOOLEAN
      /\ \/ EvaluateWorkingHours.next = Never
         \/ EvaluateWorkingHours.next \in Int /\ EvaluateWorkingHours.next >= 1
  BY <1>1, NextIsAhead, StatusNow
<1>3. AcceptingOrders \in BOOLEAN
  BY <1>1, <1>2 DEF AcceptingOrders
<1>4. /\ StoreStatus.next = EvaluateWorkingHours.next /\ StoreStatus.accepting = AcceptingOrders
      /\ StoreStatus.current = TRUE /\ StoreStatus.age = 0
  BY DEF StoreStatus
<1>5. 0 \in 0 .. MaxDelay
  BY HoursAssumption
<1>6. StoreStatus \in AnswerType
  BY <1>2, <1>3, <1>5 DEF StoreStatus, AnswerType
<1>7. Ahead(StoreStatus.next)
  BY <1>2, <1>4 DEF Ahead
<1> QED
  BY <1>2, <1>3, <1>4, <1>6, <1>7

LEMMA HoursInitOK == HoursInit => HoursOK
<1> SUFFICES ASSUME HoursInit PROVE HoursOK
  OBVIOUS
<1>1. WeekDays * DayLength \in Nat \ {0}
  BY WeekFacts
<1>2. 0 \in 0 .. WeekDays * DayLength - 1
  <2> DEFINE L == WeekDays * DayLength
  <2> HIDE DEF L
  <2>1. L \in Nat \ {0}
    BY <1>1 DEF L
  <2>2. 0 \in 0 .. L - 1
    BY <2>1
  <2> QED
    BY <2>2 DEF L
<1>3. HoursTypes
  BY <1>2, FS_EmptySet DEF HoursInit, HoursTypes, PhoneType, Settings, Tables, Weekly
<1>4. (\A a \in answers : Saying(a)) /\ Saying(phone) /\ AnswersAge
  BY DEF HoursInit, Saying, AnswersAge
<1>5. Waiting /\ TimerSet /\ PhoneFloor
  BY DEF HoursInit, Waiting, TimerSet, PhoneFloor
<1> QED
  BY <1>3, <1>4, <1>5 DEF HoursOK

(* A map of the answers leaves finitely many.                              *)
LEMMA MappedFinite ==
  ASSUME NEW S, IsFiniteSet(S), NEW T, NEW f \in [S -> T], T = {f[x] : x \in S}
  PROVE  IsFiniteSet(T)
<1>1. f \in Surjection(S, T)
  BY DEF Surjection
<1> QED
  BY <1>1, FS_Surjection

LEMMA ChangedOK ==
  ASSUME HoursOK, NEW s \in Settings, Changed(s)
  PROVE  HoursOK'
<1>1. /\ settings' = s /\ now' = now /\ asked' = asked
      /\ answers' = {[a EXCEPT !.current = FALSE] : a \in answers}
      /\ phone' = [phone EXCEPT !.current = FALSE]
  BY DEF Changed
<1>2. HoursTypes
  BY DEF HoursOK
<1> DEFINE f == [a \in answers |-> [a EXCEPT !.current = FALSE]]
<1>3. \A b \in answers' : \E a \in answers : b = [a EXCEPT !.current = FALSE]
  BY <1>1
<1>4. \A a \in answers : [a EXCEPT !.current = FALSE] \in answers'
  BY <1>1
<1>5. answers' \subseteq AnswerType
  BY <1>2, <1>3 DEF HoursTypes, AnswerType
<1>6. IsFiniteSet(answers')
  <2>1. f \in [answers -> answers'] /\ answers' = {f[a] : a \in answers}
    BY <1>1
  <2>2. IsFiniteSet(answers)
    BY <1>2 DEF HoursTypes
  <2> HIDE DEF f
  <2> QED
    BY <2>1, <2>2, MappedFinite
<1>7. HoursTypes'
  <2>1. phone' \in PhoneType
    BY <1>1, <1>2 DEF HoursTypes, PhoneType
  <2> QED
    BY <1>1, <1>2, <1>5, <1>6, <2>1 DEF HoursTypes, Settings, Tables, Weekly
<1>8. /\ phone'.current = FALSE /\ phone'.next = phone.next /\ phone'.timer = phone.timer
      /\ phone'.missed = phone.missed
  BY <1>1, <1>2 DEF HoursTypes, PhoneType
<1>9. \A a \in answers : LET b == [a EXCEPT !.current = FALSE] IN
         b.current = FALSE /\ b.next = a.next /\ b.age = a.age
  BY <1>2 DEF HoursTypes, AnswerType
<1>10. \A b \in answers' : b.current = FALSE /\ \E a \in answers : b.next = a.next /\ b.age = a.age
  BY <1>3, <1>9
<1>11. (\A a \in answers : Saying(a))' /\ Saying(phone)'
  BY <1>8, <1>10 DEF Saying
<1>12. AnswersAge'
  BY <1>10 DEF HoursOK, AnswersAge
<1>13. Waiting'
  BY <1>1, <1>4, <1>8, <1>9 DEF HoursOK, Waiting
<1>14. TimerSet' /\ PhoneFloor'
  BY <1>8 DEF HoursOK, TimerSet, PhoneFloor
<1> QED
  BY <1>7, <1>11, <1>12, <1>13, <1>14 DEF HoursOK

(* What the server says depends on the settings and on the moment alone.   *)
LEMMA SameStatus ==
  ASSUME UNCHANGED <<settings, now>>
  PROVE  /\ AcceptingOrders' = AcceptingOrders
         /\ EvaluateWorkingHours' = EvaluateWorkingHours
         /\ \A a : Saying(a)' = Saying(a)
<1>1. EvaluateWorkingHours' = EvaluateWorkingHours
  BY DEF EvaluateWorkingHours, OpenDays, DaysAhead, Today, Entry, Start, End
<1>2. AcceptingOrders' = AcceptingOrders
  BY <1>1 DEF AcceptingOrders
<1> QED
  BY <1>1, <1>2 DEF Saying

LEMMA GetStoreStatusOK == HoursOK /\ GetStoreStatus => HoursOK'
<1> SUFFICES ASSUME HoursOK, GetStoreStatus PROVE HoursOK'
  OBVIOUS
<1>1. /\ asked > 0 /\ asked' = asked - 1 /\ answers' = answers \cup {StoreStatus}
      /\ UNCHANGED <<settings, now, phone>>
  BY DEF GetStoreStatus
<1>2. HoursTypes
  BY DEF HoursOK
<1> DEFINE new == StoreStatus
<1>3. now \in Int
  <2> DEFINE L == WeekDays * DayLength
  <2>1. L \in Int /\ now \in 0 .. L - 1
    BY <1>2, WeekFacts DEF HoursTypes
  <2> HIDE DEF L
  <2> QED
    BY <2>1
<1>4. /\ new \in AnswerType /\ Ahead(new.next)
      /\ new.next = Never \/ (new.next \in Int /\ new.next >= 1)
      /\ new.age = 0 /\ new.accepting = AcceptingOrders /\ new.next = EvaluateWorkingHours.next
  BY <1>2, <1>3, ServerStatus DEF HoursTypes
<1> HIDE DEF new
<1>5. HoursTypes'
  <2>1. answers' \subseteq AnswerType
    BY <1>1, <1>2, <1>4 DEF HoursTypes, new
  <2>2. IsFiniteSet(answers')
    BY <1>1, <1>2, FS_AddElement DEF HoursTypes
  <2>3. asked' \in Nat
    BY <1>1, <1>2 DEF HoursTypes
  <2> QED
    BY <1>1, <1>2, <2>1, <2>2, <2>3 DEF HoursTypes
<1>6. \A a \in answers' : a \in answers \/ a = new
  BY <1>1 DEF new
<1>7. Saying(new)
  BY <1>4 DEF Saying
<1>8. (\A a \in answers : Saying(a))'
  <2>1. \A a \in answers' : Saying(a)
    BY <1>6, <1>7 DEF HoursOK
  <2>2. AcceptingOrders' = AcceptingOrders /\ EvaluateWorkingHours' = EvaluateWorkingHours
    BY <1>1, SameStatus
  <2> QED
    BY <2>1, <2>2 DEF Saying
<1>9. Saying(phone)'
  <2>1. AcceptingOrders' = AcceptingOrders /\ EvaluateWorkingHours' = EvaluateWorkingHours
    BY <1>1, SameStatus
  <2> QED
    BY <1>1, <2>1 DEF HoursOK, Saying
<1>10. AnswersAge'
  <2>1. new.next = Never \/ new.next >= 1 - new.age
    BY <1>4
  <2> QED
    BY <1>6, <2>1 DEF HoursOK, AnswersAge
<1>11. Waiting'
  <2> SUFFICES ASSUME phone.next # Never, phone.next <= 0, ~phone.timer
               PROVE  \E a \in answers' : a.next = Never \/ a.next > phone.next
    BY <1>1 DEF Waiting
  <2>1. phone.next \in Int
    BY <1>2 DEF HoursTypes, PhoneType
  <2>2. new.next = Never \/ new.next > phone.next
    BY <1>4, <2>1
  <2> QED
    BY <1>1, <2>2 DEF new
<1>12. TimerSet' /\ PhoneFloor'
  BY <1>1 DEF HoursOK, TimerSet, PhoneFloor
<1> QED
  BY <1>5, <1>8, <1>9, <1>10, <1>11, <1>12 DEF HoursOK

LEMMA AskingOK == HoursOK /\ (Refresh \/ TimerFires) => HoursOK'
<1> SUFFICES ASSUME HoursOK, Refresh \/ TimerFires PROVE HoursOK'
  OBVIOUS
<1>1. HoursTypes
  BY DEF HoursOK
<1>2. /\ asked' = asked + 1 /\ UNCHANGED <<settings, now, answers>>
      /\ \/ phone' = phone
         \/ /\ phone.next # Never /\ phone.next <= 0
            /\ phone' = [phone EXCEPT !.timer = FALSE]
  BY DEF Refresh, TimerFires, TimerDue
<1>3. /\ phone' \in PhoneType
      /\ phone'.accepting = phone.accepting /\ phone'.next = phone.next /\ phone'.current = phone.current
      /\ phone'.missed = phone.missed
      /\ phone'.timer = phone.timer \/ (phone.next # Never /\ phone.next <= 0)
  BY <1>1, <1>2 DEF HoursTypes, PhoneType
<1>4. HoursTypes'
  BY <1>1, <1>2, <1>3 DEF HoursTypes
<1>5. AcceptingOrders' = AcceptingOrders /\ EvaluateWorkingHours' = EvaluateWorkingHours
  BY <1>2, SameStatus
<1>6. (\A a \in answers : Saying(a))' /\ Saying(phone)'
  BY <1>2, <1>3, <1>5 DEF HoursOK, Saying
<1>7. AnswersAge' /\ PhoneFloor'
  BY <1>2, <1>3 DEF HoursOK, AnswersAge, PhoneFloor
<1>8. Waiting'
  <2>1. asked' > 0
    BY <1>1, <1>2 DEF HoursTypes
  <2> QED
    BY <2>1 DEF Waiting
<1>9. TimerSet'
  <2>1. phone.next = Never \/ phone.next \in Int
    BY <1>1 DEF HoursTypes, PhoneType
  <2> QED
    BY <1>3, <2>1 DEF HoursOK, TimerSet
<1> QED
  BY <1>4, <1>6, <1>7, <1>8, <1>9 DEF HoursOK

LEMMA StatusArrivesOK ==
  ASSUME HoursOK, NEW a \in answers, StatusArrives(a)
  PROVE  HoursOK'
<1> DEFINE same == a.next = phone.next
           passed == a.next # Never /\ a.next <= 0
<1>1. /\ answers' = answers \ {a}
      /\ asked' = asked + IF ~same /\ passed THEN 1 ELSE 0
      /\ phone' = [accepting |-> a.accepting, next |-> a.next, current |-> a.current,
                   missed |-> phone.missed /\ passed,
                   timer |-> IF same THEN phone.timer ELSE a.next # Never /\ ~passed]
      /\ UNCHANGED <<settings, now>>
  BY DEF StatusArrives
<1>2. HoursTypes
  BY DEF HoursOK
<1>3. a \in AnswerType /\ phone \in PhoneType /\ asked \in Nat
  BY <1>2 DEF HoursTypes
<1>4. /\ a.accepting \in BOOLEAN /\ a.current \in BOOLEAN /\ (a.next \in Int \/ a.next = Never)
      /\ phone.timer \in BOOLEAN /\ phone.missed \in BOOLEAN /\ (phone.next \in Int \/ phone.next = Never)
  BY <1>3 DEF AnswerType, PhoneType
<1>5. same \in BOOLEAN /\ passed \in BOOLEAN
  OBVIOUS
<1>6. /\ phone'.accepting = a.accepting /\ phone'.next = a.next /\ phone'.current = a.current
      /\ phone'.missed = (phone.missed /\ passed)
      /\ phone'.timer = IF same THEN phone.timer ELSE a.next # Never /\ ~passed
  BY <1>1
<1>7. HoursTypes'
  <2>1. phone' \in PhoneType
    BY <1>1, <1>4 DEF PhoneType
  <2>2. asked' \in Nat
    BY <1>1, <1>3
  <2>3. IsFiniteSet(answers') /\ answers' \subseteq AnswerType
    BY <1>1, <1>2, FS_RemoveElement DEF HoursTypes
  <2> QED
    BY <1>1, <1>2, <2>1, <2>2, <2>3 DEF HoursTypes
<1>8. AcceptingOrders' = AcceptingOrders /\ EvaluateWorkingHours' = EvaluateWorkingHours
  BY <1>1, SameStatus
<1>9. Saying(a)
  BY DEF HoursOK
<1>10. (\A b \in answers : Saying(b))'
  BY <1>1, <1>8 DEF HoursOK, Saying
<1>11. Saying(phone)'
  BY <1>6, <1>8, <1>9 DEF Saying
<1>12. AnswersAge'
  BY <1>1 DEF HoursOK, AnswersAge
<1>13. PhoneFloor'
  <2>1. a.next = Never \/ a.next >= 1 - a.age
    BY DEF HoursOK, AnswersAge
  <2>2. a.age \in 0 .. MaxDelay /\ MaxDelay \in Nat
    BY <1>3, HoursAssumption DEF AnswerType
  <2>3. a.next = Never \/ a.next >= -MaxDelay - 1
    BY <1>4, <2>1, <2>2
  <2> QED
    BY <1>6, <2>3 DEF PhoneFloor
<1>14. TimerSet'
  <2> SUFFICES ASSUME a.next # Never, a.next > 0 PROVE phone'.timer
    BY <1>6 DEF TimerSet
  <2>1. CASE same
    BY <1>6, <2>1 DEF HoursOK, TimerSet
  <2>2. CASE ~same
    <3>1. ~passed
      BY <1>4
    <3> QED
      BY <1>6, <2>2, <3>1
  <2> QED
    BY <2>1, <2>2
<1>15. Waiting'
  <2> SUFFICES ASSUME a.next # Never, a.next <= 0, ~phone'.timer
               PROVE  \/ phone'.missed \/ asked' > 0
                      \/ \E b \in answers' : b.next = Never \/ b.next > a.next
    BY <1>6 DEF Waiting
  <2>1. passed
    OBVIOUS
  <2>2. CASE same
    <3>1. /\ phone.next # Never /\ phone.next <= 0 /\ ~phone.timer /\ a.next = phone.next
          /\ asked' = asked /\ phone'.missed = phone.missed
      BY <1>1, <1>3, <1>4, <1>6, <2>1, <2>2
    <3>2. \/ phone.missed \/ asked > 0
          \/ \E b \in answers : b.next = Never \/ b.next > phone.next
      BY <3>1 DEF HoursOK, Waiting
    <3>3. \A b \in answers : (b.next = Never \/ b.next > phone.next) => b # a
      BY <1>4, <3>1
    <3> QED
      BY <1>1, <3>1, <3>2, <3>3
  <2>3. CASE ~same
    BY <1>1, <1>3, <2>1, <2>3
  <2> QED
    BY <2>2, <2>3
<1> QED
  BY <1>7, <1>10, <1>11, <1>12, <1>13, <1>14, <1>15 DEF HoursOK

LEMMA StatusLostOK ==
  ASSUME HoursOK, NEW a \in answers, StatusLost(a)
  PROVE  HoursOK'
<1>1. /\ answers' = answers \ {a} /\ phone' = [phone EXCEPT !.missed = TRUE]
      /\ UNCHANGED <<settings, now, asked>>
  BY DEF StatusLost
<1>2. HoursTypes
  BY DEF HoursOK
<1>3. /\ phone' \in PhoneType
      /\ phone'.accepting = phone.accepting /\ phone'.next = phone.next /\ phone'.current = phone.current
      /\ phone'.missed = TRUE /\ phone'.timer = phone.timer
  BY <1>1, <1>2 DEF HoursTypes, PhoneType
<1>4. HoursTypes'
  BY <1>1, <1>2, <1>3, FS_RemoveElement DEF HoursTypes
<1>5. AcceptingOrders' = AcceptingOrders /\ EvaluateWorkingHours' = EvaluateWorkingHours
  BY <1>1, SameStatus
<1>6. (\A b \in answers : Saying(b))' /\ Saying(phone)'
  BY <1>1, <1>3, <1>5 DEF HoursOK, Saying
<1>7. AnswersAge' /\ PhoneFloor' /\ TimerSet'
  BY <1>1, <1>3 DEF HoursOK, AnswersAge, PhoneFloor, TimerSet
<1>8. Waiting'
  BY <1>3 DEF Waiting
<1> QED
  BY <1>4, <1>6, <1>7, <1>8 DEF HoursOK

(* What the server says, one tick on.                                      *)
LEMMA ServerTick ==
  ASSUME HoursTypes, HoursTick
  PROVE  LET was == EvaluateWorkingHours.next IN
         /\ was = Never \/ (was \in Int /\ was >= 1)
         /\ was = Never \/ was > 1 =>
               /\ AcceptingOrders' = AcceptingOrders
               /\ EvaluateWorkingHours'.next = IF was = Never THEN Never ELSE was - 1
<1> DEFINE L == WeekDays * DayLength
           h == settings.hours
<1>1. L \in Nat \ {0}
  BY WeekFacts
<1>2. h \in Weekly \cup {NoHours} /\ now \in 0 .. L - 1 /\ settings' = settings /\ now' = (now + 1) % L
  BY DEF HoursTypes, HoursTick
<1>3. EvaluateWorkingHours = StatusAt(h, now)
  BY StatusNow
<1>4. EvaluateWorkingHours' = StatusAt(h, now')
  BY <1>2 DEF EvaluateWorkingHours, StatusAt, OpenDays, OpenAt, AheadAt, DaysAhead, Today, Entry,
              Start, End, EntryIn, StartIn, EndIn, First
<1> HIDE DEF L, h
<1>5. now \in Int /\ now + 1 \in 1 .. L
  BY <1>1, <1>2
<1>6. StatusAt(h, now') = StatusAt(h, now + 1)
  <2>1. CASE now + 1 < L
    <3>1. now + 1 = L * 0 + (now + 1) /\ now + 1 \in 0 .. L - 1
      BY <1>1, <1>5, <2>1
    <3>2. (now + 1) % L = now + 1
      BY <1>1, <1>5, <3>1, Quotient
    <3> QED
      BY <1>2, <3>2
  <2>2. CASE now + 1 = L
    <3>1. L = L * 1 + 0 /\ 0 \in 0 .. L - 1
      BY <1>1
    <3>2. L % L = 0
      BY <1>1, <3>1, Quotient
    <3>3. now' = 0 /\ now + 1 = 0 + L
      BY <1>1, <1>2, <2>2, <3>2
    <3>4. StatusAt(h, 0 + L) = StatusAt(h, 0)
      BY <1>2, SameNextWeek DEF L
    <3> QED
      BY <3>3, <3>4
  <2> QED
    BY <1>1, <1>5, <2>1, <2>2
<1>7. /\ EvaluateWorkingHours.next = Never
         \/ (EvaluateWorkingHours.next \in Int /\ EvaluateWorkingHours.next >= 1)
  BY <1>2, <1>3, <1>5, NextIsAhead
<1>8. ASSUME EvaluateWorkingHours.next = Never \/ EvaluateWorkingHours.next > 1
      PROVE  /\ AcceptingOrders' = AcceptingOrders
             /\ EvaluateWorkingHours'.next = IF EvaluateWorkingHours.next = Never THEN Never
                                             ELSE EvaluateWorkingHours.next - 1
  <2>1. /\ StatusAt(h, now + 1).open = StatusAt(h, now).open
        /\ StatusAt(h, now + 1).next = IF StatusAt(h, now).next = Never THEN Never
                                       ELSE StatusAt(h, now).next - 1
    BY <1>2, <1>3, <1>5, <1>8, TickKeeps
  <2>2. EvaluateWorkingHours'.open = EvaluateWorkingHours.open
    BY <1>3, <1>4, <1>6, <2>1
  <2>3. AcceptingOrders' = AcceptingOrders
    BY <1>2, <2>2 DEF AcceptingOrders
  <2> QED
    BY <1>3, <1>4, <1>6, <2>1, <2>3
<1> QED
  BY <1>7, <1>8

LEMMA SoonerFacts ==
  ASSUME NEW n \in Int \cup {Never}
  PROVE  /\ Sooner(n) \in Int \cup {Never}
         /\ Sooner(n) = Never <=> n = Never
         /\ n # Never => Sooner(n) \in {n, n - 1} /\ (n >= -MaxDelay => Sooner(n) = n - 1)
                         /\ (n < -MaxDelay => Sooner(n) = n)
<1>1. CASE n = Never
  BY <1>1 DEF Sooner
<1>2. CASE n # Never
  <2>1. n \in Int /\ -MaxDelay \in Int /\ n - 1 \in Int /\ n # Never /\ n - 1 # Never
    BY <1>2, HoursAssumption
  <2>2. CASE n < -MaxDelay
    BY <2>1, <2>2 DEF Sooner
  <2>3. CASE ~ (n < -MaxDelay)
    BY <2>1, <2>3 DEF Sooner
  <2> QED
    BY <2>2, <2>3
<1> QED
  BY <1>1, <1>2

LEMMA HoursTickOK == HoursOK /\ HoursTick => HoursOK'
<1> SUFFICES ASSUME HoursOK, HoursTick PROVE HoursOK'
  OBVIOUS
<1> DEFINE older(a) == [a EXCEPT !.next = Sooner(@), !.age = @ + 1]
<1>1. /\ ~TimerDue /\ \A a \in answers : a.age < MaxDelay
      /\ now' = (now + 1) % (WeekDays * DayLength)
      /\ answers' = {older(a) : a \in answers}
      /\ phone' = [phone EXCEPT !.next = Sooner(@)]
      /\ UNCHANGED <<settings, asked>>
  BY DEF HoursTick
<1>2. HoursTypes
  BY DEF HoursOK
<1>3. MaxDelay \in Nat /\ Never \notin Int
  BY HoursAssumption
<1>4. \A a \in answers : a \in AnswerType
  BY <1>2 DEF HoursTypes
<1>5. \A a \in answers :
         /\ older(a) \in AnswerType
         /\ older(a).accepting = a.accepting /\ older(a).current = a.current
         /\ older(a).next = Sooner(a.next) /\ older(a).age = a.age + 1
         /\ a.next \in Int \cup {Never} /\ a.age \in 0 .. MaxDelay /\ a.age < MaxDelay
  <2> TAKE a \in answers
  <2>1. a.next \in Int \cup {Never} /\ a.age \in 0 .. MaxDelay /\ a.age < MaxDelay
    BY <1>1, <1>4 DEF AnswerType
  <2>2. Sooner(a.next) \in Int \cup {Never}
    BY <2>1, SoonerFacts
  <2>3. a.age + 1 \in 0 .. MaxDelay
    BY <1>3, <2>1
  <2> QED
    BY <1>4, <2>1, <2>2, <2>3 DEF AnswerType
<1>6. /\ phone' \in PhoneType
      /\ phone'.accepting = phone.accepting /\ phone'.current = phone.current
      /\ phone'.timer = phone.timer /\ phone'.missed = phone.missed
      /\ phone'.next = Sooner(phone.next) /\ phone.next \in Int \cup {Never}
  <2>1. phone.next \in Int \cup {Never}
    BY <1>2 DEF HoursTypes, PhoneType
  <2>2. Sooner(phone.next) \in Int \cup {Never}
    BY <2>1, SoonerFacts
  <2> QED
    BY <1>1, <1>2, <2>1, <2>2 DEF HoursTypes, PhoneType
<1>7. \A b \in answers' : \E a \in answers : b = older(a)
  BY <1>1
<1>8. \A a \in answers : older(a) \in answers'
  BY <1>1
<1>9. IsFiniteSet(answers')
  <2> DEFINE f == [a \in answers |-> older(a)]
  <2>1. f \in [answers -> answers'] /\ answers' = {f[a] : a \in answers}
    BY <1>1
  <2>2. IsFiniteSet(answers)
    BY <1>2 DEF HoursTypes
  <2> HIDE DEF f
  <2> QED
    BY <2>1, <2>2, MappedFinite
<1> HIDE DEF older
<1>10. HoursTypes'
  <2>1. answers' \subseteq AnswerType
    BY <1>5, <1>7
  <2>2. now' \in 0 .. WeekDays * DayLength - 1
    <3> DEFINE L == WeekDays * DayLength
    <3>1. L \in Nat \ {0} /\ now \in 0 .. L - 1 /\ now' = (now + 1) % L
      BY <1>1, <1>2, WeekFacts DEF HoursTypes
    <3> HIDE DEF L
    <3>2. now + 1 \in Int
      BY <3>1
    <3>3. now' \in 0 .. L - 1
      BY <3>1, <3>2, Division
    <3> QED
      BY <3>3 DEF L
  <2> QED
    BY <1>1, <1>2, <1>6, <1>9, <2>1, <2>2 DEF HoursTypes
<1>11. LET was == EvaluateWorkingHours.next IN
         /\ was = Never \/ (was \in Int /\ was >= 1)
         /\ was = Never \/ was > 1 =>
               /\ AcceptingOrders' = AcceptingOrders
               /\ EvaluateWorkingHours'.next = IF was = Never THEN Never ELSE was - 1
  BY <1>2, ServerTick
\* A moment that is still ahead after the tick was more than a tick away.
<1>12. ASSUME NEW n \in Int \cup {Never}, Ahead(Sooner(n))
       PROVE  /\ Ahead(n) /\ (n = Never \/ n > 1)
              /\ Sooner(n) = IF n = Never THEN Never ELSE n - 1
  <2>1. CASE n = Never
    BY <2>1, SoonerFacts DEF Ahead
  <2>2. CASE n # Never
    <3>1. n \in Int /\ Sooner(n) \in {n, n - 1} /\ Sooner(n) # Never /\ Sooner(n) > 0
      BY <1>12, <2>2, SoonerFacts DEF Ahead
    <3>2. n >= -MaxDelay
      BY <1>3, <3>1
    <3>3. Sooner(n) = n - 1
      BY <2>2, <3>2, SoonerFacts
    <3> QED
      BY <2>2, <3>1, <3>3 DEF Ahead
  <2> QED
    BY <2>1, <2>2
<1>13. ASSUME NEW a, NEW b, Saying(a), a.next \in Int \cup {Never}, b.accepting = a.accepting,
              b.current = a.current, b.next = Sooner(a.next), b.current, Ahead(b.next)
       PROVE  b.accepting = AcceptingOrders' /\ b.next = EvaluateWorkingHours'.next
  <2>1. Ahead(a.next) /\ (a.next = Never \/ a.next > 1)
        /\ b.next = IF a.next = Never THEN Never ELSE a.next - 1
    BY <1>12, <1>13
  <2>2. a.accepting = AcceptingOrders /\ a.next = EvaluateWorkingHours.next
    BY <1>13, <2>1 DEF Saying
  <2> QED
    BY <1>11, <1>13, <2>1, <2>2
<1>14. (\A a \in answers : Saying(a))'
  <2> SUFFICES ASSUME NEW b \in answers', b.current, Ahead(b.next)
               PROVE  b.accepting = AcceptingOrders' /\ b.next = EvaluateWorkingHours'.next
    BY DEF Saying
  <2>1. PICK a \in answers : b = older(a)
    BY <1>7
  <2>2. Saying(a)
    BY DEF HoursOK
  <2> QED
    BY <1>5, <1>13, <2>1, <2>2
<1>15. Saying(phone)'
  <2> SUFFICES ASSUME phone'.current, Ahead(phone'.next)
               PROVE  phone'.accepting = AcceptingOrders' /\ phone'.next = EvaluateWorkingHours'.next
    BY DEF Saying
  <2>1. Saying(phone)
    BY DEF HoursOK
  <2> QED
    BY <1>6, <1>13, <2>1
<1>16. AnswersAge'
  <2> SUFFICES ASSUME NEW b \in answers', b.next # Never PROVE b.next >= 1 - b.age
    BY DEF AnswersAge
  <2>1. PICK a \in answers : b = older(a)
    BY <1>7
  <2>2. a.next # Never /\ a.next \in Int /\ b.next \in {a.next, a.next - 1} /\ b.age = a.age + 1
        /\ a.age \in 0 .. MaxDelay
    BY <1>5, <2>1, SoonerFacts
  <2>3. a.next >= 1 - a.age
    BY <2>2 DEF HoursOK, AnswersAge
  <2> QED
    BY <1>3, <2>2, <2>3
<1>17. Waiting'
  <2> SUFFICES ASSUME phone'.next # Never, phone'.next <= 0, ~phone'.timer
               PROVE  \/ phone'.missed \/ asked' > 0
                      \/ \E b \in answers' : b.next = Never \/ b.next > phone'.next
    BY DEF Waiting
  <2>1. /\ phone.next # Never /\ phone.next \in Int /\ ~phone.timer
        /\ phone'.next \in {phone.next, phone.next - 1}
        /\ phone.next >= -MaxDelay => phone'.next = phone.next - 1
        /\ phone.next < -MaxDelay => phone'.next = phone.next
    BY <1>6, SoonerFacts
  <2>2. phone.next <= 0
    BY <2>1 DEF HoursOK, TimerSet
  <2>3. \/ phone.missed \/ asked > 0
        \/ \E a \in answers : a.next = Never \/ a.next > phone.next
    BY <2>1, <2>2 DEF HoursOK, Waiting
  <2>4. CASE phone.missed \/ asked > 0
    BY <1>1, <1>6, <2>4
  <2>5. CASE \E a \in answers : a.next = Never \/ a.next > phone.next
    <3>1. PICK a \in answers : a.next = Never \/ a.next > phone.next
      BY <2>5
    <3> DEFINE b == older(a)
    <3>2. b \in answers' /\ b.next = Sooner(a.next) /\ a.next \in Int \cup {Never} /\ a.age \in 0 .. MaxDelay
          /\ a.age < MaxDelay
      BY <1>5, <1>8
    <3> HIDE DEF b
    <3>3. CASE a.next = Never
      BY <3>2, <3>3, SoonerFacts
    <3>4. CASE a.next # Never
      <4>1. /\ a.next \in Int /\ a.next > phone.next /\ a.next >= 1 - a.age
            /\ b.next \in {a.next, a.next - 1} /\ (a.next >= -MaxDelay => b.next = a.next - 1)
        BY <3>1, <3>2, <3>4, SoonerFacts DEF HoursOK, AnswersAge
      <4>2. phone.next >= -MaxDelay - 1
        BY <2>1 DEF HoursOK, PhoneFloor
      <4>3. CASE phone.next >= -MaxDelay
        <5>1. b.next > phone'.next
          BY <1>3, <2>1, <4>1, <4>3
        <5> QED
          BY <3>2, <5>1
      <4>4. CASE phone.next < -MaxDelay
        <5>1. a.next >= 2 - MaxDelay
          BY <1>3, <3>2, <4>1
        <5>2. b.next > phone'.next
          BY <1>3, <2>1, <4>1, <4>4, <5>1
        <5> QED
          BY <3>2, <5>2
      <4> QED
        BY <1>3, <2>1, <4>3, <4>4
    <3> QED
      BY <3>3, <3>4
  <2> QED
    BY <2>3, <2>4, <2>5
<1>18. TimerSet'
  <2> SUFFICES ASSUME phone'.next # Never, phone'.next > 0 PROVE phone'.timer
    BY DEF TimerSet
  <2>1. phone.next # Never /\ phone.next \in Int /\ phone'.next \in {phone.next, phone.next - 1}
    BY <1>6, SoonerFacts
  <2> QED
    BY <1>6, <2>1 DEF HoursOK, TimerSet
<1>19. PhoneFloor'
  <2> SUFFICES ASSUME phone'.next # Never PROVE phone'.next >= -MaxDelay - 1
    BY DEF PhoneFloor
  <2>1. /\ phone.next # Never /\ phone.next \in Int
        /\ phone.next >= -MaxDelay => phone'.next = phone.next - 1
        /\ phone.next < -MaxDelay => phone'.next = phone.next
    BY <1>6, SoonerFacts
  <2>2. phone.next >= -MaxDelay - 1
    BY <2>1 DEF HoursOK, PhoneFloor
  <2> QED
    BY <1>3, <2>1, <2>2
<1> QED
  BY <1>10, <1>14, <1>15, <1>16, <1>17, <1>18, <1>19 DEF HoursOK

LEMMA HoursStep == HoursOK /\ [HoursNext]_hoursVars => HoursOK'
<1> SUFFICES ASSUME HoursOK, [HoursNext]_hoursVars PROVE HoursOK'
  OBVIOUS
<1>1. CASE UNCHANGED hoursVars
  <2>1. AcceptingOrders' = AcceptingOrders /\ EvaluateWorkingHours' = EvaluateWorkingHours
    BY <1>1, SameStatus DEF hoursVars
  <2> QED
    BY <1>1, <2>1
       DEF hoursVars, HoursOK, HoursTypes, Saying, AnswersAge, Waiting, TimerSet, PhoneFloor
<1>2. CASE \E on \in BOOLEAN : SetOrderingEnabled(on)
  <2>1. \A on \in BOOLEAN : [settings EXCEPT !.ordering = on] \in Settings
    BY DEF HoursOK, HoursTypes, Settings, Tables, Weekly
  <2> QED
    BY <1>2, <2>1, ChangedOK DEF SetOrderingEnabled
<1>3. CASE \E s \in Settings : UpdateStoreSettings(s)
  BY <1>3, ChangedOK DEF UpdateStoreSettings
<1>4. CASE \E a \in answers : StatusArrives(a) \/ StatusLost(a)
  BY <1>4, StatusArrivesOK, StatusLostOK
<1> QED
  BY <1>1, <1>2, <1>3, <1>4, GetStoreStatusOK, AskingOK, HoursTickOK DEF HoursNext

\* Whatever the weekly table, the delay of the answers and their order: a phone
\* that waits for nothing and has missed nothing knows whether the store accepts
\* orders, across openings, closings, midnight and the end of the week.
THEOREM PhoneKnowsTheHours == HoursSpec => []PhoneFollowsHours
<1>1. HoursOK => PhoneFollowsHours
  <2> SUFFICES ASSUME HoursOK, Outstanding = 0, phone.current, ~phone.missed, ~TimerDue
               PROVE  phone.accepting = AcceptingOrders
    BY DEF PhoneFollowsHours
  <2>1. /\ asked \in Nat /\ IsFiniteSet(answers)
        /\ phone.next \in Int \cup {Never}
    BY DEF HoursOK, HoursTypes, PhoneType
  <2>2. Cardinality(answers) \in Nat
    BY <2>1, FS_CardinalityType
  <2>3. asked = 0 /\ Cardinality(answers) = 0
    BY <2>1, <2>2 DEF Outstanding
  <2>4. answers = {}
    BY <2>1, <2>3, FS_EmptySet
  <2>5. Ahead(phone.next)
    <3> SUFFICES ASSUME phone.next # Never, ~ (phone.next > 0) PROVE FALSE
      BY DEF Ahead
    <3>1. phone.next <= 0
      BY <2>1
    <3>2. ~phone.timer
      BY <3>1 DEF TimerDue
    <3> QED
      BY <2>3, <2>4, <3>1, <3>2 DEF HoursOK, Waiting
  <2> QED
    BY <2>5 DEF HoursOK, Saying
<1> QED
  BY <1>1, HoursInitOK, HoursStep, PTL DEF HoursSpec

-----------------------------------------------------------------------------
(* The sums of the offers *)

\* Units and prices add up to natural numbers.
LEMMA CartSums ==
  ASSUME NEW c \in [Variations -> Nat], NEW lines \in SUBSET Variations
  PROVE  Units(c, lines) \in Nat /\ Subtotal(c, lines) \in Nat
<1>1. IsFiniteSet(lines) /\ PriceOf \in [Variations -> Nat]
  BY FS_Subset, OfferTables
<1>2. Units(c, lines) \in Nat
  <2> DEFINE f == [v \in lines |-> c[v]]
             Fold(iter) == iter = [s \in SUBSET lines |-> IF s = {} THEN 0 ELSE c[Pick(s)] + iter[s \ {Pick(s)}]]
             h == CHOOSE iter : Fold(iter)
  <2>1. Units(c, lines) = h[lines]
    BY DEF Units, MapThenSumSet, MapThenFoldSet, Pick
  <2>2. ASSUME NEW iter
        PROVE  Fold(iter) <=> IsSums(f, lines, iter)
    <3>1. \A s \in SUBSET lines :
            SumStep(f, iter, s) = IF s = {} THEN 0 ELSE c[Pick(s)] + iter[s \ {Pick(s)}]
      <4>1. \A s \in SUBSET lines : s # {} => f[Pick(s)] = c[Pick(s)]
        BY Picked
      <4> HIDE DEF f
      <4> QED
        BY <4>1 DEF SumStep
    <3> DEFINE a == [s \in SUBSET lines |-> IF s = {} THEN 0 ELSE c[Pick(s)] + iter[s \ {Pick(s)}]]
               b == [s \in SUBSET lines |-> SumStep(f, iter, s)]
    <3> HIDE DEF f
    <3>2. a = b
      BY <3>1
    <3>3. Fold(iter) <=> iter = a
      OBVIOUS
    <3>4. IsSums(f, lines, iter) <=> iter = b
      BY DEF IsSums
    <3> HIDE DEF a, b, Fold
    <3> QED
      BY <3>2, <3>3, <3>4
  <2>3. \A v \in lines : f[v] \in Nat
    OBVIOUS
  <2> HIDE DEF Fold, f
  <2>4. \E iter : Fold(iter)
    BY <1>1, <2>2, SumsExist
  <2>5. IsSums(f, lines, h)
    BY <2>2, <2>4
  <2> HIDE DEF h
  <2> QED
    BY <1>1, <2>1, <2>3, <2>5, SumsAdd
<1>3. Subtotal(c, lines) \in Nat
  <2> DEFINE f == [v \in lines |-> PriceOf[v] * c[v]]
             Fold(iter) ==
               iter = [s \in SUBSET lines |-> IF s = {} THEN 0 ELSE PriceOf[Pick(s)] * c[Pick(s)] + iter[s \ {Pick(s)}]]
             h == CHOOSE iter : Fold(iter)
  <2>1. Subtotal(c, lines) = h[lines]
    BY DEF Subtotal, MapThenSumSet, MapThenFoldSet, Pick
  <2>2. ASSUME NEW iter
        PROVE  Fold(iter) <=> IsSums(f, lines, iter)
    <3>1. \A s \in SUBSET lines :
            SumStep(f, iter, s) = IF s = {} THEN 0 ELSE PriceOf[Pick(s)] * c[Pick(s)] + iter[s \ {Pick(s)}]
      <4>1. \A s \in SUBSET lines : s # {} => f[Pick(s)] = PriceOf[Pick(s)] * c[Pick(s)]
        BY Picked
      <4> HIDE DEF f
      <4> QED
        BY <4>1 DEF SumStep
    <3> DEFINE a == [s \in SUBSET lines |-> IF s = {} THEN 0 ELSE PriceOf[Pick(s)] * c[Pick(s)] + iter[s \ {Pick(s)}]]
               b == [s \in SUBSET lines |-> SumStep(f, iter, s)]
    <3> HIDE DEF f
    <3>2. a = b
      BY <3>1
    <3>3. Fold(iter) <=> iter = a
      OBVIOUS
    <3>4. IsSums(f, lines, iter) <=> iter = b
      BY DEF IsSums
    <3> HIDE DEF a, b, Fold
    <3> QED
      BY <3>2, <3>3, <3>4
  <2>3. \A v \in lines : f[v] \in Nat
    BY <1>1
  <2> HIDE DEF Fold, f
  <2>4. \E iter : Fold(iter)
    BY <1>1, <2>2, SumsExist
  <2>5. IsSums(f, lines, h)
    BY <2>2, <2>4
  <2> HIDE DEF h
  <2> QED
    BY <1>1, <2>1, <2>3, <2>5, SumsAdd
<1> QED
  BY <1>2, <1>3

\* So do the cheapest units.
LEMMA CheapestNat ==
  ASSUME NEW c \in [Variations -> Nat], NEW lines \in SUBSET Variations, NEW k \in Int
  PROVE  Cheapest(c, lines, k) \in Nat
<1> DEFINE costing(p) == {v \in lines : PriceOf[v] = p}
           below(p) == Units(c, {v \in lines : PriceOf[v] < p})
           taken(p) == Min({Units(c, costing(p)), Max({k - below(p), 0})})
           prices == {PriceOf[v] : v \in lines}
           f == [p \in prices |-> p * taken(p)]
           Fold(iter) ==
             iter = [s \in SUBSET prices |-> IF s = {} THEN 0 ELSE Pick(s) * taken(Pick(s)) + iter[s \ {Pick(s)}]]
           h == CHOOSE iter : Fold(iter)
<1>1. IsFiniteSet(lines) /\ PriceOf \in [Variations -> Nat]
  BY FS_Subset, OfferTables
<1>2. IsFiniteSet(prices)
  <2> DEFINE price == [v \in lines |-> PriceOf[v]]
  <2>1. price \in [lines -> prices] /\ prices = {price[v] : v \in lines}
    OBVIOUS
  <2> HIDE DEF price, prices
  <2> QED
    BY <1>1, <2>1, MappedFinite
<1>3. prices \subseteq Nat
  BY <1>1
<1>4. ASSUME NEW p \in prices
      PROVE  taken(p) \in Nat
  <2>1. below(p) \in Nat /\ Units(c, costing(p)) \in Nat
    BY CartSums
  <2> HIDE DEF below, costing
  <2>2. Max({k - below(p), 0}) \in Nat
    <3>1. k - below(p) \in Int /\ 0 \in Int
      BY <2>1
    <3> QED
      BY <3>1, MaxMin
  <2>3. taken(p) = Min({Units(c, costing(p)), Max({k - below(p), 0})})
    OBVIOUS
  <2> DEFINE u == Units(c, costing(p))
             m == Max({k - below(p), 0})
  <2> HIDE DEF taken, u, m
  <2>4. u \in Nat /\ m \in Nat /\ taken(p) = Min({u, m})
    BY <2>1, <2>2, <2>3 DEF u, m
  <2>5. Min({u, m}) = IF u <= m THEN u ELSE m
    BY <2>4, MaxMin
  <2> QED
    BY <2>4, <2>5
<1>5. Cheapest(c, lines, k) = h[prices]
  BY DEF Cheapest, MapThenSumSet, MapThenFoldSet, Pick
<1> HIDE DEF taken, prices
<1>6. ASSUME NEW iter
      PROVE  Fold(iter) <=> IsSums(f, prices, iter)
  <2>1. \A s \in SUBSET prices :
          SumStep(f, iter, s) = IF s = {} THEN 0 ELSE Pick(s) * taken(Pick(s)) + iter[s \ {Pick(s)}]
    <3>1. \A s \in SUBSET prices : s # {} => f[Pick(s)] = Pick(s) * taken(Pick(s))
      BY Picked
    <3> HIDE DEF f
    <3> QED
      BY <3>1 DEF SumStep
  <2> DEFINE a == [s \in SUBSET prices |-> IF s = {} THEN 0 ELSE Pick(s) * taken(Pick(s)) + iter[s \ {Pick(s)}]]
             b == [s \in SUBSET prices |-> SumStep(f, iter, s)]
  <2> HIDE DEF f
  <2>2. a = b
    BY <2>1
  <2>3. Fold(iter) <=> iter = a
    OBVIOUS
  <2>4. IsSums(f, prices, iter) <=> iter = b
    BY DEF IsSums
  <2> HIDE DEF a, b, Fold
  <2> QED
    BY <2>2, <2>3, <2>4
<1>7. \A p \in prices : f[p] \in Nat
  BY <1>3, <1>4
<1> HIDE DEF Fold, f
<1>8. \E iter : Fold(iter)
  BY <1>2, <1>6, SumsExist
<1>9. IsSums(f, prices, h)
  BY <1>6, <1>8
<1> HIDE DEF h
<1> QED
  BY <1>2, <1>5, <1>7, <1>9, SumsAdd

\* A finite set of numbers has a largest one.
LEMMA LargestOf ==
  ASSUME NEW S, IsFiniteSet(S), S \subseteq Int, S # {}
  PROVE  Max(S) \in S /\ \A x \in S : x <= Max(S)
<1> DEFINE Tops(s) == \E m \in s : \A x \in s : x <= m
           wrong == {s \in SUBSET S : s # {} /\ ~Tops(s)}
<1>1. ASSUME wrong # {}
      PROVE  FALSE
  <2>1. PICK s \in wrong : \A x \in s : s \ {x} \notin wrong
    <3>1. wrong \subseteq SUBSET S
      OBVIOUS
    <3> HIDE DEF wrong
    <3> QED
      BY <1>1, <3>1, SmallestSet
  <2>2. PICK x \in s : TRUE
    OBVIOUS
  <2>3. CASE s \ {x} = {}
    BY <2>2, <2>3
  <2>4. CASE s \ {x} # {}
    <3>1. PICK m \in s \ {x} : \A y \in s \ {x} : y <= m
      BY <2>1, <2>2, <2>4
    <3>2. \A y \in s : y <= IF m <= x THEN x ELSE m
      BY <3>1
    <3> QED
      BY <2>1, <2>2, <3>1, <3>2
  <2> QED
    BY <2>3, <2>4
<1>2. \E m \in S : \A x \in S : x <= m
  BY <1>1
<1>3. \E m \in S : \A x \in S : m >= x
  BY <1>2
<1>4. Max(S) \in S /\ \A x \in S : Max(S) >= x
  BY <1>3 DEF Max
<1> QED
  BY <1>4

LEMMA PercentageInt ==
  ASSUME NEW percent \in Int, NEW amount \in Int
  PROVE  PercentageDiscount(percent, amount) \in Int
<1> DEFINE m == Min({percent, 100})
           n == amount * m
<1>1. m \in Int
  BY MaxMin
<1> HIDE DEF m
<1>2. n \in Int
  BY <1>1
<1>3. PercentageDiscount(percent, amount) =
        LET q == n \div 100
            r == n % 100
        IN IF r > 50 \/ (r = 50 /\ q % 2 = 1) THEN q + 1 ELSE q
  BY DEF PercentageDiscount, m
<1> HIDE DEF n
<1> QED
  BY <1>2, <1>3

LEMMA LinesOf == \A c, targets : Matching(c, targets) \in SUBSET Variations /\ Lines(c) \in SUBSET Variations
  BY DEF Matching, Lines

\* What the server needs of a row to compute with it.
SoundRow(row) == row \in OfferRow /\ RowAccepted(row)

LEMMA BuyGetInt ==
  ASSUME NEW row, SoundRow(row), row.type = "BUY_N_GET_M_FREE", NEW c \in Carts
  PROVE  BuyGetDiscount(row, c) \in Nat
<1>1. c \in [Variations -> Nat]
  BY OfferTables
<1>2. row.buy \in Nat \ {0} /\ row.free \in Nat \ {0}
  BY DEF SoundRow, OfferRow, RowAccepted, BuyGetComplete
<1> DEFINE b == Units(c, Matching(c, BuyFrom(row)))
           f == Units(c, Matching(c, FreeFrom(row)))
           n == row.buy
           m == row.free
           bundles == IF BuyFrom(row) = FreeFrom(row) THEN b \div (n + m) ELSE Min({b \div n, f \div m})
<1>3. b \in Nat /\ f \in Nat
  BY <1>1, LinesOf, CartSums
<1>4. n \in Nat \ {0} /\ m \in Nat \ {0}
  BY <1>2
<1>5. BuyGetDiscount(row, c) = Cheapest(c, Matching(c, FreeFrom(row)), bundles * m)
  BY DEF BuyGetDiscount
<1> HIDE DEF b, f, n, m
<1>6. b \div n \in Int /\ f \div m \in Int /\ b \div (n + m) \in Int
  BY <1>3, <1>4
<1>7. Min({b \div n, f \div m}) \in Int
  BY <1>6, MaxMin
<1>8. bundles \in Int
  BY <1>6, <1>7
<1> HIDE DEF bundles
<1>9. bundles * m \in Int
  BY <1>4, <1>8
<1> QED
  BY <1>1, <1>5, <1>9, LinesOf, CheapestNat

LEMMA DiscountInt ==
  ASSUME NEW row, SoundRow(row), NEW c \in Carts, ~FreesDelivery(row)
  PROVE  Discount(row, c) \in Int
<1> DEFINE total == Subtotal(c, Lines(c))
           matching == Matching(c, row.scope)
           matched == Subtotal(c, matching)
           base == IF matched > 0 THEN matched ELSE total
<1>1. c \in [Variations -> Nat]
  BY OfferTables
<1>2. total \in Nat /\ matched \in Nat
  BY <1>1, LinesOf, CartSums
<1>3. base \in Int /\ total \in Int
  BY <1>2
<1>4. Discount(row, c) =
        CASE row.type = "FREE_DELIVERY_ABOVE_AMOUNT" ->
                  IF FreesDelivery(row) THEN 0 ELSE PercentageDiscount(row.percent, total)
          [] row.type = "BUY_N_GET_M_FREE" -> BuyGetDiscount(row, c)
          [] row.type = "FIRST_TIME_FREE_ITEM" -> Cheapest(c, matching, 1)
          [] OTHER -> PercentageDiscount(row.value, base)
  BY DEF Discount
<1> HIDE DEF total, base
<1>5. CASE row.type = "FREE_DELIVERY_ABOVE_AMOUNT"
  <2>1. row.percent \in Int
    BY <1>5, OfferTables DEF SoundRow, OfferRow, RowAccepted, FreeDeliveryComplete, FreesDelivery, FreeDeliveryMode
  <2>2. PercentageDiscount(row.percent, total) \in Int
    BY <1>3, <2>1, PercentageInt
  <2> QED
    BY <1>4, <1>5, <2>2
<1>6. CASE row.type = "BUY_N_GET_M_FREE"
  BY <1>4, <1>6, BuyGetInt
<1>7. CASE row.type = "FIRST_TIME_FREE_ITEM"
  <2>1. Cheapest(c, matching, 1) \in Nat
    BY <1>1, LinesOf, CheapestNat
  <2> QED
    BY <1>4, <1>7, <2>1
<1>8. CASE row.type \notin {"FREE_DELIVERY_ABOVE_AMOUNT", "BUY_N_GET_M_FREE", "FIRST_TIME_FREE_ITEM"}
  <2>1. row.value \in Int
    BY DEF SoundRow, OfferRow
  <2>2. PercentageDiscount(row.value, base) \in Int
    BY <1>3, <2>1, PercentageInt
  <2> QED
    BY <1>4, <1>8, <2>2
<1> QED
  BY <1>5, <1>6, <1>7, <1>8

\* What the offers take off, when it is a number, is no less with one more row.
LEMMA OneMoreRow ==
  ASSUME NEW others, IsFiniteSet(others), \A r \in others : SoundRow(r), NEW row, SoundRow(row),
         NEW c \in Carts, NEW type, NEW customer
  PROVE  Charge(others \cup {row}, c, type, customer) <= Charge(others, c, type, customer)
<1> DEFINE more == others \cup {row}
           all(rows) == {r \in rows : Eligible(r, c, type, customer)}
           paying(rows) == {r \in all(rows) : ~FreesDelivery(r)}
           discounts(rows) == {Discount(r, c) : r \in paying(rows)}
           best(rows) == IF discounts(rows) = {} THEN 0 ELSE Max(discounts(rows))
           free(rows) == \E r \in all(rows) : FreesDelivery(r)
           subtotal == Subtotal(c, Lines(c))
           fee(rows) == IF type = "pickup" \/ free(rows) THEN 0 ELSE DeliveryFee
           off(rows) == Min({subtotal, Max({0, best(rows)})})
<1>1. \A rows : Charge(rows, c, type, customer) = subtotal - off(rows) + fee(rows)
  BY DEF Charge, EvaluatePromotions
<1>2. IsFiniteSet(more) /\ \A r \in more : SoundRow(r)
  BY FS_AddElement
<1>3. ASSUME NEW rows, IsFiniteSet(rows), \A r \in rows : SoundRow(r)
      PROVE  /\ IsFiniteSet(discounts(rows)) /\ discounts(rows) \subseteq Int
             /\ best(rows) \in Int
             /\ \A d \in discounts(rows) : d <= best(rows)
             /\ discounts(rows) # {} => best(rows) \in discounts(rows)
  <2>1. IsFiniteSet(paying(rows))
    BY <1>3, FS_Subset
  <2>2. IsFiniteSet(discounts(rows))
    <3> DEFINE value == [r \in paying(rows) |-> Discount(r, c)]
    <3>1. value \in [paying(rows) -> discounts(rows)] /\ discounts(rows) = {value[r] : r \in paying(rows)}
      OBVIOUS
    <3> HIDE DEF value, discounts, paying
    <3> QED
      BY <2>1, <3>1, MappedFinite
  <2>3. \A r \in paying(rows) : Discount(r, c) \in Int
    BY <1>3, DiscountInt
  <2>4. discounts(rows) \subseteq Int
    BY <2>3
  <2> HIDE DEF discounts, paying, all
  <2>5. discounts(rows) # {} => Max(discounts(rows)) \in discounts(rows)
                                /\ \A d \in discounts(rows) : d <= Max(discounts(rows))
    BY <2>2, <2>4, LargestOf
  <2> QED
    BY <2>2, <2>4, <2>5
<1>4. all(others) \subseteq all(more) /\ paying(others) \subseteq paying(more)
  OBVIOUS
<1>5. discounts(others) \subseteq discounts(more)
  BY <1>4
<1>6. best(others) \in Int /\ best(more) \in Int
  BY <1>2, <1>3
<1>7. discounts(others) = {} => best(others) = 0
  OBVIOUS
<1>8. discounts(others) # {} => best(others) <= best(more)
  <2> HIDE DEF discounts, best
  <2> QED
    BY <1>2, <1>3, <1>5
<1>9. fee(more) <= fee(others) /\ fee(more) \in Int /\ fee(others) \in Int
  <2>1. free(others) => free(more)
    BY <1>4
  <2>2. DeliveryFee \in Nat
    BY OfferTables
  <2> HIDE DEF free
  <2> QED
    BY <2>1, <2>2
<1>10. subtotal \in Nat
  BY OfferTables, LinesOf, CartSums
<1> HIDE DEF subtotal, fee, best, discounts
<1>11. /\ Max({0, best(others)}) = IF 0 >= best(others) THEN 0 ELSE best(others)
       /\ Max({0, best(more)}) = IF 0 >= best(more) THEN 0 ELSE best(more)
  BY <1>6, MaxMin
<1> DEFINE a == Max({0, best(others)})
           b == Max({0, best(more)})
<1>12. a \in Int /\ b \in Int /\ a <= b
  BY <1>6, <1>7, <1>8, <1>11
<1>13. /\ off(others) = Min({subtotal, a})
       /\ off(more) = Min({subtotal, b})
  OBVIOUS
<1> HIDE DEF a, b, off
<1>14. /\ off(others) = IF subtotal <= a THEN subtotal ELSE a
       /\ off(more) = IF subtotal <= b THEN subtotal ELSE b
  <2>1. subtotal \in Int
    BY <1>10
  <2>2. Min({subtotal, a}) = IF subtotal <= a THEN subtotal ELSE a
    BY <1>12, <2>1, MaxMin
  <2>3. Min({subtotal, b}) = IF subtotal <= b THEN subtotal ELSE b
    BY <1>12, <2>1, MaxMin
  <2> QED
    BY <1>13, <2>2, <2>3
<1>15. off(others) <= off(more) /\ off(others) \in Int /\ off(more) \in Int
  BY <1>10, <1>12, <1>14
<1>16. subtotal - off(more) + fee(more) <= subtotal - off(others) + fee(others)
  BY <1>9, <1>10, <1>15
<1> QED
  BY <1>1, <1>16

-----------------------------------------------------------------------------
(* The rows the server stores *)

OfferFields == {"type", "value", "window", "active", "required", "buy", "free", "mode", "percent", "rule",
                "scope", "buyFrom", "freeFrom"}

\* What the fields of a row hold.
LEMMA OfferRowFields ==
  ASSUME NEW row \in OfferRow
  PROVE  /\ DOMAIN row = OfferFields
         /\ row.type \in {"TEMPORARY", "LOYALTY", "BUY_N_GET_M_FREE", "FREE_DELIVERY_ABOVE_AMOUNT"} \cup FirstTime
         /\ row.value \in Int /\ row.window \in {"live", "upcoming", "expired"} /\ row.active \in BOOLEAN
         /\ row.required \in Nat \cup {None}
         /\ row.buy \in (Nat \ {0}) \cup {None} /\ row.free \in (Nat \ {0}) \cup {None}
         /\ row.mode \in {"FREE_DELIVERY", "PERCENTAGE_DISCOUNT", None} /\ row.percent \in Int \cup {None}
         /\ row.rule \in BOOLEAN
         /\ row.scope \in SUBSET Entries /\ row.buyFrom \in SUBSET Entries /\ row.freeFrom \in SUBSET Entries
  BY DEF OfferRow, OfferFields

\* What Normalized makes of each field.
LEMMA NormalizedFields ==
  ASSUME NEW merged \in OfferRow, NEW groups,
         groups.scope \in SUBSET Entries, groups.buyFrom \in SUBSET Entries, groups.freeFrom \in SUBSET Entries
  PROVE  LET new == Normalized(merged, groups)
             buyGet == merged.type = "BUY_N_GET_M_FREE"
             freeDelivery == merged.type = "FREE_DELIVERY_ABOVE_AMOUNT"
             percentage == freeDelivery /\ FreeDeliveryMode(merged) = "PERCENTAGE_DISCOUNT"
         IN  /\ new \in OfferRow
             /\ new.type = merged.type /\ new.window = merged.window /\ new.active = merged.active
             /\ new.scope = groups.scope /\ new.buyFrom = groups.buyFrom /\ new.freeFrom = groups.freeFrom
             /\ new.buy = IF buyGet THEN merged.buy ELSE None
             /\ new.free = IF buyGet THEN merged.free ELSE None
             /\ new.mode = IF freeDelivery THEN FreeDeliveryMode(merged) ELSE None
             /\ new.percent = IF percentage THEN merged.percent ELSE None
             /\ new.required = IF freeDelivery \/ merged.type \in FirstTime THEN None ELSE merged.required
             /\ new.rule = (merged.type = "LOYALTY" /\ merged.rule)
             /\ new.value = IF buyGet \/ merged.type = "FIRST_TIME_FREE_ITEM" THEN 0 ELSE merged.value
<1> DEFINE new == Normalized(merged, groups)
           buyGet == merged.type = "BUY_N_GET_M_FREE"
           freeDelivery == merged.type = "FREE_DELIVERY_ABOVE_AMOUNT"
           percentage == freeDelivery /\ FreeDeliveryMode(merged) = "PERCENTAGE_DISCOUNT"
           buy == IF buyGet THEN merged.buy ELSE None
           free == IF buyGet THEN merged.free ELSE None
           mode == IF freeDelivery THEN FreeDeliveryMode(merged) ELSE None
           percent == IF percentage THEN merged.percent ELSE None
           required == IF freeDelivery \/ merged.type \in FirstTime THEN None ELSE merged.required
           rule == merged.type = "LOYALTY" /\ merged.rule
           value == IF buyGet \/ merged.type = "FIRST_TIME_FREE_ITEM" THEN 0 ELSE merged.value
<1>1. new = [merged EXCEPT !.scope = groups.scope, !.buyFrom = groups.buyFrom, !.freeFrom = groups.freeFrom,
                           !.buy = buy, !.free = free, !.mode = mode, !.percent = percent,
                           !.required = required, !.rule = rule, !.value = value]
  BY DEF Normalized
<1>2. /\ buy \in (Nat \ {0}) \cup {None} /\ free \in (Nat \ {0}) \cup {None}
      /\ percent \in Int \cup {None} /\ required \in Nat \cup {None} /\ rule \in BOOLEAN /\ value \in Int
  BY OfferRowFields
<1>3. mode \in {"FREE_DELIVERY", "PERCENTAGE_DISCOUNT", None}
  BY OfferRowFields DEF FreeDeliveryMode
<1> HIDE DEF new, buy, free, mode, percent, required, rule, value
<1>4. /\ new \in OfferRow
      /\ new.type = merged.type /\ new.window = merged.window /\ new.active = merged.active
      /\ new.scope = groups.scope /\ new.buyFrom = groups.buyFrom /\ new.freeFrom = groups.freeFrom
      /\ new.buy = buy /\ new.free = free /\ new.mode = mode /\ new.percent = percent
      /\ new.required = required /\ new.rule = rule /\ new.value = value
  <2>1. DOMAIN merged = OfferFields
    BY OfferRowFields
  <2>2. new = [f \in OfferFields |->
                CASE f = "scope" -> groups.scope [] f = "buyFrom" -> groups.buyFrom
                  [] f = "freeFrom" -> groups.freeFrom [] f = "buy" -> buy [] f = "free" -> free
                  [] f = "mode" -> mode [] f = "percent" -> percent [] f = "required" -> required
                  [] f = "rule" -> rule [] f = "value" -> value [] OTHER -> merged[f]]
    BY <1>1, <2>1 DEF OfferFields
  <2>3. new = [type |-> merged.type, value |-> value, window |-> merged.window, active |-> merged.active,
               required |-> required, buy |-> buy, free |-> free, mode |-> mode, percent |-> percent,
               rule |-> rule, scope |-> groups.scope, buyFrom |-> groups.buyFrom, freeFrom |-> groups.freeFrom]
    BY <2>2 DEF OfferFields
  <2> QED
    BY <1>2, <1>3, <2>3, OfferRowFields DEF OfferRow
<1> QED
  BY <1>4 DEF new, buy, free, mode, percent, required, rule, value

\* A row that was accepted is sound once normalized.
LEMMA NormalizedSound ==
  ASSUME NEW merged \in OfferRow, RowAccepted(merged), NEW groups,
         groups.scope \in SUBSET Entries, groups.buyFrom \in SUBSET Entries, groups.freeFrom \in SUBSET Entries
  PROVE  SoundRow(Normalized(merged, groups))
<1> DEFINE new == Normalized(merged, groups)
<1>1. new \in OfferRow /\ new.type = merged.type
  BY NormalizedFields
<1>2. BuyGetComplete(new)
  <2>1. new.type = "BUY_N_GET_M_FREE" => new.buy = merged.buy /\ new.free = merged.free
    BY <1>1, NormalizedFields
  <2> HIDE DEF new
  <2> QED
    BY <1>1, <2>1 DEF BuyGetComplete, RowAccepted
<1>3. FreeDeliveryComplete(new)
  <2>1. new.type = "FREE_DELIVERY_ABOVE_AMOUNT" => new.mode = FreeDeliveryMode(merged)
    BY <1>1, NormalizedFields
  <2>2. new.type = "FREE_DELIVERY_ABOVE_AMOUNT" /\ FreeDeliveryMode(merged) = "PERCENTAGE_DISCOUNT" => new.percent = merged.percent
    BY <1>1, NormalizedFields
  <2>3. FreeDeliveryMode(merged) # None
    BY OfferTables, OfferRowFields DEF FreeDeliveryMode
  <2> HIDE DEF new
  <2>4. new.type = "FREE_DELIVERY_ABOVE_AMOUNT" => FreeDeliveryMode(new) = FreeDeliveryMode(merged)
    BY <2>1, <2>3 DEF FreeDeliveryMode
  <2> QED
    BY <1>1, <2>2, <2>4 DEF FreeDeliveryComplete, RowAccepted
<1>4. ValueAccepted(new)
  <2>1. new.type \notin {"BUY_N_GET_M_FREE", "FIRST_TIME_FREE_ITEM"} => new.value = merged.value
    BY <1>1, NormalizedFields
  <2> HIDE DEF new
  <2> QED
    BY <1>1, <2>1 DEF ValueAccepted, RowAccepted
<1> QED
  BY <1>1, <1>2, <1>3, <1>4 DEF SoundRow, RowAccepted

\* Targets stay entries of the menu when they are regrouped.
LEMMA GroupsOf ==
  ASSUME NEW merged \in OfferRow
  PROVE  LET groups == NormalizeTargetGroups(merged)
         IN  groups.scope \in SUBSET Entries /\ groups.buyFrom \in SUBSET Entries /\ groups.freeFrom \in SUBSET Entries
  BY OfferRowFields DEF NormalizeTargetGroups, Groups

-----------------------------------------------------------------------------
(* The editor's forms *)

Behaviors == {"FIXED_DISCOUNT", "BUY_N_GET_M_FREE", "FREE_DELIVERY_ABOVE_AMOUNT", "FIRST_TIME_FREE_ITEM"}
TargetModes == [Groups -> {"WHOLE_MENU", "SPECIFIC_TARGETS"}]
TargetLists == [Groups -> SUBSET (Entries \cup Subgroups)]

Forms ==
  [behavior : Behaviors, eligibility : {"EVERYONE", "NEW_CUSTOMERS", "AFTER_ORDER_COUNT"},
   value : Int \cup {None}, window : {"live", "upcoming", "expired"}, active : BOOLEAN,
   required : Nat \cup {None}, buy : Nat \cup {None}, free : Nat \cup {None},
   mode : {"FREE_DELIVERY", "PERCENTAGE_DISCOUNT"}, percent : Int \cup {None},
   targets : TargetLists, modes : TargetModes]

Sheets ==
  [stage : {"open", "refreshing", "sending"}, form : Forms, row : OfferRow \cup {None}, menu : SUBSET Entries,
   edits : Nat, initial : (Behaviors \X TargetModes \X TargetLists) \cup {None}]

\* What a screen opened on the row compares its targets with.
Opened(row) == IF row = None THEN None ELSE Signature(FormOf(row))

OpenEditors == {e \in Sheets : e.initial = Opened(e.row)}
SentEditors == {e \in OpenEditors : CanSave(e.form)}

\* While the editor is open the stored row is the one it was opened on, and the menu
\* has only lost entries since it was read.
EditorOK ==
  /\ editor \in OpenEditors
  /\ editor.row = offer
  /\ entries \subseteq editor.menu

\* The same of the save under way, whose row may have been deleted since, and which
\* passed the editor's checks.
SentOK ==
  /\ sent \in SentEditors
  /\ sent.row = offer \/ offer = None
  /\ entries \subseteq sent.menu

OffersOK ==
  /\ offer # None => SoundRow(offer)
  /\ entries \subseteq Entries
  /\ editor = Closed \/ EditorOK
  /\ sent = NoSave \/ SentOK

LEMMA EmptyFormOK == EmptyForm \in Forms
  BY DEF EmptyForm, Forms, Behaviors, TargetModes, TargetLists

LEMMA FormOfOK ==
  ASSUME NEW row \in OfferRow
  PROVE  /\ FormOf(row) \in Forms
         /\ FormOf(row).behavior = InferBehavior(row)
         /\ FormOf(row).targets =
              [g \in Groups |-> IF g # "scope" /\ row[g] = {} /\ row.type = "BUY_N_GET_M_FREE" THEN row.scope ELSE row[g]]
         /\ FormOf(row).modes =
              [g \in Groups |-> IF FormOf(row).targets[g] # {} THEN "SPECIFIC_TARGETS" ELSE "WHOLE_MENU"]
<1> DEFINE targets ==
             [g \in Groups |-> IF g # "scope" /\ row[g] = {} /\ row.type = "BUY_N_GET_M_FREE" THEN row.scope ELSE row[g]]
           modes == [g \in Groups |-> IF targets[g] # {} THEN "SPECIFIC_TARGETS" ELSE "WHOLE_MENU"]
           behavior == InferBehavior(row)
           eligibility == InferEligibility(row)
           mode == IF row.mode = "PERCENTAGE_DISCOUNT" THEN row.mode ELSE "FREE_DELIVERY"
<1>1. FormOf(row) =
        [EmptyForm EXCEPT !.behavior = behavior, !.eligibility = eligibility,
            !.value = row.value, !.window = row.window, !.active = row.active, !.required = row.required,
            !.buy = row.buy, !.free = row.free, !.mode = mode, !.percent = row.percent, !.targets = targets,
            !.modes = modes]
  BY DEF FormOf
<1>2. targets \in TargetLists /\ modes \in TargetModes
  <2>1. \A g \in Groups : row[g] \in SUBSET Entries
    BY OfferRowFields DEF Groups
  <2>2. row.scope \in SUBSET Entries
    BY OfferRowFields
  <2> QED
    BY <2>1, <2>2 DEF TargetLists, TargetModes
<1>3. /\ behavior \in Behaviors /\ eligibility \in {"EVERYONE", "NEW_CUSTOMERS", "AFTER_ORDER_COUNT"}
      /\ mode \in {"FREE_DELIVERY", "PERCENTAGE_DISCOUNT"}
  BY DEF InferBehavior, InferEligibility, Behaviors
<1> HIDE DEF targets, modes, behavior, eligibility, mode
<1>4. /\ FormOf(row) \in Forms /\ FormOf(row).behavior = behavior
      /\ FormOf(row).targets = targets /\ FormOf(row).modes = modes
  BY <1>1, <1>2, <1>3, EmptyFormOK, OfferRowFields DEF Forms
<1> QED
  BY <1>4 DEF targets, modes, behavior

LEMMA SignatureOK ==
  ASSUME NEW form \in Forms
  PROVE  Signature(form) \in Behaviors \X TargetModes \X TargetLists
  BY DEF Signature, Forms

LEMMA OpenedOK ==
  ASSUME NEW row \in OfferRow \cup {None}
  PROVE  Opened(row) \in (Behaviors \X TargetModes \X TargetLists) \cup {None}
  BY FormOfOK, SignatureOK DEF Opened

-----------------------------------------------------------------------------
(* Editing keeps the form in shape *)

\* What the fields of a form hold.
LEMMA FormFields ==
  ASSUME NEW form \in Forms
  PROVE  /\ form.behavior \in Behaviors /\ form.eligibility \in {"EVERYONE", "NEW_CUSTOMERS", "AFTER_ORDER_COUNT"}
         /\ form.value \in Int \cup {None} /\ form.window \in {"live", "upcoming", "expired"}
         /\ form.active \in BOOLEAN /\ form.required \in Nat \cup {None}
         /\ form.buy \in Nat \cup {None} /\ form.free \in Nat \cup {None}
         /\ form.mode \in {"FREE_DELIVERY", "PERCENTAGE_DISCOUNT"} /\ form.percent \in Int \cup {None}
         /\ form.targets \in TargetLists /\ form.modes \in TargetModes
  BY DEF Forms

\* A step that leaves the server and the save under way alone keeps what they owe.
LEMMA ServerStays ==
  ASSUME OffersOK, UNCHANGED <<offer, entries>>
  PROVE  /\ (offer # None => SoundRow(offer))'
         /\ (entries \subseteq Entries)'
         /\ UNCHANGED sent => (sent = NoSave \/ SentOK)'
         /\ UNCHANGED editor => (editor = Closed \/ EditorOK)'
<1>1. offer' = offer /\ entries' = entries
  OBVIOUS
<1>2. UNCHANGED sent => (SentOK => SentOK')
  BY <1>1 DEF SentOK
<1>3. UNCHANGED editor => (EditorOK => EditorOK')
  BY <1>1 DEF EditorOK
<1> QED
  BY <1>1, <1>2, <1>3 DEF OffersOK, NoSave, Closed

\* An edit into a form keeps the invariant.
LEMMA EditOK ==
  ASSUME OffersOK, editor # Closed, NEW form \in Forms, Edit(form)
  PROVE  OffersOK'
<1>1. /\ editor' = [editor EXCEPT !.form = form, !.edits = @ + 1]
      /\ UNCHANGED <<offer, entries, sent>>
  BY DEF Edit, offerVars
<1>2. EditorOK
  BY DEF OffersOK
<1>3. editor' \in OpenEditors /\ editor'.row = editor.row /\ editor'.menu = editor.menu
  <2> DEFINE edits == editor.edits + 1
  <2>1. editor \in OpenEditors /\ edits \in Nat
    BY <1>2 DEF EditorOK, OpenEditors, Sheets
  <2>2. editor' = [editor EXCEPT !.form = form, !.edits = edits]
    BY <1>1, <2>1 DEF OpenEditors, Sheets
  <2> HIDE DEF edits
  <2> QED
    BY <2>1, <2>2 DEF OpenEditors, Sheets
<1>4. EditorOK'
  BY <1>1, <1>2, <1>3 DEF EditorOK
<1> QED
  BY <1>1, <1>4, ServerStays DEF OffersOK

LEMMA EditFormOK ==
  ASSUME OffersOK, editor # Closed, EditForm
  PROVE  OffersOK'
<1> DEFINE form == editor.form
<1>1. form \in Forms /\ editor.menu \in SUBSET Entries
  BY DEF OffersOK, EditorOK, OpenEditors, Sheets
<1>2. form.targets \in TargetLists /\ form.modes \in TargetModes
  BY <1>1, FormFields
<1> SUFFICES \E new \in Forms : Edit(new)
  BY EditOK
<1>3. CASE \E b \in Behaviors : SelectBehavior(b)
  <2>1. PICK b \in Behaviors : SelectBehavior(b)
    BY <1>3
  <2> DEFINE eligibility ==
               CASE b = "FIRST_TIME_FREE_ITEM" -> "NEW_CUSTOMERS"
                 [] b = "FIXED_DISCOUNT" -> form.eligibility
                 [] b = "BUY_N_GET_M_FREE" -> IF form.eligibility = "NEW_CUSTOMERS" THEN "EVERYONE" ELSE form.eligibility
                 [] OTHER -> "EVERYONE"
             value == IF b \in {"BUY_N_GET_M_FREE", "FIRST_TIME_FREE_ITEM"} THEN None ELSE form.value
             buy == IF b = "BUY_N_GET_M_FREE" THEN form.buy ELSE None
             free == IF b = "BUY_N_GET_M_FREE" THEN form.free ELSE None
             mode == IF b = "FREE_DELIVERY_ABOVE_AMOUNT" THEN form.mode ELSE "FREE_DELIVERY"
             percent == IF b = "FREE_DELIVERY_ABOVE_AMOUNT" THEN form.percent ELSE None
             new == [form EXCEPT !.behavior = b, !.eligibility = eligibility, !.value = value,
                                 !.buy = buy, !.free = free, !.mode = mode, !.percent = percent]
  <2>2. Edit(new)
    BY <1>1, <2>1 DEF SelectBehavior, Forms
  <2>3. /\ eligibility \in {"EVERYONE", "NEW_CUSTOMERS", "AFTER_ORDER_COUNT"} /\ value \in Int \cup {None}
        /\ buy \in Nat \cup {None} /\ free \in Nat \cup {None}
        /\ mode \in {"FREE_DELIVERY", "PERCENTAGE_DISCOUNT"} /\ percent \in Int \cup {None}
    BY <1>1, FormFields DEF Behaviors
  <2> HIDE DEF eligibility, value, buy, free, mode, percent
  <2> DEFINE half == [form EXCEPT !.behavior = b, !.eligibility = eligibility, !.value = value]
  <2>4. half \in Forms
    BY <1>1, <2>3 DEF Forms
  <2>5. new = [half EXCEPT !.buy = buy, !.free = free, !.mode = mode, !.percent = percent]
    BY <1>1 DEF Forms
  <2> HIDE DEF half
  <2>6. new \in Forms
    BY <2>3, <2>4, <2>5 DEF Forms
  <2> QED
    BY <2>2, <2>6
<1>4. CASE \E e \in {"EVERYONE", "NEW_CUSTOMERS", "AFTER_ORDER_COUNT"} : SelectEligibility(e)
  <2>1. PICK e \in {"EVERYONE", "NEW_CUSTOMERS", "AFTER_ORDER_COUNT"} : SelectEligibility(e)
    BY <1>4
  <2> DEFINE new == [form EXCEPT !.eligibility = e, !.required = IF e = "AFTER_ORDER_COUNT" THEN @ ELSE None]
  <2>2. Edit(new)
    BY <2>1 DEF SelectEligibility
  <2>3. new \in Forms
    BY <1>1 DEF Forms
  <2> QED
    BY <2>2, <2>3
<1>5. CASE \E v \in Values : TypeAmount(v)
  <2>1. PICK v \in Values : TypeAmount(v)
    BY <1>5
  <2> DEFINE new == [form EXCEPT !.value = v]
  <2>2. Edit(new)
    BY <2>1 DEF TypeAmount
  <2>3. new \in Forms
    BY <1>1, EditorTables DEF Forms
  <2> QED
    BY <2>2, <2>3
<1>6. CASE \E n, k \in Counts : TypeQuantities(n, k)
  <2>1. PICK n \in Counts, k \in Counts : TypeQuantities(n, k)
    BY <1>6
  <2> DEFINE new == [form EXCEPT !.buy = n, !.free = k]
  <2>2. Edit(new)
    BY <2>1 DEF TypeQuantities
  <2>3. new \in Forms
    BY <1>1, EditorTables DEF Forms
  <2> QED
    BY <2>2, <2>3
<1>7. CASE \E n \in Counts : TypeRequired(n)
  <2>1. PICK n \in Counts : TypeRequired(n)
    BY <1>7
  <2> DEFINE new == [form EXCEPT !.required = n]
  <2>2. Edit(new)
    BY <2>1 DEF TypeRequired
  <2>3. new \in Forms
    BY <1>1, EditorTables DEF Forms
  <2> QED
    BY <2>2, <2>3
<1>8. CASE \E mode \in {"FREE_DELIVERY", "PERCENTAGE_DISCOUNT"}, v \in Values : SelectBenefit(mode, v)
  <2>1. PICK mode \in {"FREE_DELIVERY", "PERCENTAGE_DISCOUNT"}, v \in Values : SelectBenefit(mode, v)
    BY <1>8
  <2> DEFINE new == [form EXCEPT !.mode = mode, !.percent = IF mode = "PERCENTAGE_DISCOUNT" THEN v ELSE None]
  <2>2. Edit(new)
    BY <2>1 DEF SelectBenefit
  <2>3. new \in Forms
    BY <1>1, EditorTables DEF Forms
  <2> QED
    BY <2>2, <2>3
<1>9. CASE \E on \in BOOLEAN : SetActive(on)
  <2>1. PICK on \in BOOLEAN : SetActive(on)
    BY <1>9
  <2> DEFINE new == [form EXCEPT !.active = on]
  <2>2. Edit(new)
    BY <2>1 DEF SetActive
  <2>3. new \in Forms
    BY <1>1 DEF Forms
  <2> QED
    BY <2>2, <2>3
<1>10. CASE \E g \in Groups, mode \in {"WHOLE_MENU", "SPECIFIC_TARGETS"} : SetTargetMode(g, mode)
  <2>1. PICK g \in Groups, mode \in {"WHOLE_MENU", "SPECIFIC_TARGETS"} : SetTargetMode(g, mode)
    BY <1>10
  <2> DEFINE targets == [form.targets EXCEPT ![g] = IF mode = "WHOLE_MENU" THEN {} ELSE @]
             modes == [form.modes EXCEPT ![g] = mode]
             new == [form EXCEPT !.modes = modes, !.targets = targets]
  <2>2. Edit([form EXCEPT !.modes[g] = mode, !.targets[g] = IF mode = "WHOLE_MENU" THEN {} ELSE @])
    BY <2>1 DEF SetTargetMode
  <2>3. [form EXCEPT !.modes[g] = mode, !.targets[g] = IF mode = "WHOLE_MENU" THEN {} ELSE @] = new
    BY <1>1 DEF Forms
  <2>4. targets \in TargetLists /\ modes \in TargetModes
    BY <1>2 DEF TargetLists, TargetModes
  <2> HIDE DEF targets, modes
  <2>5. new \in Forms
    BY <1>1, <2>4 DEF Forms
  <2> QED
    BY <2>2, <2>3, <2>5
<1>11. CASE \E g \in Groups, t \in Entries \cup Subgroups : AddTarget(g, t) \/ RemoveTarget(g, t)
  <2>1. PICK g \in Groups, t \in Entries \cup Subgroups : AddTarget(g, t) \/ RemoveTarget(g, t)
    BY <1>11
  <2>2. ASSUME NEW T \in SUBSET (Entries \cup Subgroups), Edit([form EXCEPT !.targets[g] = T])
        PROVE  \E new \in Forms : Edit(new)
    <3> DEFINE targets == [form.targets EXCEPT ![g] = T]
    <3>1. [form EXCEPT !.targets[g] = T] = [form EXCEPT !.targets = targets]
      BY <1>1 DEF Forms
    <3>2. targets \in TargetLists
      BY <1>2 DEF TargetLists
    <3> HIDE DEF targets
    <3>3. [form EXCEPT !.targets = targets] \in Forms
      BY <1>1, <3>2 DEF Forms
    <3> QED
      BY <2>2, <3>1, <3>3
  <2>3. form.targets[g] \in SUBSET (Entries \cup Subgroups)
    BY <1>2 DEF TargetLists
  <2>4. \/ Edit([form EXCEPT !.targets[g] = form.targets[g] \cup {t}])
        \/ Edit([form EXCEPT !.targets[g] = form.targets[g] \ {t}])
    BY <2>1 DEF AddTarget, RemoveTarget
  <2> QED
    BY <2>2, <2>3, <2>4
<1> QED
  BY <1>3, <1>4, <1>5, <1>6, <1>7, <1>8, <1>9, <1>10, <1>11 DEF EditForm, Behaviors

-----------------------------------------------------------------------------
(* What a save sends and the server stores *)

\* What the preview makes of the form.
LEMMA DraftFields ==
  ASSUME NEW form, NEW known
  PROVE  LET draft == DraftPromotion(form, known)
         IN  /\ DOMAIN draft = OfferFields /\ draft = [f \in OfferFields |-> draft[f]]
             /\ draft.type = DerivePromotionType(form)
             /\ draft.value = IF form.behavior \in {"BUY_N_GET_M_FREE", "FIRST_TIME_FREE_ITEM"} \/ form.value = None
                              THEN 0 ELSE form.value
             /\ draft.window = form.window /\ draft.active = form.active
             /\ draft.required = IF form.behavior # "FIRST_TIME_FREE_ITEM" /\ form.eligibility = "AFTER_ORDER_COUNT"
                                 THEN form.required ELSE None
             /\ draft.buy = IF form.behavior = "BUY_N_GET_M_FREE" THEN form.buy ELSE None
             /\ draft.free = IF form.behavior = "BUY_N_GET_M_FREE" THEN form.free ELSE None
             /\ draft.mode = IF form.behavior = "FREE_DELIVERY_ABOVE_AMOUNT" THEN form.mode ELSE None
             /\ draft.percent = IF form.mode = "PERCENTAGE_DISCOUNT" /\ form.behavior = "FREE_DELIVERY_ABOVE_AMOUNT"
                                THEN form.percent ELSE None
             /\ draft.rule = FALSE
             /\ draft.scope = TargetsFor(form, "scope", known)
             /\ draft.buyFrom = TargetsFor(form, "buyFrom", known)
             /\ draft.freeFrom = TargetsFor(form, "freeFrom", known)
  BY DEF DraftPromotion, OfferFields

\* The type of the preview tells the behavior, and the first order only who may use it.
LEMMA DraftType ==
  ASSUME NEW form \in Forms
  PROVE  /\ form.behavior = "FIXED_DISCOUNT" <=> DerivePromotionType(form) \in {"FIRST_TIME", "LOYALTY", "TEMPORARY"}
         /\ form.behavior # "FIXED_DISCOUNT" => DerivePromotionType(form) = form.behavior
         /\ DerivePromotionType(form) = "FIRST_TIME" => form.eligibility = "NEW_CUSTOMERS"
<1>1. form.behavior \in Behaviors
  BY FormFields
<1>2. CASE form.behavior = "FIXED_DISCOUNT"
  BY <1>2 DEF DerivePromotionType
<1>3. CASE form.behavior # "FIXED_DISCOUNT"
  <2>1. DerivePromotionType(form) = form.behavior
    BY <1>3 DEF DerivePromotionType
  <2> QED
    BY <1>1, <1>3, <2>1 DEF Behaviors
<1> QED
  BY <1>2, <1>3

\* A row whose fields are the draft's but for the targets can be stored.
LEMMA DraftStored ==
  ASSUME NEW form \in Forms, CanSave(form), NEW known, NEW merged, DOMAIN merged = OfferFields,
         merged = [f \in OfferFields |-> merged[f]],
         \A f \in OfferFields \ Groups : merged[f] = DraftPromotion(form, known)[f],
         \A g \in Groups : merged[g] \in SUBSET Entries
  PROVE  merged \in OfferRow
<1> DEFINE draft == DraftPromotion(form, known)
<1>1. \A f \in {"type", "value", "window", "active", "required", "buy", "free", "mode", "percent", "rule"} :
        f \in OfferFields \ Groups
  BY DEF OfferFields, Groups
<1>2. /\ merged.type = draft.type /\ merged.value = draft.value /\ merged.window = draft.window
      /\ merged.active = draft.active /\ merged.required = draft.required /\ merged.buy = draft.buy
      /\ merged.free = draft.free /\ merged.mode = draft.mode /\ merged.percent = draft.percent
      /\ merged.rule = draft.rule
  BY <1>1
<1>3. merged.scope \in SUBSET Entries /\ merged.buyFrom \in SUBSET Entries /\ merged.freeFrom \in SUBSET Entries
  BY DEF Groups
<1>9. /\ draft.buy = IF form.behavior = "BUY_N_GET_M_FREE" THEN form.buy ELSE None
      /\ draft.free = IF form.behavior = "BUY_N_GET_M_FREE" THEN form.free ELSE None
  BY DEF DraftPromotion
<1>10. /\ draft.required = form.required \/ draft.required = None
       /\ draft.mode = form.mode \/ draft.mode = None
       /\ draft.percent = form.percent \/ draft.percent = None
       /\ draft.rule = FALSE
  BY DEF DraftPromotion
<1>11. /\ draft.value = IF form.behavior \in {"BUY_N_GET_M_FREE", "FIRST_TIME_FREE_ITEM"} \/ form.value = None
                        THEN 0 ELSE form.value
       /\ draft.window = form.window /\ draft.active = form.active
  BY DEF DraftPromotion
<1> HIDE DEF draft
<1>4. draft.buy \in (Nat \ {0}) \cup {None} /\ draft.free \in (Nat \ {0}) \cup {None}
  <2>1. CASE form.behavior = "BUY_N_GET_M_FREE"
    <3>1. form.buy # None /\ form.buy > 0 /\ form.free # None /\ form.free > 0
      BY <2>1 DEF CanSave, IsPositive
    <3>2. form.buy \in Nat \ {0} /\ form.free \in Nat \ {0}
      BY <3>1, FormFields
    <3> QED
      BY <1>9, <2>1, <3>2
  <2>2. CASE form.behavior # "BUY_N_GET_M_FREE"
    BY <1>9, <2>2
  <2> QED
    BY <2>1, <2>2
<1>5. draft.type \in {"TEMPORARY", "LOYALTY", "BUY_N_GET_M_FREE", "FREE_DELIVERY_ABOVE_AMOUNT"} \cup FirstTime
  <2>1. draft.type = DerivePromotionType(form)
    BY DraftFields DEF draft
  <2> QED
    BY <2>1, DraftType, FormFields DEF Behaviors, FirstTime
<1>6. draft.value \in Int /\ draft.window \in {"live", "upcoming", "expired"} /\ draft.active \in BOOLEAN
  BY <1>11, FormFields
<1>7. /\ draft.required \in Nat \cup {None} /\ draft.mode \in {"FREE_DELIVERY", "PERCENTAGE_DISCOUNT", None}
      /\ draft.percent \in Int \cup {None} /\ draft.rule \in BOOLEAN
  BY <1>10, FormFields
<1>8. merged = [type |-> merged.type, value |-> merged.value, window |-> merged.window, active |-> merged.active,
                required |-> merged.required, buy |-> merged.buy, free |-> merged.free, mode |-> merged.mode,
                percent |-> merged.percent, rule |-> merged.rule,
                scope |-> merged.scope, buyFrom |-> merged.buyFrom, freeFrom |-> merged.freeFrom]
  BY DEF OfferFields
<1> QED
  BY <1>2, <1>3, <1>4, <1>5, <1>6, <1>7, <1>8 DEF OfferRow

\* The groups of targets a save ends up with.
Grouped(draft, groups) ==
  /\ ~TargetsUnchanged(sent) => groups = NormalizeTargetGroups(draft)
  /\ TargetsUnchanged(sent) =>
       /\ groups["scope"] = offer.scope
       /\ draft.type = "BUY_N_GET_M_FREE" => groups["buyFrom"] = offer.buyFrom /\ groups["freeFrom"] = offer.freeFrom

\* With the targets untouched the behavior and the targets of the form are those
\* of the row.
LEMMA UntouchedForm ==
  ASSUME sent \in SentEditors, sent.row = offer, TargetsUnchanged(sent)
  PROVE  /\ offer # None
         /\ sent.form.behavior = InferBehavior(offer)
         /\ sent.form.targets = FormOf(offer).targets
         /\ sent.form.modes = FormOf(offer).modes
<1>1. offer # None /\ sent.initial = Opened(offer) /\ sent.initial = Signature(sent.form) /\ offer \in OfferRow
  BY DEF TargetsUnchanged, SentEditors, OpenEditors, Sheets
<1>2. Signature(FormOf(offer)) = Signature(sent.form)
  BY <1>1 DEF Opened
<1>3. FormOf(offer).behavior = InferBehavior(offer)
  BY <1>1, FormOfOK
<1> QED
  BY <1>1, <1>2, <1>3 DEF Signature

\* A save arrives only at the row it was started on.
LEMMA SaveFinds ==
  ASSUME OffersOK, SaveArrives
  PROVE  /\ sent \in SentEditors /\ sent.row = offer /\ entries \subseteq sent.menu
         /\ sent.form \in Forms /\ CanSave(sent.form) /\ sent.menu \in SUBSET Entries
<1>1. SentOK
  BY DEF OffersOK, SaveArrives, NoSave
<1>2. sent.row = offer
  <2>1. CASE sent.row = None
    BY <1>1, <2>1 DEF SentOK, SaveArrives, CreatePromotion
  <2>2. CASE sent.row # None
    <3>1. offer # None
      BY <2>2 DEF SaveArrives, UpdatePromotion, UpdateAccepted
    <3> QED
      BY <1>1, <3>1 DEF SentOK
  <2> QED
    BY <2>1, <2>2
<1> QED
  BY <1>1, <1>2 DEF SentOK, SentEditors, OpenEditors, Sheets

\* A save that arrives stores the draft, with the targets it names or with those of
\* the row it was opened on.
LEMMA SaveWrites ==
  ASSUME OffersOK, SaveArrives
  PROVE  LET draft == DraftPromotion(sent.form, sent.menu)
         IN  \E merged \in OfferRow, groups \in [Groups -> SUBSET Entries] :
               /\ RowAccepted(merged)
               /\ offer' = Normalized(merged, groups)
               /\ \A f \in OfferFields \ Groups : merged[f] = draft[f]
               /\ Grouped(draft, groups)
<1> DEFINE form == sent.form
           draft == DraftPromotion(form, sent.menu)
<1>1. form \in Forms /\ CanSave(form) /\ sent \in SentEditors /\ sent.row = offer /\ entries \subseteq Entries
  BY SaveFinds DEF OffersOK
<1>2. DOMAIN draft = OfferFields /\ draft = [f \in OfferFields |-> draft[f]]
  BY DraftFields
<1>3. Groups \subseteq OfferFields /\ "type" \in OfferFields \ Groups
  BY DEF Groups, OfferFields
<1>4. draft.type = DerivePromotionType(form)
  BY DraftFields
<1> HIDE DEF draft, form
<1>5. ASSUME NEW merged \in OfferRow, NEW groups, RowAccepted(merged), offer' = Normalized(merged, groups),
             groups.scope \in SUBSET Entries, groups.buyFrom \in SUBSET Entries, groups.freeFrom \in SUBSET Entries
      PROVE  \E same \in [Groups -> SUBSET Entries] :
               /\ offer' = Normalized(merged, same)
               /\ \A g \in Groups : same[g] = groups[g]
  <2> DEFINE same == [g \in Groups |-> groups[g]]
  <2>1. same.scope = groups.scope /\ same.buyFrom = groups.buyFrom /\ same.freeFrom = groups.freeFrom
    BY DEF Groups
  <2>2. same \in [Groups -> SUBSET Entries] /\ \A g \in Groups : same[g] = groups[g]
    BY <1>5 DEF Groups
  <2> HIDE DEF same
  <2>3. Normalized(merged, same) = Normalized(merged, groups)
    BY <2>1 DEF Normalized
  <2> QED
    BY <1>5, <2>2, <2>3
<1>6. \A row : TargetsExist(row) => \A g \in Groups : row[g] \in SUBSET Entries
  BY <1>1 DEF TargetsExist
<1>7. \A row : (\A g \in Groups : row[g] \in SUBSET Entries)
               => row.scope \in SUBSET Entries /\ row.buyFrom \in SUBSET Entries /\ row.freeFrom \in SUBSET Entries
  BY DEF Groups
<1>8. ASSUME ~TargetsUnchanged(sent), RowAccepted(draft), TargetsExist(draft),
             offer' = Normalized(draft, NormalizeTargetGroups(draft))
      PROVE  \E merged \in OfferRow, groups \in [Groups -> SUBSET Entries] :
               /\ RowAccepted(merged)
               /\ offer' = Normalized(merged, groups)
               /\ \A f \in OfferFields \ Groups : merged[f] = draft[f]
               /\ Grouped(draft, groups)
  <2>1. \A g \in Groups : draft[g] \in SUBSET Entries
    BY <1>6, <1>8
  <2>2. draft \in OfferRow
    BY <1>1, <1>2, <2>1, DraftStored DEF draft
  <2>3. PICK same \in [Groups -> SUBSET Entries] :
          /\ offer' = Normalized(draft, same)
          /\ \A g \in Groups : same[g] = NormalizeTargetGroups(draft)[g]
    BY <1>5, <1>8, <2>2, GroupsOf
  <2>4. same = NormalizeTargetGroups(draft)
    BY <2>3 DEF NormalizeTargetGroups
  <2>5. Grouped(draft, same)
    BY <1>8, <2>4 DEF Grouped
  <2> QED
    BY <1>8, <2>2, <2>3, <2>5
<1>9. CASE offer = None
  <2>1. ~TargetsUnchanged(sent)
    BY <1>1, <1>9 DEF TargetsUnchanged
  <2>2. Payload(sent) = draft
    BY <2>1 DEF Payload, draft, form
  <2>3. CreatePromotion(draft)
    BY <1>1, <1>9, <2>2 DEF SaveArrives
  <2> QED
    BY <1>8, <2>1, <2>3 DEF CreatePromotion, draft, form
<1>10. CASE offer # None
  <2> DEFINE values == Payload(sent)
             merged == Merge(offer, values)
  <2>1. UpdatePromotion(values)
    BY <1>1, <1>10 DEF SaveArrives
  <2>2. /\ RowAccepted(merged)
        /\ Regroups(values) => TargetsExist(merged)
        /\ offer' = Normalized(merged, IF Regroups(values) THEN NormalizeTargetGroups(merged) ELSE offer)
    BY <2>1 DEF UpdatePromotion, UpdateAccepted, RowAfter
  <2>3. offer \in OfferRow /\ DOMAIN offer = OfferFields
    BY <1>10, OfferRowFields DEF OffersOK, SoundRow
  <2>4. CASE ~TargetsUnchanged(sent)
    <3>1. values = draft
      BY <2>4 DEF Payload, draft, form
    <3>2. merged = draft
      <4>1. merged = [f \in OfferFields |-> draft[f]]
        BY <1>2, <2>3, <3>1 DEF Merge
      <4> QED
        BY <1>2, <4>1
    <3>3. Regroups(values)
      BY <1>2, <1>3, <3>1 DEF Regroups, Groups
    <3> HIDE DEF values, merged
    <3> QED
      BY <1>8, <2>2, <2>4, <3>2, <3>3 DEF draft, form
  <2>5. CASE TargetsUnchanged(sent)
    <3>1. values = [f \in OfferFields \ Groups |-> draft[f]]
      BY <1>2, <2>5 DEF Payload, draft, form
    <3>2. merged = [f \in OfferFields |-> IF f \in Groups THEN offer[f] ELSE draft[f]]
      BY <2>3, <3>1 DEF Merge
    <3>3. \A g \in Groups : merged[g] = offer[g] /\ offer[g] \in SUBSET Entries
      <4>1. \A g \in Groups : offer[g] \in SUBSET Entries
        BY <2>3, OfferRowFields DEF Groups
      <4> QED
        BY <1>3, <3>2, <4>1
    <3>4. \A f \in OfferFields \ Groups : merged[f] = draft[f]
      BY <3>2
    <3>5. merged \in OfferRow
      <4>1. DOMAIN merged = OfferFields /\ merged = [f \in OfferFields |-> merged[f]]
        BY <3>2
      <4> HIDE DEF merged
      <4> QED
        BY <1>1, <3>3, <3>4, <4>1, DraftStored DEF draft
    <3>6. Regroups(values) <=> draft.type # offer.type
      BY <1>3, <3>1 DEF Regroups
    <3>7. /\ draft.type = "BUY_N_GET_M_FREE" => offer.type = "BUY_N_GET_M_FREE"
          /\ draft.type # offer.type => draft.type \in {"FIRST_TIME", "LOYALTY", "TEMPORARY"}
      <4>1. form.behavior = InferBehavior(offer)
        BY <1>1, <2>5, UntouchedForm DEF form
      <4>2. offer.type \in {"TEMPORARY", "LOYALTY", "BUY_N_GET_M_FREE", "FREE_DELIVERY_ABOVE_AMOUNT"} \cup FirstTime
        BY <2>3, OfferRowFields
      <4> QED
        BY <1>1, <1>4, <4>1, <4>2, DraftType DEF InferBehavior, FirstTime
    <3>8. merged.type = draft.type
      BY <1>3, <3>4
    <3>9. CASE Regroups(values)
      <4>1. offer' = Normalized(merged, NormalizeTargetGroups(merged))
        BY <2>2, <3>9
      <4>2. NormalizeTargetGroups(merged).scope = offer.scope
        <5>1. NormalizeTargetGroups(merged) = [g \in Groups |-> IF g = "scope" THEN merged.scope ELSE {}]
          BY <3>6, <3>7, <3>8, <3>9 DEF NormalizeTargetGroups
        <5>2. merged.scope = offer.scope
          BY <3>3 DEF Groups
        <5> QED
          BY <5>1, <5>2 DEF Groups
      <4>3. draft.type # "BUY_N_GET_M_FREE"
        BY <3>6, <3>7, <3>9
      <4> HIDE DEF values, merged
      <4>4. PICK same \in [Groups -> SUBSET Entries] :
              /\ offer' = Normalized(merged, same)
              /\ \A g \in Groups : same[g] = NormalizeTargetGroups(merged)[g]
        BY <1>5, <2>2, <3>5, <4>1, GroupsOf
      <4>5. Grouped(draft, same)
        BY <2>5, <4>2, <4>3, <4>4 DEF Grouped, Groups
      <4> QED
        BY <2>2, <3>4, <3>5, <4>4, <4>5 DEF draft, form
    <3>10. CASE ~Regroups(values)
      <4>1. offer' = Normalized(merged, offer)
        BY <2>2, <3>10
      <4> HIDE DEF values, merged
      <4>2. PICK same \in [Groups -> SUBSET Entries] :
              /\ offer' = Normalized(merged, same)
              /\ \A g \in Groups : same[g] = offer[g]
        BY <1>5, <1>7, <2>2, <3>3, <3>5, <4>1
      <4>3. Grouped(draft, same)
        BY <2>5, <4>2 DEF Grouped, Groups
      <4> QED
        BY <2>2, <3>4, <3>5, <4>2, <4>3 DEF draft, form
    <3> QED
      BY <3>9, <3>10
  <2> QED
    BY <2>4, <2>5
<1> QED
  BY <1>9, <1>10

-----------------------------------------------------------------------------
(* Every step keeps the rows sound *)

OffersSpec == OfferEditorInit /\ [][OfferEditorNext]_editorVars

LEMMA OffersInitOK == OfferEditorInit => OffersOK
<1> SUFFICES ASSUME OfferEditorInit PROVE OffersOK
  OBVIOUS
<1>1. offer # None => SoundRow(offer)
  <2> SUFFICES ASSUME NEW row \in Rows, RowAccepted(row), offer = Normalized(row, NormalizeTargetGroups(row))
               PROVE  SoundRow(offer)
    BY DEF OfferEditorInit, OffersInit
  <2>1. row \in OfferRow
    BY OfferTables
  <2> QED
    BY <2>1, GroupsOf, NormalizedSound
<1> QED
  BY <1>1 DEF OfferEditorInit, OffersInit, OffersOK

\* With the editor closed and no save under way only the row has to be sound.
LEMMA ClosedOK ==
  ASSUME editor' = Closed, sent' = NoSave, entries' \subseteq Entries, offer' # None => SoundRow(offer')
  PROVE  OffersOK'
  BY DEF OffersOK

LEMMA ServerStepOK ==
  ASSUME OffersOK, OffersNext
  PROVE  entries' \subseteq Entries /\ (offer' # None => SoundRow(offer'))
<1>1. ASSUME NEW row \in Rows, CreatePromotion(row)
      PROVE  SoundRow(offer') /\ entries' = entries
  <2>1. row \in OfferRow /\ RowAccepted(row) /\ offer' = Normalized(row, NormalizeTargetGroups(row)) /\ entries' = entries
    BY <1>1, OfferTables DEF CreatePromotion
  <2> QED
    BY <2>1, GroupsOf, NormalizedSound
<1>2. ASSUME TogglePromotion
      PROVE  SoundRow(offer') /\ entries' = entries
  <2>1. offer # None /\ offer' = [offer EXCEPT !.active = ~@] /\ entries' = entries
    BY <1>2 DEF TogglePromotion
  <2>2. offer \in OfferRow /\ RowAccepted(offer)
    BY <2>1 DEF OffersOK, SoundRow
  <2>3. offer' \in OfferRow
    BY <2>1, <2>2 DEF OfferRow
  <2>4. /\ offer'.type = offer.type /\ offer'.buy = offer.buy /\ offer'.free = offer.free /\ offer'.mode = offer.mode
        /\ offer'.percent = offer.percent /\ offer'.value = offer.value
    BY <2>1, <2>2 DEF OfferRow
  <2>5. RowAccepted(offer')
    BY <2>2, <2>4 DEF RowAccepted, BuyGetComplete, FreeDeliveryComplete, FreeDeliveryMode, ValueAccepted
  <2> QED
    BY <2>1, <2>3, <2>5 DEF SoundRow
<1>3. ASSUME DeletePromotion
      PROVE  offer' = None /\ entries' = entries
  BY <1>3 DEF DeletePromotion
<1>4. ASSUME NEW n \in 1 .. 2, UpdateLoyaltyRule(n)
      PROVE  offer' = offer /\ entries' = entries
  BY <1>4 DEF UpdateLoyaltyRule
<1>5. ASSUME NEW e \in Entries, DeleteMenuEntry(e)
      PROVE  offer' = offer /\ entries' \subseteq entries
  BY <1>5 DEF DeleteMenuEntry
<1> QED
  BY <1>1, <1>2, <1>3, <1>4, <1>5 DEF OffersNext, OffersOK

\* So what it stores is sound.
LEMMA SaveKeepsSound ==
  ASSUME OffersOK, SaveArrives
  PROVE  SoundRow(offer') /\ entries' = entries
<1>1. PICK merged \in OfferRow, groups \in [Groups -> SUBSET Entries] :
        RowAccepted(merged) /\ offer' = Normalized(merged, groups)
  BY SaveWrites
<1>2. groups.scope \in SUBSET Entries /\ groups.buyFrom \in SUBSET Entries /\ groups.freeFrom \in SUBSET Entries
  BY DEF Groups
<1>3. entries' = entries
  BY DEF SaveArrives, CreatePromotion, UpdatePromotion
<1> QED
  BY <1>1, <1>2, <1>3, NormalizedSound

LEMMA OffersStepOK == OffersOK /\ [OfferEditorNext]_editorVars => OffersOK'
<1> SUFFICES ASSUME OffersOK, [OfferEditorNext]_editorVars PROVE OffersOK'
  OBVIOUS
<1>1. CASE editor = Closed /\ sent = NoSave /\ OffersNext /\ UNCHANGED <<editor, sent>>
  <2>1. editor' = Closed /\ sent' = NoSave
    BY <1>1 DEF Closed, NoSave
  <2> QED
    BY <1>1, <2>1, ServerStepOK, ClosedOK
<1>2. ASSUME NEW e \in Entries, DeleteMenuEntry(e), UNCHANGED <<editor, sent>>
      PROVE  OffersOK'
  <2>1. offer' = offer /\ entries' \subseteq entries /\ editor' = editor /\ sent' = sent
    BY <1>2 DEF DeleteMenuEntry
  <2>2. EditorOK => EditorOK'
    BY <2>1 DEF EditorOK
  <2>3. SentOK => SentOK'
    BY <2>1 DEF SentOK
  <2> QED
    BY <2>1, <2>2, <2>3 DEF OffersOK, Closed, NoSave
<1>3. CASE OpenEditor
  <2>1. /\ editor' = (IF offer = None THEN Open(EmptyForm, None) ELSE Open(FormOf(offer), offer))
        /\ UNCHANGED <<offer, entries, sent>>
    BY <1>3 DEF OpenEditor, offerVars
  <2>2. offer # None => offer \in OfferRow
    BY DEF OffersOK, SoundRow
  <2> DEFINE form == IF offer = None THEN EmptyForm ELSE FormOf(offer)
  <2>3. form \in Forms /\ Opened(offer) \in (Behaviors \X TargetModes \X TargetLists) \cup {None}
    BY <2>2, EmptyFormOK, FormOfOK, OpenedOK
  <2>4. editor' = [stage |-> "open", form |-> form, row |-> offer, menu |-> entries, edits |-> 0, initial |-> Opened(offer)]
    BY <2>1 DEF Open, Opened
  <2> HIDE DEF form
  <2>5. editor' \in OpenEditors
    BY <2>2, <2>3, <2>4 DEF OpenEditors, Sheets, OffersOK
  <2>6. EditorOK'
    BY <2>1, <2>4, <2>5 DEF EditorOK
  <2> QED
    BY <2>1, <2>6, ServerStays DEF OffersOK
<1>4. CASE Leave
  <2>1. editor' = Closed /\ UNCHANGED <<offer, entries, sent>>
    BY <1>4 DEF Leave, offerVars
  <2> QED
    BY <2>1, ServerStays DEF OffersOK
<1>5. CASE CancelEdit
  <2> DEFINE form == FormOf(editor.row)
             initial == Signature(FormOf(editor.row))
  <2>1. /\ editor # Closed /\ editor.row # None
        /\ editor' = [editor EXCEPT !.form = form, !.initial = initial] /\ UNCHANGED <<offer, entries, sent>>
    BY <1>5 DEF CancelEdit, offerVars, Closed
  <2>2. EditorOK /\ editor.row \in OfferRow
    BY <2>1 DEF OffersOK, EditorOK, OpenEditors, Sheets
  <2>3. form \in Forms /\ initial \in Behaviors \X TargetModes \X TargetLists
    BY <2>2, FormOfOK, SignatureOK
  <2>4. initial = Opened(editor.row)
    BY <2>1 DEF Opened
  <2> HIDE DEF form, initial
  <2>5. editor' \in OpenEditors /\ editor'.row = editor.row /\ editor'.menu = editor.menu
    BY <2>1, <2>2, <2>3, <2>4 DEF EditorOK, OpenEditors, Sheets
  <2>6. EditorOK'
    BY <2>1, <2>2, <2>5 DEF EditorOK
  <2> QED
    BY <2>1, <2>6, ServerStays DEF OffersOK
<1>6. CASE editor.stage = "open" /\ EditForm
  BY <1>6, EditFormOK DEF Closed
<1>7. CASE Save
  <2>1. /\ editor # Closed /\ CanSave(editor.form) /\ UNCHANGED <<offer, entries, editor>>
        /\ \E stage \in {"refreshing", "sending"} : sent' = [editor EXCEPT !.stage = stage]
    BY <1>7 DEF Save, offerVars, Closed
  <2>2. EditorOK
    BY <2>1 DEF OffersOK
  <2>3. sent' \in OpenEditors /\ sent'.row = editor.row /\ sent'.menu = editor.menu /\ sent'.form = editor.form
    BY <2>1, <2>2 DEF EditorOK, OpenEditors, Sheets
  <2>4. sent' \in SentEditors
    BY <2>1, <2>3 DEF SentEditors
  <2>5. SentOK'
    BY <2>1, <2>2, <2>3, <2>4 DEF EditorOK, SentOK
  <2> QED
    BY <2>1, <2>5, ServerStays DEF OffersOK
<1>8. CASE FreshMenu
  <2>1. /\ sent # NoSave /\ UNCHANGED <<offer, entries>>
        /\ sent' = NoSave \/ sent' = [sent EXCEPT !.menu = entries, !.stage = "sending"]
        /\ editor' = IF editor = Closed THEN Closed ELSE [editor EXCEPT !.menu = entries]
    BY <1>8 DEF FreshMenu, offerVars, NoSave
  <2>2. SentOK /\ entries \subseteq Entries
    BY <2>1 DEF OffersOK
  <2>3. ASSUME sent' = [sent EXCEPT !.menu = entries, !.stage = "sending"]
        PROVE  SentOK'
    <3>1. sent' \in OpenEditors /\ sent'.row = sent.row /\ sent'.menu = entries /\ sent'.form = sent.form
      BY <2>2, <2>3 DEF SentOK, SentEditors, OpenEditors, Sheets
    <3>2. sent' \in SentEditors
      BY <2>2, <3>1 DEF SentOK, SentEditors
    <3>3. entries' = entries /\ offer' = offer
      BY <2>1
    <3>4. sent'.row = offer' \/ offer' = None
      BY <2>2, <3>1, <3>3 DEF SentOK
    <3>5. entries' \subseteq sent'.menu
      BY <3>1, <3>3
    <3> QED
      BY <3>2, <3>4, <3>5 DEF SentOK
  <2>4. ASSUME editor # Closed
        PROVE  EditorOK'
    <3>1. EditorOK /\ editor' = [editor EXCEPT !.menu = entries]
      BY <2>1, <2>4 DEF OffersOK
    <3>2. editor' \in OpenEditors /\ editor'.row = editor.row /\ editor'.menu = entries
      BY <2>2, <3>1 DEF EditorOK, OpenEditors, Sheets
    <3>3. entries' = entries /\ offer' = offer
      BY <2>1
    <3>4. editor'.row = offer' /\ entries' \subseteq editor'.menu
      BY <3>1, <3>2, <3>3 DEF EditorOK
    <3> QED
      BY <3>2, <3>4 DEF EditorOK
  <2>5. sent' = NoSave \/ SentOK'
    BY <2>1, <2>3
  <2>6. editor' = Closed \/ EditorOK'
    BY <2>1, <2>4
  <2> QED
    BY <2>1, <2>5, <2>6, ServerStays DEF OffersOK, Closed, NoSave
<1>9. CASE SaveArrives
  <2>1. editor' = Closed /\ sent' = NoSave
    BY <1>9 DEF SaveArrives
  <2> QED
    BY <1>9, <2>1, SaveKeepsSound, ClosedOK DEF OffersOK
<1>10. CASE SaveRefused \/ SaveLost
  <2>1. sent' = NoSave /\ UNCHANGED <<offer, entries, editor>>
    BY <1>10 DEF SaveRefused, SaveLost, offerVars
  <2> QED
    BY <2>1, ServerStays DEF OffersOK
<1>11. CASE DeleteFromEditor
  <2>1. editor' = Closed /\ sent' = sent /\ offer' = None /\ entries' = entries
    BY <1>11 DEF DeleteFromEditor, DeletePromotion
  <2>2. SentOK => SentOK'
    BY <2>1 DEF SentOK
  <2> QED
    BY <2>1, <2>2 DEF OffersOK, NoSave
<1>12. CASE UNCHANGED editorVars
  <2>1. UNCHANGED <<offer, entries, editor, sent>>
    BY <1>12 DEF editorVars, offerVars
  <2> QED
    BY <2>1, ServerStays DEF OffersOK
<1> QED
  BY <1>1, <1>2, <1>3, <1>4, <1>5, <1>6, <1>7, <1>8, <1>9, <1>10, <1>11, <1>12 DEF OfferEditorNext

\* The inductive invariant of the offers and their editor holds in every state.
LEMMA OffersKept == OffersSpec => []OffersOK
  BY OffersInitOK, OffersStepOK, PTL DEF OffersSpec

(* Whatever a row becomes through requests of the admin or the editor,     *)
(* beside any finite set of accepted rows, it makes no cart of any         *)
(* customer dearer, picked up or delivered.                                *)
THEOREM OffersAreGifts == OffersSpec => MoreOffersNeverCostMore
<1>1. ASSUME OffersOK, OffersOK', offer' # offer, offer' # None,
             NEW others \in Beside, NEW c \in Orderable, NEW type \in OrderTypes, NEW customer \in Customers
      PROVE  Charge(others \cup {offer'}, c, type, customer) <= Charge(others, c, type, customer)
  <2>1. SoundRow(offer')
    BY <1>1 DEF OffersOK
  <2>2. IsFiniteSet(others) /\ \A row \in others : SoundRow(row)
    BY OfferTables DEF SoundRow
  <2>3. c \in Carts
    BY DEF Orderable
  <2> QED
    BY <2>1, <2>2, <2>3, OneMoreRow
<1>2. OffersOK /\ OffersOK' =>
        [(offer' # offer /\ offer' # None) =>
           \A others \in Beside, c \in Orderable, type \in OrderTypes, customer \in Customers :
              Charge(others \cup {offer'}, c, type, customer) <= Charge(others, c, type, customer)]_offerVars
  BY <1>1
<1> QED
  BY <1>2, OffersKept, PTL DEF MoreOffersNeverCostMore

-----------------------------------------------------------------------------
(* The stored offer and the preview *)

\* Two lists of targets that mean the same lines of every cart.
Twins(targets, others) ==
  /\ targets = {} <=> others = {}
  /\ \A c \in Orderable : Matching(c, targets) = Matching(c, others)

\* Rows that differ in nothing the server computes with.
LEMMA AlikeRows ==
  ASSUME NEW row, NEW other,
         row.type = other.type, row.value = other.value, row.window = other.window, row.active = other.active,
         row.buy = other.buy, row.free = other.free, row.mode = other.mode, row.percent = other.percent,
         RequiredOrders(row) = RequiredOrders(other),
         row.type \notin {"BUY_N_GET_M_FREE", "FREE_DELIVERY_ABOVE_AMOUNT"} => Twins(row.scope, other.scope),
         row.type = "BUY_N_GET_M_FREE" =>
            /\ Twins(BuyFrom(row), BuyFrom(other)) /\ Twins(FreeFrom(row), FreeFrom(other))
            /\ BuyFrom(row) = FreeFrom(row) <=> BuyFrom(other) = FreeFrom(other)
  PROVE  SameOffer(row, other)
<1> SUFFICES ASSUME NEW c \in Orderable, NEW type \in OrderTypes, NEW customer \in Customers
             PROVE  Charge({row}, c, type, customer) = Charge({other}, c, type, customer)
  BY DEF SameOffer
<1>1. FreesDelivery(row) <=> FreesDelivery(other)
  BY DEF FreesDelivery, FreeDeliveryMode
<1>2. CustomerQualifies(row, customer) = CustomerQualifies(other, customer)
  BY DEF CustomerQualifies
<1>3. row.type \notin {"BUY_N_GET_M_FREE", "FREE_DELIVERY_ABOVE_AMOUNT"} =>
        Matching(c, row.scope) = Matching(c, other.scope) /\ (row.scope = {} <=> other.scope = {})
  BY DEF Twins
<1>4. row.type = "BUY_N_GET_M_FREE" =>
        /\ Matching(c, BuyFrom(row)) = Matching(c, BuyFrom(other)) /\ (BuyFrom(row) = {} <=> BuyFrom(other) = {})
        /\ Matching(c, FreeFrom(row)) = Matching(c, FreeFrom(other)) /\ (FreeFrom(row) = {} <=> FreeFrom(other) = {})
        /\ BuyFrom(row) = FreeFrom(row) <=> BuyFrom(other) = FreeFrom(other)
  BY DEF Twins
<1>5. row.type = "BUY_N_GET_M_FREE" => BuyGetDiscount(row, c) = BuyGetDiscount(other, c)
  BY <1>4 DEF BuyGetDiscount
<1>6. Discount(row, c) = Discount(other, c)
  <2>1. CASE row.type = "FREE_DELIVERY_ABOVE_AMOUNT"
    BY <1>1, <2>1 DEF Discount
  <2>2. CASE row.type = "BUY_N_GET_M_FREE"
    <3>1. Discount(row, c) = BuyGetDiscount(row, c) /\ Discount(other, c) = BuyGetDiscount(other, c)
      BY <2>2 DEF Discount
    <3> QED
      BY <1>5, <2>2, <3>1
  <2>3. CASE row.type \notin {"BUY_N_GET_M_FREE", "FREE_DELIVERY_ABOVE_AMOUNT"}
    BY <1>3, <2>3 DEF Discount
  <2> QED
    BY <2>1, <2>2, <2>3
<1>7. CartQualifies(row, c, type) <=> CartQualifies(other, c, type)
  <2>1. CASE row.type = "FREE_DELIVERY_ABOVE_AMOUNT"
    BY <2>1 DEF CartQualifies
  <2>2. CASE row.type = "BUY_N_GET_M_FREE"
    BY <1>4, <1>5, <2>2 DEF CartQualifies, Aimed
  <2>3. CASE row.type \notin {"BUY_N_GET_M_FREE", "FREE_DELIVERY_ABOVE_AMOUNT"}
    BY <1>3, <2>3 DEF CartQualifies, Aimed
  <2> QED
    BY <2>1, <2>2, <2>3
<1>8. Eligible(row, c, type, customer) <=> Eligible(other, c, type, customer)
  BY <1>2, <1>7 DEF Eligible
<1> DEFINE eligible(r) == {x \in {r} : Eligible(x, c, type, customer)}
           discounts(r) == {Discount(x, c) : x \in {y \in eligible(r) : ~FreesDelivery(y)}}
           free(r) == \E x \in eligible(r) : FreesDelivery(x)
<1>9. discounts(row) = discounts(other) /\ (free(row) <=> free(other))
  BY <1>1, <1>6, <1>8
<1>10. \A r : EvaluatePromotions({r}, c, type, customer) =
                [discount |-> IF discounts(r) = {} THEN 0 ELSE Max(discounts(r)), freeDelivery |-> free(r)]
  BY DEF EvaluatePromotions
<1> HIDE DEF eligible, discounts, free
<1>11. EvaluatePromotions({row}, c, type, customer) = EvaluatePromotions({other}, c, type, customer)
  <2> DEFINE largest(r) == IF discounts(r) = {} THEN 0 ELSE Max(discounts(r))
  <2>1. largest(row) = largest(other)
    BY <1>9
  <2>2. /\ EvaluatePromotions({row}, c, type, customer) = [discount |-> largest(row), freeDelivery |-> free(row)]
        /\ EvaluatePromotions({other}, c, type, customer) = [discount |-> largest(other), freeDelivery |-> free(other)]
    BY <1>10
  <2> HIDE DEF largest
  <2>3. free(row) \in BOOLEAN /\ free(other) \in BOOLEAN
    BY DEF free
  <2>4. free(row) = free(other)
    BY <1>9, <2>3
  <2> QED
    BY <2>1, <2>2, <2>4
<1> QED
  BY <1>11 DEF Charge

\* A list whose targets are all still there, expanded by any menu the editor may
\* have read since.
LEMMA ExpandedTwins ==
  ASSUME NEW known \in SUBSET Entries, entries \subseteq known, NEW targets \in SUBSET Entries,
         Invalid(targets, entries) = {}
  PROVE  Twins(targets, NormalizeTargets(targets, known))
<1> DEFINE expanded == NormalizeTargets(targets, known)
           parts(t) == IF t \in Expandable THEN Items(t, known) ELSE {t}
<1>1. \A t \in targets : t \in entries /\ (t \in Expandable => Items(t, entries) # {})
  BY EditorTables DEF Invalid, TargetOptions
<1>2. Invalid(targets, known) = {}
  BY <1>1 DEF Invalid, TargetOptions, Items
<1>3. expanded = UNION {parts(t) : t \in targets}
  BY <1>2 DEF NormalizeTargets
<1>4. \A t \in targets : parts(t) # {}
  BY <1>1 DEF Items
<1>5. targets = {} <=> expanded = {}
  BY <1>3, <1>4
<1>6. ASSUME NEW c \in Orderable
      PROVE  Matching(c, targets) = Matching(c, expanded)
  <2>1. ASSUME NEW v \in Lines(c)
        PROVE  KeysOf[v] \cap targets # {} <=> KeysOf[v] \cap expanded # {}
    <3>1. v \in Variations /\ KeysOf[v] \subseteq entries
      BY DEF Orderable, Lines
    <3>2. \A t \in targets : t \in Expandable => (t \in KeysOf[v] <=> ChildrenOf[t] \cap KeysOf[v] # {})
      BY <1>1, <3>1, SectionsAndItems, EditorTables DEF Expandable
    <3>3. \A t \in targets : t \in KeysOf[v] <=> parts(t) \cap KeysOf[v] # {}
      BY <3>1, <3>2 DEF Items
    <3> HIDE DEF parts, expanded
    <3> QED
      BY <1>3, <3>3
  <2> QED
    BY <1>5, <2>1 DEF Matching
<1> QED
  BY <1>5, <1>6 DEF Twins

LEMMA NoTargetsExpanded == \A known : NormalizeTargets({}, known) = {}
  BY DEF NormalizeTargets, Invalid

\* The row a save stores and the draft of the preview differ in nothing the server
\* computes with.
LEMMA SavedIsAlike ==
  ASSUME OffersOK, SaveArrives,
         \A g \in Groups : Invalid(sent.form.targets[g], entries) = {},
         TargetsUnchanged(sent) => SidesNamedAlike(sent.form, sent.menu)
  PROVE  SameOffer(offer', DraftPromotion(sent.form, sent.menu))
<1> DEFINE form == sent.form
           draft == DraftPromotion(form, sent.menu)
           new == offer'
<1>1. PICK merged \in OfferRow, groups \in [Groups -> SUBSET Entries] :
        /\ RowAccepted(merged)
        /\ new = Normalized(merged, groups)
        /\ \A f \in OfferFields \ Groups : merged[f] = draft[f]
        /\ Grouped(draft, groups)
  BY SaveWrites
<1>2. /\ form \in Forms /\ CanSave(form) /\ sent.menu \in SUBSET Entries /\ entries \subseteq sent.menu
      /\ sent \in SentEditors /\ sent.row = offer
  BY SaveFinds
<1>3. \A f \in {"type", "value", "window", "active", "required", "buy", "free", "mode", "percent", "rule"} :
        f \in OfferFields \ Groups
  BY DEF OfferFields, Groups
<1>4. /\ merged.type = draft.type /\ merged.value = draft.value /\ merged.window = draft.window
      /\ merged.active = draft.active /\ merged.required = draft.required /\ merged.buy = draft.buy
      /\ merged.free = draft.free /\ merged.mode = draft.mode /\ merged.percent = draft.percent
      /\ merged.rule = draft.rule
  BY <1>1, <1>3
<1>5. /\ draft.type = DerivePromotionType(form)
      /\ draft.value = IF form.behavior \in {"BUY_N_GET_M_FREE", "FIRST_TIME_FREE_ITEM"} \/ form.value = None
                       THEN 0 ELSE form.value
      /\ draft.required = IF form.behavior # "FIRST_TIME_FREE_ITEM" /\ form.eligibility = "AFTER_ORDER_COUNT"
                          THEN form.required ELSE None
  BY DEF DraftPromotion
<1>6. /\ draft.buy = IF form.behavior = "BUY_N_GET_M_FREE" THEN form.buy ELSE None
      /\ draft.free = IF form.behavior = "BUY_N_GET_M_FREE" THEN form.free ELSE None
      /\ draft.mode = IF form.behavior = "FREE_DELIVERY_ABOVE_AMOUNT" THEN form.mode ELSE None
      /\ draft.percent = IF form.mode = "PERCENTAGE_DISCOUNT" /\ form.behavior = "FREE_DELIVERY_ABOVE_AMOUNT"
                         THEN form.percent ELSE None
      /\ draft.rule = FALSE
  BY DEF DraftPromotion
<1>7. /\ draft.scope = TargetsFor(form, "scope", sent.menu)
      /\ draft.buyFrom = TargetsFor(form, "buyFrom", sent.menu)
      /\ draft.freeFrom = TargetsFor(form, "freeFrom", sent.menu)
  BY DEF DraftPromotion
<1>8. form.behavior \in Behaviors /\ form.mode \in {"FREE_DELIVERY", "PERCENTAGE_DISCOUNT"}
  BY <1>2, FormFields
<1> HIDE DEF draft
<1>9. /\ form.behavior = "FIXED_DISCOUNT" <=> draft.type \in {"FIRST_TIME", "LOYALTY", "TEMPORARY"}
      /\ form.behavior # "FIXED_DISCOUNT" => draft.type = form.behavior
      /\ draft.type = "FIRST_TIME" => form.eligibility = "NEW_CUSTOMERS"
  BY <1>2, <1>5, DraftType
<1>10. groups.scope \in SUBSET Entries /\ groups.buyFrom \in SUBSET Entries /\ groups.freeFrom \in SUBSET Entries
  BY DEF Groups
<1>11. /\ new.type = merged.type /\ new.window = merged.window /\ new.active = merged.active
       /\ new.scope = groups.scope /\ new.buyFrom = groups.buyFrom /\ new.freeFrom = groups.freeFrom
       /\ new.buy = IF merged.type = "BUY_N_GET_M_FREE" THEN merged.buy ELSE None
       /\ new.free = IF merged.type = "BUY_N_GET_M_FREE" THEN merged.free ELSE None
  BY <1>1, <1>10, NormalizedFields
<1>12. /\ new.mode = IF merged.type = "FREE_DELIVERY_ABOVE_AMOUNT" THEN FreeDeliveryMode(merged) ELSE None
       /\ new.percent = IF merged.type = "FREE_DELIVERY_ABOVE_AMOUNT" /\ FreeDeliveryMode(merged) = "PERCENTAGE_DISCOUNT"
                        THEN merged.percent ELSE None
       /\ new.required = IF merged.type = "FREE_DELIVERY_ABOVE_AMOUNT" \/ merged.type \in FirstTime
                         THEN None ELSE merged.required
       /\ new.rule = (merged.type = "LOYALTY" /\ merged.rule)
       /\ new.value = IF merged.type \in {"BUY_N_GET_M_FREE", "FIRST_TIME_FREE_ITEM"} THEN 0 ELSE merged.value
  BY <1>1, <1>10, NormalizedFields
<1> HIDE DEF new, form
<1>13. new.type = draft.type /\ new.window = draft.window /\ new.active = draft.active
  BY <1>4, <1>11
<1>14. new.value = draft.value
  BY <1>4, <1>5, <1>8, <1>9, <1>12 DEF Behaviors
<1>15. new.buy = draft.buy /\ new.free = draft.free
  BY <1>4, <1>6, <1>8, <1>9, <1>11 DEF Behaviors
<1>16. new.mode = draft.mode /\ new.percent = draft.percent
  <2>1. CASE form.behavior = "FREE_DELIVERY_ABOVE_AMOUNT"
    <3>1. FreeDeliveryMode(merged) = form.mode /\ merged.type = "FREE_DELIVERY_ABOVE_AMOUNT"
      BY <1>4, <1>6, <1>8, <1>9, <2>1, OfferTables DEF FreeDeliveryMode
    <3> QED
      BY <1>4, <1>6, <1>8, <1>12, <2>1, <3>1
  <2>2. CASE form.behavior # "FREE_DELIVERY_ABOVE_AMOUNT"
    BY <1>4, <1>6, <1>8, <1>9, <1>12, <2>2 DEF Behaviors
  <2> QED
    BY <2>1, <2>2
<1>17. RequiredOrders(new) = RequiredOrders(draft)
  <2>1. CASE draft.type = "FREE_DELIVERY_ABOVE_AMOUNT"
    BY <1>13, <2>1 DEF RequiredOrders
  <2>2. CASE draft.type # "FREE_DELIVERY_ABOVE_AMOUNT"
    <3>1. new.required = draft.required
      BY <1>4, <1>5, <1>8, <1>9, <1>12, <2>2 DEF Behaviors, FirstTime
    <3>2. new.rule = FALSE /\ draft.rule = FALSE
      BY <1>4, <1>6, <1>12
    <3> QED
      BY <1>13, <2>2, <3>1, <3>2 DEF RequiredOrders
  <2> QED
    BY <2>1, <2>2
<1>18. CASE ~TargetsUnchanged(sent)
  <2>1. groups = NormalizeTargetGroups(draft)
    BY <1>1, <1>18 DEF Grouped
  <2>2. CASE form.behavior \in {"FIXED_DISCOUNT", "FIRST_TIME_FREE_ITEM"}
    <3>1. groups.scope = draft.scope
      BY <1>9, <2>1, <2>2 DEF NormalizeTargetGroups, Groups
    <3>2. Twins(new.scope, draft.scope)
      BY <1>11, <3>1 DEF Twins
    <3>3. draft.type \notin {"BUY_N_GET_M_FREE", "FREE_DELIVERY_ABOVE_AMOUNT"}
      BY <1>9, <2>2
    <3> QED
      BY <1>13, <1>14, <1>15, <1>16, <1>17, <3>2, <3>3, AlikeRows DEF draft, form, new
  <2>3. CASE form.behavior = "BUY_N_GET_M_FREE"
    <3>1. draft.scope = {} /\ draft.type = "BUY_N_GET_M_FREE"
      BY <1>7, <1>9, <2>3 DEF TargetsFor, Pickers
    <3>2. groups.scope = {} /\ groups.buyFrom = draft.buyFrom /\ groups.freeFrom = draft.freeFrom
      BY <2>1, <3>1 DEF NormalizeTargetGroups, Groups
    <3>3. BuyFrom(new) = BuyFrom(draft) /\ FreeFrom(new) = FreeFrom(draft)
      BY <1>11, <3>1, <3>2 DEF BuyFrom, FreeFrom
    <3>4. Twins(BuyFrom(new), BuyFrom(draft)) /\ Twins(FreeFrom(new), FreeFrom(draft))
      BY <3>3 DEF Twins
    <3> QED
      BY <1>13, <1>14, <1>15, <1>16, <1>17, <3>1, <3>3, <3>4, AlikeRows DEF draft, form, new
  <2>4. CASE form.behavior = "FREE_DELIVERY_ABOVE_AMOUNT"
    BY <1>9, <1>13, <1>14, <1>15, <1>16, <1>17, <2>4, AlikeRows DEF draft, form, new
  <2> QED
    BY <1>8, <2>2, <2>3, <2>4 DEF Behaviors
<1>19. CASE TargetsUnchanged(sent)
  <2>1. /\ offer # None /\ form.behavior = InferBehavior(offer)
        /\ form.targets = FormOf(offer).targets /\ form.modes = FormOf(offer).modes
    BY <1>2, <1>19, UntouchedForm DEF form
  <2>2. offer \in OfferRow
    BY <2>1 DEF OffersOK, SoundRow
  <2> DEFINE shown == [g \in Groups |-> IF g # "scope" /\ offer[g] = {} /\ offer.type = "BUY_N_GET_M_FREE"
                                       THEN offer.scope ELSE offer[g]]
             chosen == [g \in Groups |-> IF shown[g] # {} THEN "SPECIFIC_TARGETS" ELSE "WHOLE_MENU"]
  <2>14. form.targets = shown
    BY <2>1 DEF FormOf, EmptyForm
  <2>15. form.modes = chosen
    BY <2>1 DEF FormOf, EmptyForm
  <2>3. \A g \in Groups : form.targets[g] =
           IF g # "scope" /\ offer[g] = {} /\ offer.type = "BUY_N_GET_M_FREE" THEN offer.scope ELSE offer[g]
    BY <2>14
  <2>4. \A g \in Groups : form.modes[g] = IF form.targets[g] # {} THEN "SPECIFIC_TARGETS" ELSE "WHOLE_MENU"
    BY <2>14, <2>15
  <2> HIDE DEF shown, chosen
  <2>5. \A g \in Groups : offer[g] \in SUBSET Entries
    BY <2>2, OfferRowFields DEF Groups
  <2>6. \A g \in Groups : form.targets[g] \in SUBSET Entries /\ Invalid(form.targets[g], entries) = {}
    <3>1. offer.scope \in SUBSET Entries
      BY <2>2, OfferRowFields
    <3> QED
      BY <2>3, <2>5, <3>1 DEF form
  <2>7. \A g \in Groups : g \in Pickers(form.behavior) =>
           TargetsFor(form, g, sent.menu) = NormalizeTargets(form.targets[g], sent.menu)
    BY <2>4, NoTargetsExpanded DEF TargetsFor
  <2>8. \A g \in Groups : Twins(form.targets[g], NormalizeTargets(form.targets[g], sent.menu))
    BY <1>2, <2>6, ExpandedTwins
  <2>9. groups.scope = offer.scope
    BY <1>1, <1>19 DEF Grouped
  <2>10. offer.type \in {"TEMPORARY", "LOYALTY", "BUY_N_GET_M_FREE", "FREE_DELIVERY_ABOVE_AMOUNT"} \cup FirstTime
    BY <2>2, OfferRowFields
  <2>11. CASE form.behavior \in {"FIXED_DISCOUNT", "FIRST_TIME_FREE_ITEM"}
    <3>1. draft.scope = NormalizeTargets(form.targets["scope"], sent.menu) /\ form.targets["scope"] = offer.scope
      BY <1>7, <2>3, <2>7, <2>11 DEF Pickers, Groups
    <3>2. Twins(new.scope, draft.scope)
      BY <1>11, <2>8, <2>9, <3>1 DEF Groups
    <3>3. draft.type \notin {"BUY_N_GET_M_FREE", "FREE_DELIVERY_ABOVE_AMOUNT"}
      BY <1>9, <2>11
    <3> QED
      BY <1>13, <1>14, <1>15, <1>16, <1>17, <3>2, <3>3, AlikeRows DEF draft, form, new
  <2>12. CASE form.behavior = "BUY_N_GET_M_FREE"
    <3>1. offer.type = "BUY_N_GET_M_FREE" /\ draft.type = "BUY_N_GET_M_FREE"
      BY <1>9, <2>1, <2>12 DEF InferBehavior
    <3>2. groups.buyFrom = offer.buyFrom /\ groups.freeFrom = offer.freeFrom
      BY <1>1, <1>19, <3>1 DEF Grouped
    <3>3. BuyFrom(new) = form.targets["buyFrom"] /\ FreeFrom(new) = form.targets["freeFrom"]
      BY <1>11, <2>3, <2>9, <3>1, <3>2 DEF BuyFrom, FreeFrom, Groups
    <3>4. /\ draft.scope = {}
          /\ draft.buyFrom = NormalizeTargets(form.targets["buyFrom"], sent.menu)
          /\ draft.freeFrom = NormalizeTargets(form.targets["freeFrom"], sent.menu)
      BY <1>7, <2>7, <2>12 DEF Pickers, Groups, TargetsFor
    <3>5. BuyFrom(draft) = draft.buyFrom /\ FreeFrom(draft) = draft.freeFrom
      BY <3>4 DEF BuyFrom, FreeFrom
    <3>6. Twins(BuyFrom(new), BuyFrom(draft)) /\ Twins(FreeFrom(new), FreeFrom(draft))
      BY <2>8, <3>3, <3>4, <3>5 DEF Groups
    <3>7. BuyFrom(new) = FreeFrom(new) <=> BuyFrom(draft) = FreeFrom(draft)
      BY <1>19, <3>3, <3>4, <3>5 DEF SidesNamedAlike, form
    <3> QED
      BY <1>13, <1>14, <1>15, <1>16, <1>17, <3>1, <3>6, <3>7, AlikeRows DEF draft, form, new
  <2>13. CASE form.behavior = "FREE_DELIVERY_ABOVE_AMOUNT"
    BY <1>9, <1>13, <1>14, <1>15, <1>16, <1>17, <2>13, AlikeRows DEF draft, form, new
  <2> QED
    BY <1>8, <2>11, <2>12, <2>13 DEF Behaviors
<1> QED
  BY <1>18, <1>19

(* The row a save stores takes off every cart of every customer what the   *)
(* preview would that was shown when Save was pressed, whatever is typed,  *)
(* cancelled or deleted while it is under way, if no target in the form is *)
(* gone and an untouched buy-and-get offer does not name a section on one  *)
(* side and its items on the other.                                        *)
THEOREM PreviewIsWhatIsSaved == OffersSpec => SavedAsShown
<1>1. OffersOK =>
        [(/\ SaveArrives /\ \A g \in Groups : Invalid(sent.form.targets[g], entries) = {}
          /\ TargetsUnchanged(sent) => SidesNamedAlike(sent.form, sent.menu))
           => SameOffer(offer', DraftPromotion(sent.form, sent.menu))]_editorVars
  BY SavedIsAlike
<1> QED
  BY <1>1, OffersKept, PTL DEF SavedAsShown
=============================================================================
