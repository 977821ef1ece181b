--------------------------- MODULE FrontdeskBoard ---------------------------
(***************************************************************************)
(* The shop's tablet: the board of orders kept by useFrontdeskOrders, fed  *)
(* by push notifications, a poll and the answers to its own buttons, and   *)
(* the receipts it prints.  Every request is asynchronous: the server      *)
(* reads or writes at one moment, the answer arrives at a later one, and   *)
(* in between other handlers change the board.  Pushes may be lost, come   *)
(* late and come twice; any request may fail, also after the server did    *)
(* what it asked for.                                                      *)
(***************************************************************************)
EXTENDS Naturals, Sequences

CONSTANTS
  Orders,      \* orders that may be placed (bounds the model)
  Deliveries,  \* the ones with order_type delivery
  Calls,       \* requests about single orders the tablet has on their way
  Limit,       \* length of the list the board is filled from, 50 in the code
  None

ASSUME BoardConstants ==
  /\ Deliveries \subseteq Orders
  /\ None \notin Orders
  /\ Limit \in Nat \ {0}

VARIABLES
  srv,         \* what the server has for each order
  placed,      \* orders by created_at, the newest last
  pushes,      \* notifications on their way to the tablet
  board,       \* the status on an order's card, "HIDDEN" without a card
  load,        \* the request for the list of orders, one at a time
  call,        \* the requests about single orders
  receipt      \* none, in the queue of failed prints, or printed or dismissed

server == <<srv, placed>>
vars == <<server, pushes, board, load, call, receipt>>

-----------------------------------------------------------------------------
(* Types *)

\* ACCEPTED to OUT_FOR_DELIVERY are one to the board: "OPEN".
Actionable == {"NEW", "OPEN"}
Statuses == Actionable \cup {"DONE", "CANCELLED"}
Cards == Actionable \cup {"HIDDEN"}
Presses == {"accept", "reject", "advance", "cancel", "finish"}

\* A request is sent, has its answer on the way back, or, for an accepted
\* order, is printing.
Call == [kind   : Presses \cup {"fetch", "refetch", "idle"},
         order  : Orders \cup {None},
         step   : {"idle", "sent", "answered", "printing"},
         answer : Statuses \cup {None}]

NoCall == [kind |-> "idle", order |-> None, step |-> "idle", answer |-> None]

Load == [step : {"idle", "sent", "answered", "drivers"}, list : [Orders -> Cards]]

NoCards == [o \in Orders |-> "HIDDEN"]
NoLoad == [step |-> "idle", list |-> NoCards]

Push == [order : Orders, type : {"new", "cancelled"}]

TypeOK ==
  /\ srv \in [Orders -> Statuses \cup {"ABSENT"}]
  /\ placed \in Seq(Orders)
  /\ pushes \subseteq Push
  /\ board \in [Orders -> Cards]
  /\ load \in Load
  /\ call \in [Calls -> Call]
  /\ receipt \in [Orders -> {"none", "queued", "settled"}]

-----------------------------------------------------------------------------
(* The server, as the tablet sees it *)

Card(s) == IF s \in Actionable THEN s ELSE "HIDDEN"

Notified(o, type) == pushes' = pushes \cup {[order |-> o, type |-> type]}

\* A customer places an order.
Place(o) ==
  /\ srv[o] = "ABSENT"
  /\ srv' = [srv EXCEPT ![o] = "NEW"]
  /\ placed' = Append(placed, o)
  /\ Notified(o, "new")
  /\ UNCHANGED <<board, load, call, receipt>>

Cancelled(o) == srv' = [srv EXCEPT ![o] = "CANCELLED"] /\ Notified(o, "cancelled")

\* Customers, drivers and administrators change orders too.
ChangedElsewhere(o) ==
  /\ \/ srv[o] = "NEW" /\ srv' = [srv EXCEPT ![o] = "OPEN"] /\ UNCHANGED pushes
     \/ srv[o] = "OPEN" /\ srv' = [srv EXCEPT ![o] = "DONE"] /\ UNCHANGED pushes
     \/ srv[o] \in Actionable /\ Cancelled(o)
  /\ UNCHANGED <<placed, board, load, call, receipt>>

\* list_latest_orders: the newest orders, whatever their status.  An open order
\* with Limit newer ones, of any status, is not in the list.
Newest == {placed[i] : i \in {j \in DOMAIN placed : j + Limit > Len(placed)}}

Latest == [o \in Orders |-> IF o \in Newest THEN Card(srv[o]) ELSE "HIDDEN"]

-----------------------------------------------------------------------------
(* loadNewOrders *)

\* Nothing happens while a load is in flight.
LoadNewOrders ==
  load' = IF load.step = "idle" THEN [NoLoad EXCEPT !.step = "sent"] ELSE load

\* At start, every few minutes, on return to the foreground and on refresh.
\* Time in the background only puts the poll off.
Poll ==
  /\ load.step = "idle"
  /\ LoadNewOrders
  /\ UNCHANGED <<server, pushes, board, call, receipt>>

ListOrders ==
  /\ load.step = "sent"
  /\ load' = [step |-> "answered", list |-> Latest]
  /\ UNCHANGED <<server, pushes, board, call, receipt>>

\* Broken variant: the list is added to the board instead of replacing it.
MergedBoard == [o \in Orders |-> IF load.list[o] = "HIDDEN" THEN board[o] ELSE load.list[o]]

ReplacedBoard == load.list

\* The list replaces the board; then the drivers are asked for.
ShowList ==
  /\ load.step = "answered"
  /\ board' = ReplacedBoard
  /\ load' = [NoLoad EXCEPT !.step = "drivers"]
  /\ UNCHANGED <<server, pushes, call, receipt>>

\* Broken variant: an error leaves the flag of the load in flight set.
StuckLoad == load

\* The flag is cleared whether the list and the drivers came or not.
LoadReleased == NoLoad

LoadEnds ==
  /\ load.step # "idle"
  /\ load' = LoadReleased
  /\ UNCHANGED <<server, pushes, board, call, receipt>>

-----------------------------------------------------------------------------
(* Pushes *)

Send(k, kind, o) ==
  /\ call[k] = NoCall
  /\ call' = [call EXCEPT ![k] = [NoCall EXCEPT !.kind = kind, !.order = o, !.step = "sent"]]

\* A new order is fetched; a cancelled one is taken off and the list reloaded.
\* A push may be handled late, never (lost, or a reorder, for which none is
\* sent) or again (both listeners call the handler): it stays on its way.
HandlePush(p) ==
  /\ p \in pushes
  /\ \/ /\ p.type = "new"
        /\ \E k \in Calls : Send(k, "fetch", p.order)
        /\ UNCHANGED <<board, load>>
     \/ /\ p.type = "cancelled"
        /\ board' = [board EXCEPT ![p.order] = "HIDDEN"]
        /\ LoadNewOrders
        /\ UNCHANGED call
  /\ UNCHANGED <<server, pushes, receipt>>

-----------------------------------------------------------------------------
(* Buttons *)

\* The buttons an order's card offers.
Offered(card) ==
  CASE card = "NEW"  -> {"accept", "reject"}
    [] card = "OPEN" -> {"advance", "cancel", "finish"}
    [] OTHER         -> {}

\* Broken variant: the card changes before the server has answered.
PressedOptimistic(press, o) ==
  board' = [board EXCEPT ![o] = IF press = "accept" THEN "OPEN" ELSE @]

PressedCard(press, o) == UNCHANGED board

Press(k, press, o) ==
  /\ press \in Offered(board[o])
  /\ Send(k, press, o)
  /\ PressedCard(press, o)
  /\ UNCHANGED <<server, pushes, load, receipt>>

\* The server carries the request out, or reads the order; it refuses a press
\* its own status does not allow (then the call fails).
Serve(k) ==
  LET c == call[k]
      o == c.order
  IN
  /\ c.step = "sent"
  /\ \/ c.kind \in {"fetch", "refetch"} /\ UNCHANGED <<srv, pushes>>
     \/ /\ c.kind = "accept" /\ srv[o] = "NEW"
        /\ srv' = [srv EXCEPT ![o] = "OPEN"] /\ UNCHANGED pushes
     \/ /\ c.kind = "advance" /\ srv[o] = "OPEN" /\ UNCHANGED <<srv, pushes>>
     \/ /\ c.kind = "finish" /\ srv[o] = "OPEN"
        /\ srv' = [srv EXCEPT ![o] = "DONE"] /\ UNCHANGED pushes
     \/ /\ c.kind \in {"reject", "cancel"} /\ srv[o] \in Actionable /\ Cancelled(o)
  /\ call' = [call EXCEPT ![k].step = "answered", ![k].answer = srv'[o]]
  /\ UNCHANGED <<placed, board, load, receipt>>

\* The card an answer leaves: a fetched order is shown if it still is NEW, an
\* order's new status if it is actionable.
CardAfter(c) ==
  IF c.kind = "fetch" /\ c.answer # "NEW" THEN board[c.order] ELSE Card(c.answer)

\* An answer arrives.  An accepted order goes on to the printer.
Receive(k) ==
  LET c == call[k] IN
  /\ c.step = "answered"
  /\ board' = [board EXCEPT ![c.order] = CardAfter(c)]
  /\ call' = [call EXCEPT ![k] = IF c.kind = "accept" THEN [c EXCEPT !.step = "printing"] ELSE NoCall]
  /\ UNCHANGED <<server, pushes, load, receipt>>

\* The request failed or its answer was lost.  Only a failed fetch does more
\* than show a banner: it reloads the list.
Fail(k) ==
  LET c == call[k] IN
  /\ c.step \in {"sent", "answered"}
  /\ call' = [call EXCEPT ![k] = NoCall]
  /\ IF c.kind = "fetch" THEN LoadNewOrders ELSE UNCHANGED load
  /\ UNCHANGED <<server, pushes, board, receipt>>

-----------------------------------------------------------------------------
(* Receipts *)

\* A failed print joins the queue of failed prints.
PrintResult(o, ok) == [receipt EXCEPT ![o] = IF ok THEN "settled" ELSE "queued"]

\* After acceptance the receipt is printed; a delivery is then fetched again.
PrintAccepted(k, ok) ==
  LET c == call[k] IN
  /\ c.step = "printing"
  /\ receipt' = PrintResult(c.order, ok)
  /\ call' = [call EXCEPT ![k] =
       IF c.order \in Deliveries THEN [NoCall EXCEPT !.kind = "refetch", !.order = c.order, !.step = "sent"]
                                 ELSE NoCall]
  /\ UNCHANGED <<server, pushes, board, load>>

\* Broken variant: a card that waits for acceptance has a print button too.
PrintableNew(o) == board[o] # "HIDDEN"

Printable(o) == board[o] = "OPEN"

\* printOrder from a card, or for an order in the queue of failed prints.
PrintOrder(o, ok) ==
  /\ Printable(o) \/ receipt[o] = "queued"
  /\ receipt' = PrintResult(o, ok)
  /\ UNCHANGED <<server, pushes, board, load, call>>

DismissFailed(o) ==
  /\ receipt[o] = "queued"
  /\ receipt' = [receipt EXCEPT ![o] = "settled"]
  /\ UNCHANGED <<server, pushes, board, load, call>>

-----------------------------------------------------------------------------
Init ==
  /\ srv = [o \in Orders |-> "ABSENT"]
  /\ placed = <<>>
  /\ pushes = {}
  /\ board = NoCards
  /\ load = NoLoad
  /\ call = [k \in Calls |-> NoCall]
  /\ receipt = [o \in Orders |-> "none"]

Handle(k) ==
  Serve(k) \/ Receive(k) \/ Fail(k) \/ \E ok \in BOOLEAN : PrintAccepted(k, ok)

Next ==
  \/ \E o \in Orders : Place(o) \/ ChangedElsewhere(o)
  \/ Poll \/ ListOrders \/ ShowList \/ LoadEnds
  \/ \E p \in pushes : HandlePush(p)
  \/ \E k \in Calls, press \in Presses, o \in Orders : Press(k, press, o)
  \/ \E k \in Calls : Handle(k)
  \/ \E o \in Orders : DismissFailed(o) \/ \E ok \in BOOLEAN : PrintOrder(o, ok)

\* Requests end, by an answer or by the client's timeout of 20 seconds; the
\* poll's timer fires; a list that is asked for again and again arrives at last.
Fairness ==
  /\ \A k \in Calls : WF_vars(Handle(k))
  /\ WF_vars(LoadEnds) /\ WF_vars(Poll)
  /\ SF_vars(ListOrders) /\ SF_vars(ShowList)

Spec == Init /\ [][Next]_vars /\ Fairness
-----------------------------------------------------------------------------
(* Safety *)

\* The board never runs ahead of the server: a card stands for an order that
\* was placed, and one shown as accepted was accepted, however late the answers.
BoardNotAhead ==
  \A o \in Orders :
    /\ board[o] # "HIDDEN" => srv[o] # "ABSENT"
    /\ board[o] = "OPEN" => srv[o] # "NEW"

\* No receipt is printed, or queued for printing, for an order the shop has not
\* accepted: the card or the answer that leads to the printer may be old, never
\* too new.
PrintedWasAccepted ==
  \A o \in Orders : receipt[o] # "none" => srv[o] \notin {"ABSENT", "NEW"}

-----------------------------------------------------------------------------
(* Liveness *)

\* An order among the newest has the card of its status; an older one may have
\* lost its card to a list it is no longer in, but has no wrong one.
BoardAgrees ==
  \A o \in Orders :
    board[o] = Card(srv[o]) \/ (board[o] = "HIDDEN" /\ o \notin Newest)

\* Once nobody changes orders any more the board is right about every order,
\* whatever was lost, late or handled out of order before: the open ones among
\* the newest are on it, and no card is there for an order that is closed.
BoardConverges == <>[]BoardAgrees

\* A new order gets its card although its push may be lost, unless somebody
\* else takes it first or Limit newer orders push it off the list.
NewOrderShown ==
  \A o \in Orders :
    srv[o] = "NEW" ~> (board[o] = "NEW" \/ srv[o] # "NEW" \/ o \notin Newest)

=============================================================================
