------------------------- MODULE FrontdeskBoardProofs -------------------------
(***************************************************************************)
(* What the tablet never gets wrong, for any number of orders, requests    *)
(* and any length of the list: its knowledge of an order may be old, but   *)
(* an order only moves on, so old knowledge never runs ahead.              *)
(***************************************************************************)
EXTENDS FrontdeskBoard, TLAPS

-----------------------------------------------------------------------------
(* The inductive invariant *)

\* What is known of an order once it is placed, and once it is accepted, stays.
Known(o) == srv[o] # "ABSENT"
Taken(o) == srv[o] \notin {"ABSENT", "NEW"}

\* A card, or the entry of a list, that says s of an order.
NotAhead(s, o) ==
  /\ s # "HIDDEN" => Known(o)
  /\ s = "OPEN" => Taken(o)

\* What a request on its way may rely on.
CallFacts(c) ==
  c.step # "idle" =>
    /\ c.order \in Orders
    /\ Known(c.order)
    /\ c.step = "answered" =>
         /\ c.answer \in Statuses
         /\ c.answer # "NEW" => Taken(c.order)
    /\ c.kind = "accept" /\ c.step = "answered" => Taken(c.order)
    /\ c.step = "printing" => Taken(c.order)

KnowledgeIsOld ==
  /\ \A o \in Orders : NotAhead(board[o], o)
  /\ \A o \in Orders : NotAhead(load.list[o], o)
  /\ \A k \in Calls : CallFacts(call[k])
  /\ \A p \in pushes : Known(p.order)
  /\ \A o \in Orders : receipt[o] # "none" => Taken(o)

Old == TypeOK /\ KnowledgeIsOld

-----------------------------------------------------------------------------
(* Orders only move on *)

MovesOn ==
  \A o \in Orders : (Known(o) => Known(o)') /\ (Taken(o) => Taken(o)')

\* No step of the server forgets that an order was placed or accepted.
LEMMA OrdersMoveOn ==
  ASSUME TypeOK, [Next]_vars
  PROVE  MovesOn
<1>1. ASSUME NEW o \in Orders, Place(o) PROVE MovesOn
  BY <1>1 DEF Place, MovesOn, Known, Taken, TypeOK
<1>2. ASSUME NEW o \in Orders, ChangedElsewhere(o) PROVE MovesOn
  BY <1>2 DEF ChangedElsewhere, Cancelled, Actionable, MovesOn, Known, Taken, TypeOK
<1>3. ASSUME NEW k \in Calls, Serve(k) PROVE MovesOn
  BY <1>3 DEF Serve, Cancelled, Actionable, MovesOn, Known, Taken, TypeOK
<1>4. ASSUME UNCHANGED srv PROVE MovesOn
  BY <1>4 DEF MovesOn, Known, Taken
<1>5. CASE Poll \/ ListOrders \/ ShowList \/ LoadEnds
  BY <1>4, <1>5 DEF Poll, ListOrders, ShowList, LoadEnds, server
<1>6. ASSUME NEW p \in pushes, HandlePush(p) PROVE MovesOn
  BY <1>4, <1>6 DEF HandlePush, server
<1>7. ASSUME NEW k \in Calls, NEW press \in Presses, NEW o \in Orders, Press(k, press, o)
      PROVE  MovesOn
  BY <1>4, <1>7 DEF Press, server
<1>8. ASSUME NEW k \in Calls, Handle(k) PROVE MovesOn
  BY <1>3, <1>4, <1>8 DEF Handle, Receive, Fail, PrintAccepted, server
<1>9. ASSUME NEW o \in Orders, DismissFailed(o) \/ \E ok \in BOOLEAN : PrintOrder(o, ok)
      PROVE  MovesOn
  BY <1>4, <1>9 DEF DismissFailed, PrintOrder, server
<1>10. CASE UNCHANGED vars
  BY <1>4, <1>10 DEF vars, server
<1>11. QED
  BY <1>1, <1>2, <1>5, <1>6, <1>7, <1>8, <1>9, <1>10 DEF Next

\* Old knowledge stays old: a step keeps KnowledgeIsOld when whatever it changes
\* on the board, in the list, in a request or in the queue says nothing new.
LEMMA StillOld ==
  ASSUME Old, MovesOn,
         \A o \in Orders : board'[o] = board[o] \/ NotAhead(board[o], o)',
         \A o \in Orders : load'.list[o] = load.list[o] \/ NotAhead(load.list[o], o)',
         \A k \in Calls : call'[k] = call[k] \/ CallFacts(call[k])',
         \A p \in pushes' : p \in pushes \/ Known(p.order)',
         \A o \in Orders : receipt'[o] = receipt[o] \/ Taken(o)'
  PROVE  KnowledgeIsOld'
<1>1. \A o \in Orders : NotAhead(board[o], o)'
  BY DEF Old, KnowledgeIsOld, MovesOn, NotAhead
<1>2. \A o \in Orders : NotAhead(load.list[o], o)'
  BY DEF Old, KnowledgeIsOld, MovesOn, NotAhead
<1>3. ASSUME NEW k \in Calls, call'[k] = call[k] PROVE CallFacts(call[k])'
  BY <1>3 DEF Old, KnowledgeIsOld, MovesOn, CallFacts
<1>4. \A p \in pushes' : Known(p.order)'
  <2>1. \A p \in pushes : p.order \in Orders
    BY DEF Old, TypeOK, Push
  <2>2. QED  BY <2>1 DEF Old, KnowledgeIsOld, MovesOn
<1>5. \A o \in Orders : receipt'[o] # "none" => Taken(o)'
  BY DEF Old, KnowledgeIsOld, MovesOn
<1>6. QED  BY <1>1, <1>2, <1>3, <1>4, <1>5 DEF KnowledgeIsOld

-----------------------------------------------------------------------------
(* The parts steps are made of *)

\* A load that starts shows nothing yet.
LEMMA LoadStarts ==
  ASSUME Old, LoadNewOrders
  PROVE  /\ load' \in Load
         /\ \A o \in Orders : load'.list[o] = load.list[o] \/ NotAhead(load.list[o], o)'
<1>1. NoLoad \in Load /\ \A o \in Orders : NoLoad.list[o] = "HIDDEN"
  BY DEF NoLoad, NoCards, Load, Cards
<1>2. [NoLoad EXCEPT !.step = "sent"] \in Load
  BY <1>1 DEF Load
<1>3. CASE load.step = "idle"
  <2>1. \A o \in Orders : load'.list[o] = "HIDDEN"
    BY <1>1, <1>3 DEF LoadNewOrders, Load
  <2>2. QED  BY <1>2, <1>3, <2>1 DEF LoadNewOrders, NotAhead
<1>4. CASE load.step # "idle"
  BY <1>4 DEF LoadNewOrders, Old, TypeOK
<1>5. QED  BY <1>3, <1>4

\* A request is sent only about an order that was placed.
LEMMA RequestSent ==
  ASSUME Old, MovesOn, NEW k \in Calls, NEW kind \in Presses \cup {"fetch", "refetch"},
         NEW o \in Orders, Known(o), Send(k, kind, o)
  PROVE  /\ call' \in [Calls -> Call]
         /\ \A j \in Calls : call'[j] = call[j] \/ CallFacts(call[j])'
<1> DEFINE c == [NoCall EXCEPT !.kind = kind, !.order = o, !.step = "sent"]
<1>1. c \in Call /\ c.step = "sent" /\ c.order = o
  BY DEF NoCall, Call
<1>2. call' = [call EXCEPT ![k] = c]
  BY DEF Send
<1> HIDE DEF c
<1>3. call' \in [Calls -> Call]
  BY <1>1, <1>2 DEF Old, TypeOK
<1>4. call'[k] = c /\ \A j \in Calls \ {k} : call'[j] = call[j]
  BY <1>2 DEF Old, TypeOK
<1>5. CallFacts(call[k])'
  BY <1>1, <1>4 DEF CallFacts, MovesOn
<1>6. QED  BY <1>3, <1>4, <1>5

\* A request that is over relies on nothing.
LEMMA RequestOver ==
  ASSUME Old, NEW k \in Calls, call' = [call EXCEPT ![k] = NoCall]
  PROVE  /\ call' \in [Calls -> Call]
         /\ \A j \in Calls : call'[j] = call[j] \/ CallFacts(call[j])'
<1>1. NoCall \in Call /\ NoCall.step = "idle"
  BY DEF NoCall, Call
<1>2. QED  BY <1>1 DEF Old, TypeOK, CallFacts

\* A print is tried only for an order that was accepted.
LEMMA ReceiptType ==
  ASSUME Old, NEW o \in Orders, NEW ok \in BOOLEAN, receipt' = PrintResult(o, ok), Taken(o)'
  PROVE  /\ receipt' \in [Orders -> {"none", "queued", "settled"}]
         /\ \A p \in Orders : receipt'[p] = receipt[p] \/ Taken(p)'
  BY DEF Old, TypeOK, PrintResult

-----------------------------------------------------------------------------
(* Steps of the server and of the list *)

\* The tablet starts with nothing on it.
LEMMA InitOld == Init => Old
<1>1. NoCall \in Call /\ NoLoad \in Load /\ NoCards \in [Orders -> Cards]
  BY DEF NoCall, Call, NoLoad, NoCards, Load, Cards
<1>2. Init => TypeOK
  BY <1>1 DEF Init, TypeOK
<1>3. Init => KnowledgeIsOld
  BY DEF Init, KnowledgeIsOld, NoCards, NoLoad, NotAhead, NoCall, CallFacts
<1>4. QED  BY <1>2, <1>3 DEF Old

\* A customer places an order.
LEMMA PlaceOld ==
  ASSUME Old, MovesOn, NEW o \in Orders, Place(o)
  PROVE  Old'
<1>1. TypeOK'
  BY DEF Old, TypeOK, Place, Notified, Push, Statuses, Actionable
<1>2. \A p \in pushes' : p \in pushes \/ Known(p.order)'
  BY DEF Old, TypeOK, Place, Notified, Known
<1>3. QED  BY <1>1, <1>2, StillOld DEF Old, Place

\* Somebody else changes an order.
LEMMA ChangedElsewhereOld ==
  ASSUME Old, MovesOn, NEW o \in Orders, ChangedElsewhere(o)
  PROVE  Old'
<1>1. TypeOK'
  BY DEF Old, TypeOK, ChangedElsewhere, Cancelled, Notified, Push, Statuses, Actionable
<1>2. \A p \in pushes' : p \in pushes \/ Known(p.order)'
  BY DEF Old, TypeOK, ChangedElsewhere, Cancelled, Notified, Known, Actionable
<1>3. QED  BY <1>1, <1>2, StillOld DEF Old, ChangedElsewhere

\* The poll asks for the list.
LEMMA PollOld ==
  ASSUME Old, MovesOn, Poll
  PROVE  Old'
<1>1. TypeOK'
  BY LoadStarts DEF Old, TypeOK, Poll, server
<1>2. QED  BY <1>1, LoadStarts, StillOld DEF Old, Poll, server

\* The server reads the list it answers with.
LEMMA ListOrdersOld ==
  ASSUME Old, MovesOn, ListOrders
  PROVE  Old'
<1>1. Latest \in [Orders -> Cards]
  BY DEF Latest, Card, Cards, Actionable
<1>2. [step |-> "answered", list |-> Latest] \in Load
  BY <1>1 DEF Load
<1>3. TypeOK'
  BY <1>2 DEF Old, TypeOK, ListOrders, server
<1>4. \A o \in Orders : NotAhead(load.list[o], o)'
  BY DEF ListOrders, Latest, Card, Actionable, NotAhead, Known, Taken, server
<1>5. QED  BY <1>3, <1>4, StillOld DEF Old, ListOrders, server

\* The list replaces the board.
LEMMA ShowListOld ==
  ASSUME Old, MovesOn, ShowList
  PROVE  Old'
<1>1. NoLoad \in Load /\ \A o \in Orders : NoLoad.list[o] = "HIDDEN"
  BY DEF NoLoad, NoCards, Load, Cards
<1>2. [NoLoad EXCEPT !.step = "drivers"] \in Load
  BY <1>1 DEF Load
<1>3. load.list \in [Orders -> Cards]
  BY DEF Old, TypeOK, Load
<1>4. TypeOK'
  BY <1>2, <1>3 DEF Old, TypeOK, ShowList, ReplacedBoard, server
<1>5. \A o \in Orders : load'.list[o] = "HIDDEN"
  BY <1>1 DEF ShowList, Load
<1>6. \A o \in Orders : NotAhead(load.list[o], o)'
  BY <1>5 DEF NotAhead
<1>7. \A o \in Orders : NotAhead(board[o], o)'
  BY DEF Old, KnowledgeIsOld, ShowList, ReplacedBoard, NotAhead, Known, Taken, server
<1>8. QED  BY <1>4, <1>6, <1>7, StillOld DEF Old, ShowList, server

\* A load ends.
LEMMA LoadEndsOld ==
  ASSUME Old, MovesOn, LoadEnds
  PROVE  Old'
<1>1. NoLoad \in Load /\ \A o \in Orders : NoLoad.list[o] = "HIDDEN"
  BY DEF NoLoad, NoCards, Load, Cards
<1>2. TypeOK'
  BY <1>1 DEF Old, TypeOK, LoadEnds, LoadReleased, server
<1>3. \A o \in Orders : NotAhead(load.list[o], o)'
  BY <1>1 DEF LoadEnds, LoadReleased, NotAhead
<1>4. QED  BY <1>2, <1>3, StillOld DEF Old, LoadEnds, server

-----------------------------------------------------------------------------
(* Steps of the tablet's handlers *)

\* A push takes a card off or has the order fetched.
LEMMA HandlePushOld ==
  ASSUME Old, MovesOn, NEW p \in pushes, HandlePush(p)
  PROVE  Old'
<1>1. p.order \in Orders /\ Known(p.order)
  BY DEF Old, TypeOK, KnowledgeIsOld, Push
<1>2. ASSUME NEW k \in Calls, Send(k, "fetch", p.order), UNCHANGED <<board, load>>
      PROVE  Old'
  <2>1. /\ call' \in [Calls -> Call]
        /\ \A j \in Calls : call'[j] = call[j] \/ CallFacts(call[j])'
    BY <1>1, <1>2, RequestSent
  <2>2. TypeOK'
    BY <1>2, <2>1 DEF Old, TypeOK, HandlePush, server
  <2>3. QED  BY <1>2, <2>1, <2>2, StillOld DEF Old, HandlePush, server
<1>3. ASSUME board' = [board EXCEPT ![p.order] = "HIDDEN"], LoadNewOrders, UNCHANGED call
      PROVE  Old'
  <2>1. TypeOK'
    BY <1>1, <1>3, LoadStarts DEF Old, TypeOK, HandlePush, server, Cards
  <2>2. \A o \in Orders : board'[o] = board[o] \/ NotAhead(board[o], o)'
    BY <1>1, <1>3 DEF Old, TypeOK, NotAhead
  <2>3. QED  BY <1>3, <2>1, <2>2, LoadStarts, StillOld DEF Old, HandlePush, server
<1>4. QED  BY <1>2, <1>3 DEF HandlePush

\* A button sends a request about an order that has a card.
LEMMA PressOld ==
  ASSUME Old, MovesOn, NEW k \in Calls, NEW press \in Presses, NEW o \in Orders,
         Press(k, press, o)
  PROVE  Old'
<1>1. Known(o)
  BY DEF Press, Offered, Old, KnowledgeIsOld, NotAhead
<1>2. /\ call' \in [Calls -> Call]
      /\ \A j \in Calls : call'[j] = call[j] \/ CallFacts(call[j])'
  BY <1>1, RequestSent DEF Press
<1>3. TypeOK'
  BY <1>2 DEF Old, TypeOK, Press, PressedCard, server
<1>4. QED  BY <1>2, <1>3, StillOld DEF Old, Press, PressedCard, server

\* The server carries a request out and answers with the status it leaves.
LEMMA ServeOld ==
  ASSUME Old, MovesOn, NEW k \in Calls, Serve(k)
  PROVE  Old'
<1> DEFINE c == call[k]
           d == [c EXCEPT !.step = "answered", !.answer = srv'[c.order]]
<1>1. c \in Call /\ c.step = "sent" /\ c.order \in Orders /\ Known(c.order)
  BY DEF Old, TypeOK, KnowledgeIsOld, CallFacts, Serve
<1>2. /\ srv' \in [Orders -> Statuses \cup {"ABSENT"}]
      /\ srv'[c.order] \in Statuses
      /\ c.kind = "accept" => srv'[c.order] = "OPEN"
  BY <1>1 DEF Old, TypeOK, Serve, Cancelled, Known, Statuses, Actionable
<1>3. pushes' \subseteq Push /\ \A p \in pushes' : p \in pushes \/ Known(p.order)'
  BY <1>1, <1>2 DEF Old, TypeOK, Serve, Cancelled, Notified, Push, Known, Statuses, Actionable
<1>4. d \in Call
  BY <1>1, <1>2 DEF Call
<1>5. d.step = "answered" /\ d.order = c.order /\ d.kind = c.kind /\ d.answer = srv'[c.order]
  BY <1>1 DEF Call
<1>6. call' = [call EXCEPT ![k] = d]
  BY DEF Serve
<1> HIDE DEF d
<1>7. call' \in [Calls -> Call] /\ call'[k] = d /\ \A j \in Calls \ {k} : call'[j] = call[j]
  BY <1>4, <1>6 DEF Old, TypeOK
<1>8. TypeOK'
  BY <1>1, <1>2, <1>3, <1>7 DEF Old, TypeOK, Serve
<1>9. CallFacts(call[k])'
  BY <1>1, <1>2, <1>5, <1>7 DEF CallFacts, Known, Taken, Statuses, Actionable
<1>10. QED  BY <1>3, <1>7, <1>8, <1>9, StillOld DEF Old, Serve

\* An answer is put on the board, however late it comes.
LEMMA ReceiveOld ==
  ASSUME Old, MovesOn, NEW k \in Calls, Receive(k)
  PROVE  Old'
<1> DEFINE c == call[k]
<1>1. /\ c \in Call /\ c.step = "answered" /\ c.order \in Orders /\ c.answer \in Statuses
      /\ Known(c.order)
      /\ c.answer # "NEW" => Taken(c.order)
      /\ c.kind = "accept" => Taken(c.order)
  BY DEF Old, TypeOK, KnowledgeIsOld, CallFacts, Receive
<1>2. CardAfter(c) \in Cards
  BY <1>1 DEF CardAfter, Card, Cards, Actionable, Old, TypeOK
<1>3. \/ CardAfter(c) = board[c.order]
      \/ NotAhead(CardAfter(c), c.order)
  BY <1>1 DEF CardAfter, Card, Actionable, NotAhead
<1>4. \A o \in Orders : board'[o] = board[o] \/ NotAhead(board[o], o)'
  <2>1. SUFFICES ASSUME NEW o \in Orders, o = c.order
                 PROVE  board'[o] = board[o] \/ NotAhead(board[o], o)'
    BY DEF Receive, Old, TypeOK
  <2>2. board'[o] = CardAfter(c)
    BY <2>1 DEF Receive, Old, TypeOK
  <2>3. QED  BY <1>3, <2>1, <2>2 DEF NotAhead, MovesOn
<1>5. /\ call' \in [Calls -> Call]
      /\ \A j \in Calls : call'[j] = call[j] \/ CallFacts(call[j])'
  <2>1. CASE c.kind = "accept"
    <3> DEFINE d == [c EXCEPT !.step = "printing"]
    <3>1. d \in Call /\ d.step = "printing" /\ d.order = c.order
      BY <1>1 DEF Call
    <3>2. call' = [call EXCEPT ![k] = d]
      BY <2>1 DEF Receive
    <3> HIDE DEF d
    <3>3. call'[k] = d /\ call' \in [Calls -> Call] /\ \A j \in Calls \ {k} : call'[j] = call[j]
      BY <3>1, <3>2 DEF Old, TypeOK
    <3>4. CallFacts(call[k])'
      BY <1>1, <2>1, <3>1, <3>3 DEF CallFacts, MovesOn
    <3>5. QED  BY <3>3, <3>4
  <2>2. CASE c.kind # "accept"
    <3>1. call' = [call EXCEPT ![k] = NoCall]
      BY <2>2 DEF Receive
    <3>2. QED  BY <3>1, RequestOver
  <2>3. QED  BY <2>1, <2>2
<1>6. TypeOK'
  BY <1>1, <1>2, <1>5 DEF Old, TypeOK, Receive, server
<1>7. QED  BY <1>4, <1>5, <1>6, StillOld DEF Old, Receive, server

\* A request fails.
LEMMA FailOld ==
  ASSUME Old, MovesOn, NEW k \in Calls, Fail(k)
  PROVE  Old'
<1>1. call' = [call EXCEPT ![k] = NoCall]
  BY DEF Fail
<1>2. load' \in Load /\ \A o \in Orders : load'.list[o] = load.list[o] \/ NotAhead(load.list[o], o)'
  BY LoadStarts DEF Fail, Old, TypeOK
<1>3. TypeOK'
  BY <1>1, <1>2, RequestOver DEF Old, TypeOK, Fail, server
<1>4. QED  BY <1>1, <1>2, <1>3, RequestOver, StillOld DEF Old, Fail, server

-----------------------------------------------------------------------------
(* Steps of the printer *)

\* After acceptance the receipt is printed and a delivery fetched again.
LEMMA PrintAcceptedOld ==
  ASSUME Old, MovesOn, NEW k \in Calls, NEW ok \in BOOLEAN, PrintAccepted(k, ok)
  PROVE  Old'
<1> DEFINE c == call[k]
           d == [NoCall EXCEPT !.kind = "refetch", !.order = c.order, !.step = "sent"]
<1>1. c.order \in Orders /\ Known(c.order) /\ Taken(c.order)
  BY DEF Old, KnowledgeIsOld, CallFacts, PrintAccepted
<1>2. /\ call' \in [Calls -> Call]
      /\ \A j \in Calls : call'[j] = call[j] \/ CallFacts(call[j])'
  <2>1. CASE c.order \in Deliveries
    <3>1. d \in Call /\ d.step = "sent" /\ d.order = c.order
      BY <1>1 DEF NoCall, Call
    <3>2. call' = [call EXCEPT ![k] = d]
      BY <2>1 DEF PrintAccepted
    <3> HIDE DEF d
    <3>3. call'[k] = d /\ call' \in [Calls -> Call] /\ \A j \in Calls \ {k} : call'[j] = call[j]
      BY <3>1, <3>2 DEF Old, TypeOK
    <3>4. CallFacts(call[k])'
      BY <1>1, <3>1, <3>3 DEF CallFacts, MovesOn
    <3>5. QED  BY <3>3, <3>4
  <2>2. CASE c.order \notin Deliveries
    <3>1. call' = [call EXCEPT ![k] = NoCall]
      BY <2>2 DEF PrintAccepted
    <3>2. QED  BY <3>1, RequestOver
  <2>3. QED  BY <2>1, <2>2
<1>3. /\ receipt' \in [Orders -> {"none", "queued", "settled"}]
      /\ \A p \in Orders : receipt'[p] = receipt[p] \/ Taken(p)'
  BY <1>1, ReceiptType DEF PrintAccepted, MovesOn
<1>4. TypeOK'
  BY <1>2, <1>3 DEF Old, TypeOK, PrintAccepted, server
<1>5. QED  BY <1>2, <1>3, <1>4, StillOld DEF Old, PrintAccepted, server

\* A receipt is printed from a card, or again from the queue.
LEMMA PrintOrderOld ==
  ASSUME Old, MovesOn, NEW o \in Orders, NEW ok \in BOOLEAN, PrintOrder(o, ok)
  PROVE  Old'
<1>1. Taken(o)
  BY DEF PrintOrder, Printable, Old, KnowledgeIsOld, NotAhead
<1>2. /\ receipt' \in [Orders -> {"none", "queued", "settled"}]
      /\ \A p \in Orders : receipt'[p] = receipt[p] \/ Taken(p)'
  BY <1>1, ReceiptType DEF PrintOrder, MovesOn
<1>3. TypeOK'
  BY <1>2 DEF Old, TypeOK, PrintOrder, server
<1>4. QED  BY <1>2, <1>3, StillOld DEF Old, PrintOrder, server

\* A failed print is dismissed.
LEMMA DismissFailedOld ==
  ASSUME Old, MovesOn, NEW o \in Orders, DismissFailed(o)
  PROVE  Old'
<1>1. Taken(o)
  BY DEF DismissFailed, Old, KnowledgeIsOld
<1>2. TypeOK'
  BY DEF Old, TypeOK, DismissFailed, server
<1>3. \A p \in Orders : receipt'[p] = receipt[p] \/ Taken(p)'
  BY <1>1 DEF DismissFailed, MovesOn, Old, TypeOK
<1>4. QED  BY <1>2, <1>3, StillOld DEF Old, DismissFailed, server

-----------------------------------------------------------------------------
(* The theorems *)

\* Every step leaves the tablet's knowledge old, never wrong.
LEMMA NextOld ==
  ASSUME Old, [Next]_vars
  PROVE  Old'
<1>1. MovesOn
  BY OrdersMoveOn DEF Old
<1>2. CASE \E o \in Orders : Place(o) \/ ChangedElsewhere(o)
  BY <1>1, <1>2, PlaceOld, ChangedElsewhereOld
<1>3. CASE Poll \/ ListOrders \/ ShowList \/ LoadEnds
  BY <1>1, <1>3, PollOld, ListOrdersOld, ShowListOld, LoadEndsOld
<1>4. CASE \E p \in pushes : HandlePush(p)
  BY <1>1, <1>4, HandlePushOld
<1>5. CASE \E k \in Calls, press \in Presses, o \in Orders : Press(k, press, o)
  BY <1>1, <1>5, PressOld
<1>6. CASE \E k \in Calls : Handle(k)
  BY <1>1, <1>6, ServeOld, ReceiveOld, FailOld, PrintAcceptedOld DEF Handle
<1>7. CASE \E o \in Orders : DismissFailed(o) \/ \E ok \in BOOLEAN : PrintOrder(o, ok)
  BY <1>1, <1>7, DismissFailedOld, PrintOrderOld
<1>8. CASE UNCHANGED vars
  <2>1. TypeOK'
    BY <1>8 DEF Old, TypeOK, vars, server
  <2>2. QED  BY <1>1, <1>8, <2>1, StillOld DEF Old, vars, server
<1>9. QED  BY <1>2, <1>3, <1>4, <1>5, <1>6, <1>7, <1>8 DEF Next

\* The inductive invariant: board, list, answers, pushes and receipts never say
\* more of an order than the server has already done.
THEOREM KnowledgeStaysOld == Spec => []Old
<1>1. QED  BY InitOld, NextOld, PTL DEF Spec

\* Every variable of the tablet keeps its type.
THEOREM BoardTypeCorrect == Spec => []TypeOK
<1>1. Old => TypeOK
  BY DEF Old
<1>2. QED  BY <1>1, KnowledgeStaysOld, PTL

\* A card never runs ahead of the server, whatever is lost, late or repeated.
THEOREM BoardStaysBehind == Spec => []BoardNotAhead
<1>1. Old => BoardNotAhead
  BY DEF Old, KnowledgeIsOld, BoardNotAhead, NotAhead, Known, Taken
<1>2. QED  BY <1>1, KnowledgeStaysOld, PTL

\* No receipt is printed or queued before its order was accepted.
THEOREM ReceiptsFollowAcceptance == Spec => []PrintedWasAccepted
<1>1. Old => PrintedWasAccepted
  BY DEF Old, KnowledgeIsOld, PrintedWasAccepted, Taken
<1>2. QED  BY <1>1, KnowledgeStaysOld, PTL
=============================================================================
