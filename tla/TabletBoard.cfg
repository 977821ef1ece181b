\* Two orders and a list with room for one, so that the newer order pushes the
\* older one off it, with a request of the tablet, a load and pushes in flight.
CONSTANTS
  Orders = {o1, o2}
  Deliveries = {o1}
  Calls = {k1}
  Limit = 1
  None = None
SPECIFICATION Spec
INVARIANTS
  PrintedWasAccepted
PROPERTIES
  BoardConverges
  NewOrderShown
