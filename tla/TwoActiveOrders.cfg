\* Requests about one order overlap while the customer orders again.
CONSTANTS
  Customers = {c1}
  Drivers = {d1}
  Staff = {desk}
  OrderIds = {o1, o2}
  Sessions = {s1, s2}
  None = None
  OneRequestPerOrder = FALSE
SPECIFICATION Spec
INVARIANT OneActiveOrder
