\* Requests about the same order do not overlap; checkouts still overlap them.
CONSTANTS
  Customers = {c1}
  Drivers = {d1, d2}
  Staff = {desk}
  OrderIds = {o1, o2}
  Sessions = {s1, s2}
  None = None
  OneRequestPerOrder = TRUE
SYMMETRY Interchangeable
SPECIFICATION Spec
INVARIANTS
  OneActiveOrder
  AuditMatchesRow
  WelcomeOfferOnce
  DeliveriesAccountedFor
PROPERTIES
  WelcomeOfferIsFirst
  KeepsPromise
