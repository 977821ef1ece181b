\* Any two requests about an order overlap, as the code allows.
CONSTANTS
  Customers = {c1}
  Drivers = {d1, d2}
  Staff = {desk}
  OrderIds = {o1}
  Sessions = {s1, s2}
  None = None
  OneRequestPerOrder = FALSE
SYMMETRY Interchangeable
VIEW WithoutAudit
SPECIFICATION Spec
INVARIANTS
  DispatchedHasDriver
  ButtonsAccepted
  NeverStranded
