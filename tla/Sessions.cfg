SPECIFICATION Spec
CONSTANTS
  People = {p1, p2}
  Grants = {g1, g2}
  Calls = {c1, c2}
  ProfileCalls = {c2}
  Slots = {s1}
  None = None
  OneRefreshPerGrant = TRUE
INVARIANTS
  OneLiveGrantPerLogin
  ActsAsSignedIn
PROPERTY WaitersReleased
