\* Two requests, four ticks: a code lives two, its lock three.
CONSTANTS
  Requests = {k1, k2}
  Ttl = 2
  Cooldown = 1
  LockTime = 3
  MaxAttempts = 2
  MaxTime = 5
  MaxIssued = 3
  None = None
SPECIFICATION Spec
INVARIANTS
  AttemptsNeverOverdrawn
  CodeAcceptedOnce
PROPERTIES
  LockLasts
