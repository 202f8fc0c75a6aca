\* Two requests at once on one account, with one login that breaks off.
SPECIFICATION Spec
CONSTANTS
  Names = {alice}
  Passwords = {right, wrong}
  Handlers = {h1, h2}
  None = None
  Threshold = 2
  AttemptTTL = 3
  LockTTL = 3
  MaxAge = 1
  MaxFaults = 1
INVARIANTS
  TypeOK FailuresBounded LockIsShort RegisteredOnce
PROPERTIES
  LockOutlastsLogins LockEnds
