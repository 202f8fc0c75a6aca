\* A logout that leaves its session alive.
SPECIFICATION Spec
CONSTANTS
  Sids = {s1}
  Handlers = {h1}
  None = None
  SessionTTL = 2
  TokenTTL = 2
INVARIANT
  LogoutEndsSession
