\* Two requests at once over two sessions.
SPECIFICATION Spec
CONSTANTS
  Sids = {s1, s2}
  Handlers = {h1, h2}
  None = None
  SessionTTL = 2
  TokenTTL = 2
INVARIANTS
  TypeOK DeletedStaysDeleted TokenOutlivesSession
