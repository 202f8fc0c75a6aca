\* A write sent up to twice and published again once, a registration and a login on two threads and one
\* connection.
SPECIFICATION Spec
CONSTANTS
  Clients = {ann, ben, cat}
  ann = ann
  ben = ben
  cat = cat
  Route <- MCRoute
  MaxTries = 2
  Tries <- MCTries
  MaxResent = 1
  Threads = 2
  Connections = 1
  None = None
INVARIANTS
  TypeOK EnqueuedAsTold FewNeverBlock
PROPERTIES
  EverythingReturns
