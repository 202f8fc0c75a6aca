\* One job of any kind with two retries and a fault at every point of its runs.
SPECIFICATION Spec
CONSTANTS
  alice = alice  bob = bob  milk = milk  bread = bread
  t1 = t1  t2 = t2  t3 = t3  t4 = t4
  t5 = t5  t6 = t6  t7 = t7
  None = None
  Jobs = {j1}
  Users <- MCUsers
  Titles <- MCTitles
  TaskIds <- MCTaskIds
  InitialRows <- MCInitialRows
  Deliveries <- MCDeliveries
  Requests <- MCEachKind
  MaxRetries = 2
  Concurrency = 2
  DeadLetterCap = 1
  MaxFaults = 1
INVARIANTS
  NothingVanishes AtMostOnce AppliedBounded OverlapsBounded FailedUntouched
PROPERTIES
  EveryJobEnds FulfilsLedger
