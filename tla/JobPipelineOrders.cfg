\* Two jobs, one retry, no crash: requests of every kind meeting on the same rows.
SPECIFICATION Spec
CONSTANTS
  alice = alice  bob = bob  milk = milk  bread = bread
  t1 = t1  t2 = t2  t3 = t3  t4 = t4
  t5 = t5  t6 = t6  t7 = t7
  None = None
  Jobs = {j1, j2}
  Users <- MCUsers
  Titles <- MCTitles
  TaskIds <- MCTaskIds
  InitialRows <- MCInitialRows
  Deliveries <- MCDeliveries
  Requests <- MCRequests
  MaxRetries = 1
  Concurrency = 2
  DeadLetterCap = 1
  MaxFaults = 0
SYMMETRY JobSymmetry
INVARIANTS
  TypeOK SuccessIsTrue
PROPERTIES
  RowsChangeOnlyAsAsked ImplementsLedger
