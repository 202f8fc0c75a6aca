\* Three jobs, a dead letter list of two, and one fault: a crash, a lost answer or
\* a Redis error at every point of their runs.
SPECIFICATION Spec
CONSTANTS
  alice = alice  bob = bob  milk = milk  bread = bread
  t1 = t1  t2 = t2  t3 = t3  t4 = t4
  t5 = t5  t6 = t6  t7 = t7
  None = None
  Jobs = {j1, j2, j3}
  Users <- MCUsers
  Titles <- MCTitles
  TaskIds <- MCTaskIds
  InitialRows <- MCInitialRows
  Deliveries <- MCDeliveries
  Requests <- MCDeletes
  MaxRetries = 0
  Concurrency = 2
  DeadLetterCap = 2
  MaxFaults = 1
SYMMETRY JobSymmetry
INVARIANTS
  DeadLetterBounded FailedJobsListed NewestDeadLettersKept
