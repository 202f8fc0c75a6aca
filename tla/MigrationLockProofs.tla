-------------------------- MODULE MigrationLockProofs --------------------------
(***************************************************************************)
(* Theorems about MigrationLock, for any pods and workers and any times      *)
(* with StartupTimeout < LockTTL.                                           *)
(***************************************************************************)
EXTENDS MigrationLock, TLAPS

LEMMA InitTypeOK == Init => TypeOK
BY TimesAssumption DEF Init, TypeOK, Starting

LEMMA NextTypeOK == TypeOK /\ [Next]_vars => TypeOK'
<1> SUFFICES ASSUME TypeOK, [Next]_vars PROVE TypeOK'
  OBVIOUS
<1> USE TimesAssumption DEF TypeOK, Starting, Upgrading, Waiting
<1>1. ASSUME NEW w \in Workers, Acquire(w) \/ Wait(w) \/ Upgrade(w) \/ Release(w)
      PROVE  TypeOK'
  BY <1>1 DEF Acquire, Wait, Upgrade, Release, Goto
<1>2. ASSUME NEW w \in Workers, Poll(w) PROVE TypeOK'
  BY <1>2 DEF Poll, Goto
<1>3. ASSUME NEW w \in Workers, UpgradeFails(w) \/ TimedOut(w) \/ Dies(w)
      PROVE  TypeOK'
  BY <1>3 DEF UpgradeFails, TimedOut, Dies, Goto, Fault
<1>4. ASSUME NEW w \in Workers, Restart(w) PROVE TypeOK'
  BY <1>4 DEF Restart, Goto
<1>5. ASSUME NEW p \in Pods, Halt(p) \/ PodDies(p) PROVE TypeOK'
  BY <1>5 DEF Halt, PodDies, AllDown, Fault
<1>6. ASSUME Tick PROVE TypeOK'
  BY <1>6 DEF Tick, Later
<1>7. CASE AllServing \/ UNCHANGED vars
  BY <1>7 DEF AllServing, vars
<1> QED
  BY <1>1, <1>2, <1>3, <1>4, <1>5, <1>6, <1>7 DEF Next, StartUp

(* Every variable keeps its type: no worker grows older than the timeout    *)
(* while it starts up, and no waiter sleeps more often than Polls.          *)
THEOREM TypeCorrect == Spec => []TypeOK
<1> QED
  BY InitTypeOK, NextTypeOK, PTL DEF Spec

--------------------------------------------------------------------------------
(* The strengthening: what is left of the lock and the age of the worker    *)
(* that migrates make up the whole time to live, so a lock that has expired *)
(* belongs to a worker gunicorn has already killed.                         *)
Margin == \A w \in Workers : pc[w] \in Upgrading => lock + age[w] >= LockTTL

LEMMA MarginKeepsLock == TypeOK /\ Margin => LockOutlivesMigration
BY TimesAssumption DEF TypeOK, Margin, LockOutlivesMigration

LEMMA InitExclusive == Init => OneMigrator /\ Margin
BY DEF Init, OneMigrator, Margin, Upgrading

LEMMA NextExclusive ==
  TypeOK /\ OneMigrator /\ Margin /\ [Next]_vars => OneMigrator' /\ Margin'
<1> SUFFICES ASSUME TypeOK, OneMigrator, Margin, [Next]_vars
             PROVE  OneMigrator' /\ Margin'
  OBVIOUS
<1>1. LockOutlivesMigration
  BY MarginKeepsLock
<1>2. ASSUME NEW w \in Workers, Acquire(w) PROVE OneMigrator' /\ Margin'
  <2>1. \A v \in Workers : pc[v] \notin Upgrading
    BY <1>1, <1>2 DEF Acquire, LockOutlivesMigration
  <2>2. \A v \in Workers : pc'[v] \in Upgrading => v = w
    BY <1>2, <2>1 DEF TypeOK, Acquire, Goto
  <2> QED
    BY <1>2, <2>2, TimesAssumption DEF TypeOK, Acquire, OneMigrator, Margin
<1>3. ASSUME NEW w \in Workers, Release(w) PROVE OneMigrator' /\ Margin'
  <2>1. \A v \in Workers : pc'[v] \notin Upgrading
    BY <1>3 DEF TypeOK, Release, Goto, OneMigrator, Upgrading
  <2> QED
    BY <2>1 DEF OneMigrator, Margin
<1>4. ASSUME NEW w \in Workers,
             Wait(w) \/ Poll(w) \/ Upgrade(w) \/ UpgradeFails(w) \/ TimedOut(w)
             \/ Dies(w)
      PROVE  OneMigrator' /\ Margin'
  <2>1. UNCHANGED <<age, lock>>
    BY <1>4 DEF Wait, Poll, Upgrade, UpgradeFails, TimedOut, Dies
  <2>2. \A v \in Workers : pc'[v] \in Upgrading => pc[v] \in Upgrading
    BY <1>4 DEF TypeOK, Wait, Poll, Upgrade, UpgradeFails, TimedOut, Dies, Goto,
                Upgrading
  <2> QED
    BY <2>1, <2>2 DEF OneMigrator, Margin
<1>5. ASSUME NEW w \in Workers, Restart(w) PROVE OneMigrator' /\ Margin'
  <2>1. \A v \in Workers : pc'[v] \in Upgrading =>
          pc[v] \in Upgrading /\ age'[v] = age[v]
    BY <1>5 DEF TypeOK, Restart, Goto, Upgrading
  <2>2. UNCHANGED lock
    BY <1>5 DEF Restart
  <2> QED
    BY <2>1, <2>2 DEF OneMigrator, Margin
<1>6. ASSUME Tick PROVE OneMigrator' /\ Margin'
  <2>1. \A v \in Workers : pc'[v] \in Upgrading =>
          pc[v] \in Upgrading /\ age'[v] = age[v] + 1
    BY <1>6 DEF TypeOK, Tick, Upgrading, Starting
  <2>2. \A v \in Workers : pc[v] \in Upgrading => lock' = lock - 1
    BY <1>1, <1>6 DEF TypeOK, Tick, Later, LockOutlivesMigration
  <2>3. Margin'
    BY <2>1, <2>2, TimesAssumption DEF TypeOK, Margin
  <2> QED
    BY <2>1, <2>3 DEF OneMigrator
<1>7. ASSUME NEW p \in Pods, Halt(p) \/ PodDies(p) PROVE OneMigrator' /\ Margin'
  <2>1. UNCHANGED <<age, lock>>
    BY <1>7 DEF Halt, PodDies
  <2>2. \A v \in Workers : pc'[v] \in Upgrading => pc[v] \in Upgrading
    BY <1>7 DEF Halt, PodDies, AllDown, Upgrading
  <2> QED
    BY <2>1, <2>2 DEF OneMigrator, Margin
<1>8. CASE AllServing \/ UNCHANGED vars
  BY <1>8 DEF AllServing, vars, OneMigrator, Margin
<1> QED
  BY <1>2, <1>3, <1>4, <1>5, <1>6, <1>7, <1>8 DEF Next, StartUp

(* At most one worker runs alembic upgrade at a time, as main.py:81 says,   *)
(* whatever fails or dies, because gunicorn ends an upgrade before its lock *)
(* expires.                                                                 *)
THEOREM MigrationsExclude == Spec => []OneMigrator
<1>1. TypeOK /\ OneMigrator /\ Margin /\ [Next]_vars
        => TypeOK' /\ OneMigrator' /\ Margin'
  BY NextTypeOK, NextExclusive
<1> QED
  BY <1>1, InitTypeOK, InitExclusive, PTL DEF Spec

(* The lock is there as long as the worker that set it migrates, so that    *)
(* worker's unconditional delete never removes the lock of another.         *)
THEOREM LockHeldThroughout == Spec => []LockOutlivesMigration
<1>1. TypeOK /\ OneMigrator /\ Margin /\ [Next]_vars
        => TypeOK' /\ OneMigrator' /\ Margin'
  BY NextTypeOK, NextExclusive
<1> QED
  BY <1>1, InitTypeOK, InitExclusive, MarginKeepsLock, PTL DEF Spec

--------------------------------------------------------------------------------
(* The strengthening: as long as nothing has gone wrong, no upgrade raised,   *)
(* and while the schema is old, either no worker has set the lock yet or the  *)
(* one that did migrates.                                                     *)
Begins ==
  faults = 0 =>
    /\ \A w \in Workers : pc[w] \notin {"failed", "bootError"}
    /\ schema = "old" =>
         \/ lock = 0 /\ \A w \in Workers : pc[w] = "boot"
         \/ \E w \in Workers : pc[w] = "migrating"

Excused == Begins /\ OldSchemaExcused

LEMMA InitExcused == Init => Excused
BY DEF Init, Excused, Begins, OldSchemaExcused

\* A fault is never forgotten, and the schema never goes back.
LEMMA Irrevocable ==
  TypeOK /\ [Next]_vars =>
    /\ faults' = 0 => faults = 0
    /\ schema' = "old" => schema = "old"
<1> SUFFICES ASSUME TypeOK, [Next]_vars
             PROVE  /\ faults' = 0 => faults = 0
                    /\ schema' = "old" => schema = "old"
  OBVIOUS
<1>1. ASSUME NEW w \in Workers, StartUp(w) \/ UpgradeFails(w) \/ Dies(w)
      PROVE  /\ faults' = 0 => faults = 0
             /\ schema' = "old" => schema = "old"
  <2>1. CASE TimedOut(w) \/ UpgradeFails(w) \/ Dies(w)
    BY <2>1, TimesAssumption DEF TypeOK, TimedOut, UpgradeFails, Dies, Fault
  <2>2. CASE Upgrade(w)
    BY <2>2 DEF Upgrade
  <2>3. CASE Acquire(w) \/ Wait(w) \/ Release(w) \/ Poll(w) \/ Restart(w)
    BY <2>3 DEF Acquire, Wait, Release, Poll, Restart
  <2> QED
    BY <1>1, <2>1, <2>2, <2>3 DEF StartUp
<1>2. ASSUME NEW p \in Pods, Halt(p) \/ PodDies(p)
      PROVE  /\ faults' = 0 => faults = 0
             /\ schema' = "old" => schema = "old"
  BY <1>2, TimesAssumption DEF TypeOK, Halt, PodDies, Fault
<1> QED
  BY <1>1, <1>2 DEF Next, Tick, AllServing, vars

\* Without a fault no upgrade raises, and nothing halts or ends a pod.
LEMMA NextUnfailed ==
  ASSUME TypeOK, Begins, [Next]_vars, faults' = 0
  PROVE  /\ \A w \in Workers : ~UpgradeFails(w) /\ ~Dies(w)
         /\ \A p \in Pods : ~Halt(p) /\ ~PodDies(p)
         /\ \A w \in Workers : pc'[w] \notin {"failed", "bootError"}
<1>1. faults = 0 /\ \A w \in Workers : pc[w] \notin {"failed", "bootError"}
  BY Irrevocable DEF Begins
<1>2. ~Fault
  BY <1>1 DEF Fault
<1>3. /\ \A w \in Workers : ~UpgradeFails(w) /\ ~Dies(w)
      /\ \A p \in Pods : ~Halt(p) /\ ~PodDies(p)
  BY <1>1, <1>2 DEF UpgradeFails, Dies, Halt, Halting, PodDies, Workers
<1>4. ASSUME NEW w \in Workers, StartUp(w)
      PROVE  \A v \in Workers : pc'[v] \notin {"failed", "bootError"}
  BY <1>1, <1>4 DEF TypeOK, StartUp, Acquire, Wait, Upgrade, Release, Poll, TimedOut,
                    Restart, Goto
<1>5. CASE Tick
  BY <1>1, <1>3, <1>5 DEF TypeOK, Tick
<1>6. CASE AllServing \/ UNCHANGED vars
  BY <1>1, <1>3, <1>6 DEF AllServing, vars
<1> QED
  BY <1>3, <1>4, <1>5, <1>6 DEF Next

LEMMA NextExcused ==
  TypeOK /\ OneMigrator /\ LockOutlivesMigration /\ Excused /\ [Next]_vars => Excused'
<1> SUFFICES ASSUME TypeOK, OneMigrator, LockOutlivesMigration, Excused, [Next]_vars,
                    faults' = 0
             PROVE  /\ \A w \in Workers : pc'[w] \notin {"failed", "bootError"}
                    /\ schema' = "old" =>
                         /\ \/ lock' = 0 /\ \A w \in Workers : pc'[w] = "boot"
                            \/ \E w \in Workers : pc'[w] = "migrating"
                         /\ \A w \in Workers : pc'[w] = "serving" => polls'[w] = Polls
  BY NextTypeOK, TimesAssumption DEF Excused, Begins, OldSchemaExcused, TypeOK
<1>0. /\ \A w \in Workers : ~UpgradeFails(w) /\ ~Dies(w)
      /\ \A p \in Pods : ~Halt(p) /\ ~PodDies(p)
      /\ \A w \in Workers : pc'[w] \notin {"failed", "bootError"}
  BY NextUnfailed DEF Excused
<1> SUFFICES ASSUME schema' = "old"
             PROVE  /\ \/ lock' = 0 /\ \A w \in Workers : pc'[w] = "boot"
                       \/ \E w \in Workers : pc'[w] = "migrating"
                    /\ \A w \in Workers : pc'[w] = "serving" => polls'[w] = Polls
  BY <1>0
<1>1. /\ faults = 0 /\ schema = "old"
      /\ \A w \in Workers : pc[w] = "serving" => polls[w] = Polls
  <2>1. faults = 0 /\ schema = "old"
    BY Irrevocable
  <2> QED
    BY <2>1 DEF Excused, OldSchemaExcused
<1>2. \A w \in Workers : ~Upgrade(w)
  BY DEF Upgrade
<1>3. CASE lock = 0 /\ \A w \in Workers : pc[w] = "boot"
  <2>1. ASSUME NEW w \in Workers, Acquire(w)
        PROVE  /\ pc'[w] = "migrating"
               /\ \A v \in Workers : pc'[v] # "serving"
    BY <1>3, <2>1 DEF TypeOK, Acquire, Goto
  <2>2. \A w \in Workers : ~Wait(w) /\ ~Release(w) /\ ~Poll(w) /\ ~TimedOut(w) /\ ~Restart(w)
    BY <1>1, <1>3 DEF Wait, Release, Poll, TimedOut, Restart, Waiting, Fault
  <2>3. CASE Tick
    BY <1>3, <2>3 DEF Tick, Later
  <2>4. CASE AllServing \/ UNCHANGED vars
    BY <1>3, <2>4 DEF AllServing, vars
  <2> QED
    BY <1>0, <1>2, <2>1, <2>2, <2>3, <2>4 DEF Next, StartUp
<1>4. CASE \E v \in Workers : pc[v] = "migrating"
  <2>1. PICK v \in Workers : pc[v] = "migrating"
    BY <1>4
  <2>2. lock > 0
    BY <2>1 DEF LockOutlivesMigration, Upgrading
  <2>3. \A w \in Workers : ~Acquire(w) /\ ~Release(w)
    BY <2>1, <2>2 DEF Acquire, Release, OneMigrator, Upgrading
  <2>4. ASSUME NEW w \in Workers, Wait(w) \/ TimedOut(w)
        PROVE  /\ pc'[v] = "migrating"
               /\ \A u \in Workers : pc'[u] = "serving" => polls'[u] = Polls
    <3>1. w # v
      BY <1>1, <2>1, <2>4 DEF Wait, TimedOut, Waiting, Fault
    <3> QED
      BY <1>1, <2>1, <2>4, <3>1 DEF TypeOK, Wait, TimedOut, Goto
  <2>5. ASSUME NEW w \in Workers, Poll(w)
        PROVE  /\ pc'[v] = "migrating"
               /\ \A u \in Workers : pc'[u] = "serving" => polls'[u] = Polls
    <3>1. w # v
      BY <2>1, <2>5 DEF Poll
    <3>2. CASE pc'[w] = "serving"
      BY <1>1, <2>1, <2>2, <2>5, <3>1, <3>2 DEF TypeOK, Poll, Goto
    <3>3. CASE pc'[w] # "serving"
      BY <1>1, <2>1, <2>5, <3>1, <3>3 DEF TypeOK, Poll, Goto
    <3> QED
      BY <3>2, <3>3
  <2>6. ASSUME NEW w \in Workers, Restart(w)
        PROVE  /\ pc'[v] = "migrating"
               /\ \A u \in Workers : pc'[u] = "serving" => polls'[u] = Polls
    BY <1>1, <2>1, <2>6 DEF TypeOK, Restart, Goto
  <2>7. CASE Tick
    BY <1>1, <2>1, <2>7 DEF TypeOK, Tick
  <2>8. CASE AllServing \/ UNCHANGED vars
    BY <1>1, <2>1, <2>8 DEF AllServing, vars
  <2> QED
    BY <1>0, <1>2, <2>1, <2>3, <2>4, <2>5, <2>6, <2>7, <2>8 DEF Next, StartUp
<1> QED
  BY <1>1, <1>3, <1>4 DEF Excused, Begins

(* A worker that serves the old schema has slept through its whole loop, or *)
(* some start-up failed: without a failure, the wait of main.py:94 ends     *)
(* early only when the upgrade is done.                                     *)
THEOREM OldSchemaOnlyAfterFault == Spec => []OldSchemaExcused
<1>1. TypeOK /\ OneMigrator /\ Margin /\ Excused /\ [Next]_vars
        => TypeOK' /\ OneMigrator' /\ Margin' /\ Excused'
  BY NextTypeOK, NextExclusive, NextExcused, MarginKeepsLock
<1>2. Excused => OldSchemaExcused
  BY DEF Excused
<1> QED
  BY <1>1, <1>2, InitTypeOK, InitExclusive, InitExcused, PTL DEF Spec

================================================================================
