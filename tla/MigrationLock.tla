----------------------------- MODULE MigrationLock -----------------------------
(***************************************************************************)
(* Start-up of the API: every gunicorn worker of every pod runs lifespan of *)
(* main.py, where the one that sets the Redis key "db:migration_lock" runs  *)
(* alembic upgrade head and the others poll until the key is gone. gunicorn *)
(* kills a worker that has not started up within its --timeout (both the    *)
(* upgrade and time.sleep block the event loop, so no heartbeat is sent),   *)
(* and halts the pod when the start-up of one of its workers raises.        *)
(* Time goes by in steps of the waiters' sleep.                             *)
(***************************************************************************)
EXTENDS Integers

CONSTANTS
  Pods,            \* the pods, each the set of its gunicorn workers
  LockTTL,         \* ex=120, in sleeps
  Polls,           \* range(30)
  StartupTimeout,  \* gunicorn --timeout 60, in sleeps
  MaxFaults        \* bound on failed upgrades and untimely deaths

Workers == UNION Pods

ASSUME PodsAssumption == \A p, q \in Pods : p = q \/ p \intersect q = {}

ASSUME TimesAssumption ==
  /\ LockTTL \in Nat /\ Polls \in Nat /\ StartupTimeout \in Nat /\ MaxFaults \in Nat
  /\ StartupTimeout < LockTTL

VARIABLES
  pc,      \* where each worker is in lifespan
  age,     \* time since it was forked, while it starts up
  polls,   \* sleeps of its waiting loop
  lock,    \* time the lock key has left; 0 when there is none
  schema,  \* what the database is at
  faults   \* faults spent

vars == <<pc, age, polls, lock, schema, faults>>

Upgrading == {"migrating", "failed", "upgraded"}
Waiting == {"waiting", "asleep"}
Starting == Upgrading \union Waiting \union {"boot"}

Goto(w, label) == pc' = [pc EXCEPT ![w] = label]
AllDown(p) == pc' = [w \in Workers |-> IF w \in p THEN "down" ELSE pc[w]]
Fault == faults < MaxFaults /\ faults' = faults + 1

Init ==
  /\ pc = [w \in Workers |-> "boot"]
  /\ age = [w \in Workers |-> 0]
  /\ polls = [w \in Workers |-> 0]
  /\ lock = 0
  /\ schema = "old"
  /\ faults = 0

--------------------------------------------------------------------------------
\* Defect: the key is set without nx.
AcquireAlways(w) ==
  /\ pc[w] = "boot"
  /\ lock' = LockTTL
  /\ Goto(w, "migrating")
  /\ UNCHANGED <<age, polls, schema, faults>>

(* _redis.set(key, "1", nx=True, ex=120): set if there is none ...           *)
Acquire(w) ==
  /\ pc[w] = "boot"
  /\ lock = 0
  /\ lock' = LockTTL
  /\ Goto(w, "migrating")
  /\ UNCHANGED <<age, polls, schema, faults>>

(* ... and otherwise wait for whoever has it.                                *)
Wait(w) ==
  /\ pc[w] = "boot"
  /\ lock > 0
  /\ Goto(w, "waiting")
  /\ UNCHANGED <<age, polls, lock, schema, faults>>

(* alembic upgrade head, in one transaction: it commits or it raises.        *)
Upgrade(w) ==
  /\ pc[w] = "migrating"
  /\ schema' = "head"
  /\ Goto(w, "upgraded")
  /\ UNCHANGED <<age, polls, lock, faults>>

UpgradeFails(w) ==
  /\ pc[w] = "migrating"
  /\ Fault
  /\ Goto(w, "failed")
  /\ UNCHANGED <<age, polls, lock, schema>>

(* finally: the key is deleted whoever set it. An exception then ends the    *)
(* worker with gunicorn's boot error.                                        *)
Release(w) ==
  /\ pc[w] \in {"upgraded", "failed"}
  /\ lock' = 0
  /\ Goto(w, IF pc[w] = "upgraded" THEN "serving" ELSE "bootError")
  /\ UNCHANGED <<age, polls, schema, faults>>

\* Defect: the loop takes one turn too many.
PollOnceMore(w) ==
  /\ pc[w] = "waiting"
  /\ \/ /\ lock = 0 \/ polls[w] > Polls
        /\ Goto(w, "serving")
        /\ UNCHANGED polls
     \/ /\ lock > 0 /\ polls[w] <= Polls
        /\ Goto(w, "asleep")
        /\ polls' = [polls EXCEPT ![w] = @ + 1]
  /\ UNCHANGED <<age, lock, schema, faults>>

\* Defect: the loop is left while the key is there, and not when it is gone.
PollInverted(w) ==
  /\ pc[w] = "waiting"
  /\ \/ /\ lock > 0 \/ polls[w] = Polls
        /\ Goto(w, "serving")
        /\ UNCHANGED polls
     \/ /\ lock = 0 /\ polls[w] < Polls
        /\ Goto(w, "asleep")
        /\ polls' = [polls EXCEPT ![w] = @ + 1]
  /\ UNCHANGED <<age, lock, schema, faults>>

(* One turn of the waiting loop: go on to serve when the key is gone or when *)
(* this was the last turn, and sleep otherwise.                              *)
Poll(w) ==
  /\ pc[w] = "waiting"
  /\ \/ /\ lock = 0 \/ polls[w] = Polls
        /\ Goto(w, "serving")
        /\ UNCHANGED polls
     \/ /\ lock > 0 /\ polls[w] < Polls
        /\ Goto(w, "asleep")
        /\ polls' = [polls EXCEPT ![w] = @ + 1]
  /\ UNCHANGED <<age, lock, schema, faults>>

--------------------------------------------------------------------------------
(* gunicorn kills a worker that took too long to start up. The key stays.    *)
(* That a worker imports or upgrades so slowly counts as a fault; that it    *)
(* waits so long does not.                                                   *)
TimedOut(w) ==
  /\ pc[w] \in Starting /\ age[w] = StartupTimeout
  /\ \/ pc[w] \notin Waiting /\ Fault
     \/ pc[w] \in Waiting /\ UNCHANGED faults
  /\ Goto(w, "down")
  /\ UNCHANGED <<age, polls, lock, schema>>

(* Any other death of a worker: out of memory, a crash.                      *)
Dies(w) ==
  /\ pc[w] \notin {"bootError", "down"}
  /\ Fault
  /\ Goto(w, "down")
  /\ UNCHANGED <<age, polls, lock, schema>>

(* A failed probe or a drain ends the pod with all its workers.              *)
PodDies(p) ==
  /\ \E w \in p : pc[w] # "down"
  /\ Fault
  /\ AllDown(p)
  /\ UNCHANGED <<age, polls, lock, schema>>

Halting(p) == \E w \in p : pc[w] = "bootError"

(* gunicorn's arbiter saw a boot error: it stops the pod's other workers and *)
(* itself, whatever they are doing.                                          *)
Halt(p) ==
  /\ Halting(p)
  /\ AllDown(p)
  /\ UNCHANGED <<age, polls, lock, schema, faults>>

(* gunicorn or the orchestrator starts another worker in its place.          *)
Restart(w) ==
  /\ pc[w] = "down"
  /\ \A p \in Pods : w \in p => ~Halting(p)
  /\ Goto(w, "boot")
  /\ age' = [age EXCEPT ![w] = 0]
  /\ polls' = [polls EXCEPT ![w] = 0]
  /\ UNCHANGED <<lock, schema, faults>>

Later(t) == IF t = 0 THEN 0 ELSE t - 1

\* Defect: the key has no expiry.
TickUnexpired ==
  /\ \A w \in Workers : pc[w] \in Starting => age[w] < StartupTimeout
  /\ \E w \in Workers : pc[w] \in Starting
  /\ age' = [w \in Workers |-> IF pc[w] \in Starting THEN age[w] + 1 ELSE age[w]]
  /\ pc' = [w \in Workers |-> IF pc[w] = "asleep" THEN "waiting" ELSE pc[w]]
  /\ UNCHANGED <<polls, lock, schema, faults>>

\* Defect: nothing ends an upgrade that takes longer than the lock lives.
TickUntimed ==
  /\ age' = [w \in Workers |-> IF pc[w] \in Starting THEN age[w] + 1 ELSE age[w]]
  /\ pc' = [w \in Workers |-> IF pc[w] = "asleep" THEN "waiting" ELSE pc[w]]
  /\ lock' = Later(lock)
  /\ UNCHANGED <<polls, schema, faults>>

(* Time goes by, to the next sleep's end, but not past a timeout. It need    *)
(* not once every worker serves and no lock is left.                         *)
Tick ==
  /\ \A w \in Workers : pc[w] \in Starting => age[w] < StartupTimeout
  /\ lock > 0 \/ \E w \in Workers : pc[w] \in Starting
  /\ age' = [w \in Workers |-> IF pc[w] \in Starting THEN age[w] + 1 ELSE age[w]]
  /\ pc' = [w \in Workers |-> IF pc[w] = "asleep" THEN "waiting" ELSE pc[w]]
  /\ lock' = Later(lock)
  /\ UNCHANGED <<polls, schema, faults>>

AllServing == (\A w \in Workers : pc[w] = "serving") /\ lock = 0 /\ UNCHANGED vars

StartUp(w) ==
  Acquire(w) \/ Wait(w) \/ Upgrade(w) \/ Release(w) \/ Poll(w) \/ TimedOut(w) \/ Restart(w)

Next ==
  \/ \E w \in Workers : StartUp(w) \/ UpgradeFails(w) \/ Dies(w)
  \/ \E p \in Pods : Halt(p) \/ PodDies(p)
  \/ Tick
  \/ AllServing

\* Workers run, are timed out, halted and restarted, and time goes by. That an
\* upgrade fails or a worker or a pod dies early is never owed.
Spec ==
  /\ Init /\ [][Next]_vars /\ WF_vars(Tick)
  /\ \A w \in Workers : WF_vars(StartUp(w))
  /\ \A p \in Pods : WF_vars(Halt(p))

--------------------------------------------------------------------------------
(* Every variable has its type.                                              *)
TypeOK ==
  /\ pc \in [Workers -> Starting \union {"serving", "bootError", "down"}]
  /\ age \in [Workers -> 0..StartupTimeout]
  /\ polls \in [Workers -> 0..Polls]
  /\ lock \in 0..LockTTL
  /\ schema \in {"old", "head"}
  /\ faults \in 0..MaxFaults

(* main.py:81: "only one pod runs alembic upgrade at a time", up to the      *)
(* delete in its finally, though the delete does not ask whose lock it is.   *)
(* It holds only because gunicorn's timeout ends a slow upgrade before the   *)
(* lock expires.                                                             *)
OneMigrator ==
  \A v, w \in Workers : pc[v] \in Upgrading /\ pc[w] \in Upgrading => v = w

(* The lock neither expires nor is deleted under a worker that is still      *)
(* upgrading: the delete of its finally never hits another worker's lock.    *)
LockOutlivesMigration == (\E w \in Workers : pc[w] \in Upgrading) => lock > 0

(* Where "wait for it to finish before serving traffic" (main.py:92) holds:  *)
(* a worker serves the old schema only if an upgrade failed or a worker died *)
(* before, or if it has itself slept through all turns of its loop.          *)
OldSchemaExcused ==
  \A w \in Workers :
    pc[w] = "serving" /\ schema = "old" => faults > 0 \/ polls[w] = Polls

(* However the migrating worker fails or dies, every worker serves in the    *)
(* end: a lock left behind expires, and no waiter waits for ever.            *)
EveryoneServes == <>[](\A w \in Workers : pc[w] = "serving")

(* main.py:92: "Another pod is migrating - wait for it to finish before      *)
(* serving traffic". The waiters only see that the lock is gone.             *)
ServesMigrated == \A w \in Workers : pc[w] = "serving" => schema = "head"

(* ARCHITECTURE.md:240: "Alembic migrations run on startup". A worker killed *)
(* while it migrates leaves its lock; the workers started in its place wait  *)
(* for that lock to expire and then serve, and nobody migrates.              *)
MigrationsRunOnStartup == <>(schema = "head")

================================================================================
