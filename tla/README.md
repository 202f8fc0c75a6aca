# Formal model of the task API

The repository is a small task-list service (`src/backend`): a FastAPI
application that accepts writes with `202`, a Celery worker that carries them
out, PostgreSQL for users and tasks, and Redis as broker, result backend,
session store, lockout store, dead letter list and start-up lock. This
directory holds TLA+ modules of its core, TLC configurations that model-check
them on small instances, and TLAPS proofs of the main properties for every
value of the constants.

To reproduce, in this directory:

    tlc -workers 2 -config JobPipelineOrders.cfg MCJobPipeline.tla
    tlapm JobPipelineProofs.tla

## 1. Inventory

| Component | State | Operations | What makes it correct |
|---|---|---|---|
| Write routes and polling (`main.py:228-297`, `schemas.py`) | none of its own | `create`, `update`, `delete` enqueue and answer 202; `get_job` shows the stored state | what a poll shows is true; an accepted write is not lost |
| Celery jobs (`task_jobs.py`, `celery_app.py`) | broker messages, result backend, `dead_letter` list | take a message, run the job, `retry`, `on_failure`, ack | every accepted job ends in success, in the dead letter list, or in a Redis error; retries do not multiply its effect; the list stays bounded |
| Task writes (`task_service.py`, `models.py`) | table `tasks` | `create_task`, `update_task`, `delete_task` | a row changes only as its owner asked; concurrent updates do not undo each other |
| Task reads (`task_service.py:20-27`) | none | list with offset and limit, get one | pages show each task once |
| Start-up (`main.py:76-100`, `alembic/env.py`, `Dockerfile`) | Redis key `db:migration_lock`, the schema | `lifespan` | one worker migrates at a time; all serve in the end, and on the new schema |
| Sessions (`session_manager.py:36-66`, `auth.py`, `main.py:189-222`) | Redis keys `session:*` with expiry; signed tokens | login, refresh, logout, lookup | a deleted session stays gone; a client's tokens last as long as its session |
| Lockout (`session_manager.py:18-33`, `user_service.py:30-47`) | Redis counter with expiry and lock key per account | failed login, successful login | failures on an account are bounded; a right password does not open a locked one; a lock ends |
| Registration (`main.py:179-186`, `user_service.py:12-27`) | table `users` | `register` | a name is given once, and none is taken without an answer for it |
| Request threads and connections (`main.py:115-120`, `auth.py:41-65`, `database.py`) | worker threads, connection pool of each process | request, pool timeout, 504 | every request ends and returns what it holds; what clients are told fits what was enqueued |
| Rate limits (`main.py:68`) | counters in each process, kept by slowapi | | the limit holds for the service |
| Backups (`k8s/13-db-backup.yml`) | the newest seven files | dump, rotate | a good backup is always there |
| Deployment, autoscaling, telemetry, dashboards, CI, load scripts | none the program reads back | | |

Interaction. A route writes a message to the broker (`.delay`); a worker process
takes it, opens a database session, calls one function of `task_service.py`,
stores the outcome in the result backend and acks the message; a client polls
the result backend. `acks_late` and `reject_on_worker_lost` put a message back
when its worker dies. API processes share only Redis and PostgreSQL.

Login, refresh, logout and registration are carried out by the API itself, in a
worker thread of some API process; all of their state is in Redis and PostgreSQL,
so handlers of different processes interleave at every call. A successful login
goes from the lockout keys to `create_session`, and every authorized route looks
the session up again before it does anything. A write request needs a thread and
a connection of its process for that before it can enqueue its job.

What is hard here: each job is a series of separate calls (select, commit,
refresh, store, publish, push, trim, ack) that another worker, an error or a
crash can come between; PostgreSQL runs them under READ COMMITTED; a commit can
take effect and still raise; a retry is a second message that can run beside a
redelivered first one; Redis keys expire by themselves. Checking a lock, a
session or a name, and acting on the answer, are different calls; a handler whose
client was answered 504 goes on. The list with source
lines is under `hazards` in `PROJECT.json`.

## 2. Modules

### JobPipeline

The write path from the `202` to the ack, in one module because its properties
relate all of its parts.

| Variable | In the program |
|---|---|
| `accepted` | the arguments of the Celery message behind each job id |
| `delivery` | the broker's messages, each with the retry count and, while a worker runs it, the place in the job (`pc`), the local variables (`id`, `seen`, `outcome`), and whether this run has committed a change (`committed`) or published a retry (`retried`), of which only the history variables take note |
| `tasks` | the table: row or `None` for every id |
| `status`, `result` | the Celery result backend |
| `dead_letter` | the Redis list, newest first |
| `pushed` | history: all that was ever pushed to that list, newest first |
| `creator`, `applied`, `uncertain`, `copies`, `ended` | history: who inserted a row, how often a job's commits changed the table, of which jobs a run failed or was lost after its own commit, how many messages a job got on top of its first one and its retries, how a job came to an end. No guard reads the last four; `creator` only serves to keep ids fresh |
| `faults` | faults spent of `MaxFaults` |

Actions: `Accept` (the three routes, which look nothing up); `Start`; the
statements of the services, `Select`, `Insert`, `Update`, `Delete`, `Refresh`;
`DbError` (any statement raises, and so may the rollback or the close after it);
`StoreSuccess`;
`Retry`, `StoreRetry` (Celery publishes the retry, stores `RETRY`, then acks);
`StoreFailure`, `Push`, `Trim` (`on_failure` runs after `FAILURE` is stored);
`Ack`; and the environment: `Crash`, `RedisError`, `Republish`, `ExpireResult`.

Points of the translation a reader may want to compare with the code:

* `update_task` goes through the ORM's unit of work: the UPDATE sets the columns
  whose new value differs from the one its SELECT loaded, and the commit of an
  object with no such column sends no statement (`Written`, first branch of
  `Update`). A row that is gone makes UPDATE raise `StaleDataError`, while DELETE
  only warns: `delete_task_job` then returns True.
* `Commit` has two outcomes: the answer arrives, or the row has changed and the
  call raises. A commit that raises without effect is `DbError`.
* A statement that raises leads to the except branch and, by `retry()`, to a new
  message. If `db.rollback()` raises in that branch, or `db.close()` in the `finally`
  of a job whose last SELECT left a transaction open, there is no retry: the job has
  raised (`raised`) and `FAILURE` is stored.
* `Republish`: the code leaves Celery's `task_publish_retry` on, so a publication, be
  it of `.delay()` or of a retry, whose LPUSH took effect but was not answered is
  made again under the same job id. A message that the broker's visibility timeout
  delivers a second time makes the same copy. It is a fault, taken while the message
  is queued; a copy that comes later is one that waits in the queue. A message that
  comes back from a lost worker which had published its retry is a copy, too.
* `create_task` has no idempotency key: the id is a fresh uuid in every run.
* `Store` keeps a stored `SUCCESS`, as Celery's key-value backends do. Redelivered
  messages can still turn `FAILURE` or `RETRY` into `STARTED`.
* `RedisError` is a Redis call of the worker that raises: Celery then acks (or
  rejects without requeueing) and the job gets no outcome. Celery is external
  code; those actions are marked so in the map.
* `retry()` can publish only if the broker takes another message. `Deliveries`
  bounds the messages alive at once. The API is held back in the same way.

Left out: countdowns of retries (any delay is allowed), the text of errors,
prefetched but unstarted messages (the same as queued), and the two reads of the
state in one poll: `SuccessIsTrue` speaks of what is stored, and a poll that falls
between them shows an older status next to it.

### MigrationLock

Start-up of all gunicorn workers of all `Pods`. Time is counted in sleeps of the
waiting loop. A worker is forked (`boot`), sets the key (`migrating`) or waits
(`waiting`, `asleep`), upgrades in one transaction or fails, deletes the key,
and serves. gunicorn kills one that takes longer than `--timeout` to start,
since neither `alembic_command.upgrade` nor `time.sleep` lets the event loop
send a heartbeat; it and the orchestrator start another in its place. An upgrade
that raises ends its worker with gunicorn's boot error, which halts the pod
(`Halt`): its other workers are stopped wherever they are, one that has just set the
lock included, and the pod starts anew. The model ends them by their start-up timeout;
gunicorn may leave them the 30 s of `--graceful-timeout` more, which with the 60 s is
still below the lock's 120 s. Workers and pods may also die by themselves
(`Dies`, `PodDies`), serving ones included. A worker
that never gets to serve because its import or upgrade is too slow every time is
counted as a fault; one that is killed while waiting is not.

### TaskLedger and JobLedger

`TaskLedger` is what the write path promises, without queue, workers, result
backend and retries: an accepted request changes the table in one step, as its
user asked and nothing else (`Created`, `Updated`, `Deleted`); at most once unless
an error, a crash or a repeated publication has left that open (`Doubt`); and it is settled.
`JobLedger` instantiates it over the variables of `JobPipeline`: `asked` is
`accepted`, the table is the same, a job is `done` with its first commit,
`doubtful` when it is in `uncertain` or has got a copy, and `settled` as `ended` says. So a commit
that takes effect is one `Apply`, a fault after it or a copy is a `Doubt`, and the SELECTs,
retries, messages and stored states are stutters. The owner of a row is checked
by `Apply` at the moment of the change, in the code by an earlier statement.

### Accounts

Registration and login, one action per call to PostgreSQL or Redis. `users` is the
table's password column; `failed`, `expiry` and `locked` are the counter, its time
to live and that of the lock key, per name; `handler` holds the requests in
progress of all API processes, with label, name, password, the count that `incr`
returned, and age. Two points of the translation: `Expire` is without effect on a
key that is gone, and `Clear` is one DEL of both keys. `Fail` is a call that raises
or a process that dies, at any label. Losing the answer of a call that took effect
is the call followed by `Fail`. `since` is history: the ticks an account has been
locked without a break (its clock stops one tick past what `LockIsShort` allows, which
keeps it finite and cannot hide a violation). Time is counted in ticks; a request lives `MaxAge`
ticks at most, less than the 15 minutes of the lock (`TimesAssumption`). This is
an assumption on the environment and not a consequence of the code: the 504 does
not end a handler, and the code sets no timeout for a Redis call
(`redis_client.py:6`) or a statement (`database.py`), only `pool_timeout`. What rests
on it are `FailuresBounded`, `LockOutlastsLogins`, `LockIsShort` and `LockEnds`.

### Sessions

`session` is the time to live of each key, `tokens` the times left to the tokens
of a session that clients hold. A token whose time is up cannot be decoded any more
(`Decodes`), which `logout` and the second decoding in `refresh` take for a token
without a session. `Open` is `create_session`, `Issue` makes the token and answers;
a 504 or an error in between loses the token (`lost`). `Extend` leaves a key that
is gone alone and does not tell.

### RequestPool

One API process with `Threads` worker threads and `Connections` database
connections. FastAPI runs each synchronous dependency and each handler in a worker
thread of its own turn, and the validation of the response once more;
`get_current_user` takes a connection with its first statement and `get_db` gives
it back after the response (that needs no worker thread). Hence the labels: a
write or a read waits for a thread, in it for a connection, gives the thread back,
waits for the next with the connection in its hands. A login or a registration
takes its connection in the handler's thread; the commit in `create_user` gives it
back (`CommitUser`), so the `refresh` after it waits for one a second time, still in
its thread (`reconnect`). `Route` says which of these a client's request is.
`PoolTimeout` ends the one wait that
could be circular. `TimeoutMiddleware` answers 504 at any label and the request
goes on, since the middleware's task can be cancelled but not the thread. The
thread pool, the middleware's task and the client (`Send`) are external.
The handler of a write publishes with Celery's retry: Redis can have taken the job
and its reply be lost, and then `.delay()` pushes it once more (`PublishAgain`, at
most `MaxResent` times for a client) and the request is still answered 202;
`resent` counts these. `PublishFails` is a `.delay()` that gives up.

## 3. Runs

| Run | Instance | Question and result |
|---|---|---|
| `job_orders` | 2 jobs, 7 requests of 2 users on one initial row, one retry, no faults | Do jobs that meet on a row in any order of statements, with any statement raising, corrupt it or report what is not so? No: `SuccessIsTrue`, `RowsChangeOnlyAsAsked`, `TypeOK`; the commits are single changes of the ledger: `ImplementsLedger` |
| `job_faults` | 3 deletes of one row, no retry, a list of two, one fault | Can the dead letter list outgrow its cap, or lose a newer entry and keep an older one? No: `DeadLetterBounded`, `NewestDeadLettersKept`. Is a failed job in the list? Yes, unless the list is full or a Redis call raised: `FailedJobsListed` |
| `job_ends` | 1 job of any kind, two retries, one fault | Can an accepted job vanish? No: `NothingVanishes`. Is it applied twice, or shown as failed after it was applied, without a run that failed or was lost after its own commit, or a copy of its message? No: `AtMostOnce`, `FailedUntouched`. And with one: how often can it be applied, and how many workers can be in it at a time? `AppliedBounded`, `OverlapsBounded`. Does it always end? Yes: `EveryJobEnds`, and `FulfilsLedger`, the refinement with its liveness |
| `pending_poll` | 1 job, no fault | `PendingMeansNotStarted` is violated |
| `dead_letter_lost` | 1 job, one fault | `FailedJobsPreserved` is violated |
| `migration_lock` | 3 workers in 2 pods, two faults | `OneMigrator`, `LockOutlivesMigration`, `TypeOK`; a worker serves the old schema only after a fault or at the end of its own waiting loop (`OldSchemaExcused`); and `EveryoneServes` under fairness |
| `migration_serves` | the same | `ServesMigrated` is violated |
| `migration_runs` | the same, one fault | `MigrationsRunOnStartup` is violated |
| `accounts` | one name, 2 passwords, 2 requests at once, threshold 2, one login that breaks off | How far can failures be counted past the threshold? `FailuresBounded`: two rounds of the requests at once, one more for each login that breaks off. Does a right password open a locked account (`LockOutlastsLogins`), can a name be given twice (`RegisteredOnce`)? No. Does a lock end while clients keep trying? Yes, within the time to live of the lock and the life of a request: `LockIsShort`, `LockEnds` |
| `sessions` | 2 sessions, 2 requests at once, 2 ticks of life | Can a refresh bring a session back that a logout has deleted, or a session be left without a token that can end it? No: `DeletedStaysDeleted`, `TokenOutlivesSession` |
| `logout_ends` | the same | `LogoutEndsSession` is violated |
| `request_pool` | a write with 2 tries, a registration, a login; 2 threads, 1 connection | A write published again once. How far can what a client was told and what is in the queue differ, after a 504, an error or a lost reply of Redis? `EnqueuedAsTold`. Can threads and connections block each other? Not while fewer requests are in progress than there are of both together (`FewNeverBlock`), and never for ever: `EverythingReturns`, thanks to the pool's timeout |

Deadlock is checked in every run. `Idle` (in two modules) and `AllServing` are explicit stutters
for the states in which nothing is left to do within the bounds; any other state
without a successor would be reported.

Bounds. Two jobs are the least that can meet; the rows of three would add no
new pair of statements. `Deliveries` is four: two jobs and one retry each, or one
job with its copies, its retry and that of a copy. `job_orders` has no faults, so that
all orders of the statements fit; what faults do to one job is in `job_ends`, with a
first run, one between and a last one, and one fault at every point: a crash after
the retry is published, a lost commit answer, a Redis error, a copy. The invariant
behind `AtMostOnce` and `FailedUntouched` was also checked with one retry and two
faults, and the proofs have no bound. In `job_faults` three jobs fill a list of two and
push out an entry, while a worker is lost between push and trim. Why a job fails and
how often it was tried makes no difference to the list, hence one kind and no retry.
`TaskIds` has an id for every run there can be (`IdsAssumption`): an insert is never
held back. In `MigrationLock` the three times have the ratio of 120 s, 30 * 2 s
and 60 s; three workers give a migrating one, one that waits in its pod and is
halted with it, and one of another pod.
In `Accounts` one name is enough, as no action relates two; two
requests at once and a threshold of two let one count below the threshold, one
over it, and their expires come in either order; `AttemptTTL = LockTTL` as in the
code, three ticks against requests of one. `LockIsShort` is tight
there: an account locked for `LockTTL + MaxAge` ticks is reached. The invariant of
`FailuresBounded` was also checked with three requests at once and no login that breaks off. In `Sessions` both times are equal, as
24 hours are in the code; two sessions and two requests give a refresh against a
logout of the same session and of another one. `RequestPool` has more threads than
connections, as the service has (40 and 30): two threads that both wait for the one
connection, held by a request that waits for a thread, are the deadlock the pool's
timeout has to end. `Tries` bounds each client's requests: the write is repeated, as
only its answers are compared with the queue.
Symmetry is used over job ids, and in no run with a liveness property.

Fairness. `JobPipeline` has weak fairness on the steps of every message: the
workers keep running (Kubernetes and compose restart them), and calls return or
raise: the code sets no timeouts that would make them (`redis_client.py:6`,
`database.py`), so this is assumed of Redis and PostgreSQL. Clients, errors, crashes and expiry are not fair, they merely may happen.
Crashes and Redis errors are bounded by `MaxFaults` and database errors by the
retries, which is why every job ends. `MigrationLock` has weak fairness on time, on
each worker's start-up steps and on the halt of a pod; failed upgrades and early deaths are not fair.

`Accounts` has weak fairness on time and on the steps of a request: each call is
assumed to return or raise, so that the ages allow time to pass. Clients and failures are not fair.
`RequestPool` has weak fairness on the steps of each request. A free thread may be
given to others for a while, but the tries of all clients are bounded by
`Tries`; in the service the queue for threads is first in, first out.
`Sessions` states no liveness.

## 4. Findings

* `pending_poll`: `main.py:238` shows a state missing from
  `_CELERY_TO_JOB_STATUS` as pending. `RETRY` is missing, so a job that ran and
  failed, and may even have committed, is polled as
  "PENDING - queued, not yet started" (`ARCHITECTURE.md:130`).
* `dead_letter_lost`: `ARCHITECTURE.md:225` promises that failed jobs "are
  preserved in Redis". When the `lpush` of `celery_app.py:48` raises, the message
  is acked and there is no dead letter.
* `migration_serves`: a failed upgrade deletes the lock in its `finally`, and the
  waiters take that for the end of the migration (`main.py:92`).
* `migration_runs`: the worker that migrates is killed, the others and its
  replacement wait for its lock to expire and then serve. Nobody migrates until
  the next deployment.

* `logout_ends`: `logout` (`main.py:206`) answers 204 also when its token cannot be
  decoded any more. A session that was refreshed outlives the older token, and a
  logout with that one leaves it alive, against "instant revocation on logout"
  (`ARCHITECTURE.md:223`). A browser tab that kept the old token is enough.

## 5. Proofs

`MigrationLockProofs`: `TypeCorrect`, `MigrationsExclude` and `LockHeldThroughout`
for any pods and workers, under `TimesAssumption`, of which the important part is
`StartupTimeout < LockTTL` (60 s < 120 s). `OneMigrator` alone is not inductive:
nothing in it says why a lock cannot expire while its worker migrates. `Margin`
does: the lock's remaining time and the migrating worker's age add up to at least
`LockTTL`. As the age is at most `StartupTimeout`, the lock has not expired, so no
other worker can have acquired it, and the delete hits the worker's own lock.

`OldSchemaOnlyAfterFault` proves what is true of the comment that `migration_serves`
refutes. `Excused` adds why, without a fault, a lock that is gone means a finished
upgrade (`Begins`): no upgrade has raised and no pod halts, and as long as the schema
is old, either all workers are still in
`boot` and nobody has ever set the lock, or one is migrating. The second part needs
`OneMigrator` and `LockOutlivesMigration`: the lock of that one is there, so no waiter
sees it gone.

`JobPipelineProofs`: `TypeCorrect` and `NoJobVanishes` for any number of jobs,
messages, workers, retries and faults. `TypeOK` includes what types rest on: a live
message belongs to an accepted job, and its run knows a row id wherever it uses
one (`Located`). `NothingVanishes` speaks only of jobs with no message left, which
no step preserves by itself. Its strengthening `Accounted` says that each accepted
job has an end on record or a message that still owes one (`Owes`: one whose
outcome is not yet recorded and that has not handed over to a retry). The proof
follows that obligation: `Retry` creates the new debtor in the step in which the
old one stops to be one, and `Crash` puts a message back that owes again. Each
action has a lemma or a step; steps that only move one message share the lemmas
about `Moved`.

The other safety properties have modules of their own, each with the invariant
that carries it:

* `JobRowProofs`: `RowsChange`. The owner is checked by a SELECT, in another statement
  than the write. `Owned` says why that is enough: a row's id was minted once and never
  again, so a row that is still there at the write has the owner the SELECT saw.
* `JobOnceProofs`: `AppliedOnce` and `FailureHasNoEffect`. `Once` counts tokens: a message
  holds one until its run commits or hands it on (`Holders`), and for a job not in `uncertain`
  the commits made and the tokens held are never more than `1 + copies`. A commit
  spends the token of its run; `Retry` hands it on to the new message; a crash before the
  retry is published leaves it where it is, one after that makes a second token and
  counts as a copy, as `Republish` does. So two runs that overlap, one of them the
  retry of the other, can both commit only if `copies` says so. A run that failed or was
  lost after its own commit is the one thing that puts its job into `uncertain`. Once
  `FAILURE` is stored, the commits made and the tokens about to be used (`Going`) are no
  more than `copies`, since the run that failed did not use its own; which gives
  `FailedUntouched`.
* `JobOnceProofs` also bounds what happens to the jobs in `uncertain`. `JobsApplyBounded`:
  `AppliedBounded` is strengthened by a potential, `Budget`. `RunsLeft` is the set of pairs
  of a message and a retry count it can still lead to, and commits made plus runs left
  never exceed `(MaxRetries + 1) * (1 + faults)`. A commit trades a run for a commit; a
  retry takes over its predecessor's remaining runs (an injection between the two sets);
  a crash gives back at most one message's `MaxRetries + 1` runs, as one fault pays for.
  `RunsRarelyOverlap`: `OverlapsBounded` is inductive with `TypeOK`, since a message that is
  over stays over but for a crash, and a retry is unsettled in the place of its
  predecessor.
* `JobRowProofs` also has `AnswersAreTrue`. `Truthful` follows an answer from the statement
  that makes it true, through the refresh and the run's local variables, to the result
  backend. It stays true since rows keep their owners and ids are not used again, which
  is what `Owned` gives.
* `JobPipelineProofs` also has `DeadLettersBounded` and `DeadLettersKept`. `DeadLetterBounded` is
  inductive with `TypeOK`; the work is counting the messages between push and trim.
  `NewestDeadLettersKept` relates the list to all that was ever pushed: it is a prefix
  of `pushed`, and shorter only with `DeadLetterCap` entries or more, whichever workers
  trim and whichever never get to it.
  `FailedJobsAreListed` is the part of "preserved in Redis" that holds. Between storing
  `FAILURE` and the push the job is not listed yet; `Recorded` says that one of its messages
  then is on its way to the push, or was put back by a crash, and starting that one
  takes the failure back (`STARTED`).

`LedgerProofs`: `PipelineImplementsLedger`, the step simulation behind `ImplementsLedger`.
Each action of the pipeline is shown to be an `Apply`, `Doubt`, `Settle` or `Ask` of
the job whose message it moves, or to leave the ledger's variables alone. It needs
`Owned` (the row is still the asking user's when the change is made), and `Once` (a
second change only for a job already in doubt), and cites them from the modules above.

`AccountsProofs`:

* `NamesRegisteredOnce`. `RegisteredOnce` needs `Exclusive`: at most one handler is
  between the commit of a name and its answer, and nobody has been told of that name.
* `LocksOutlastLogins`. `Older`: a login that was let in saw no lock, so one that
  is there now was set since, and its remaining time and the login's age add up to at
  least `LockTTL`.
* `FailuresStayBounded`. The bound is not inductive, since it does not say which of the
  two rounds an account is in. `Mode` does: below the threshold (`Quiet`); over it with
  no lock yet, each failure over the threshold answered for by a handler on its way
  to lock (`Open1`); locked, nobody let in any more (`Sealed1`); and the two again
  after a lock ended with the counter still there (`Open2`, `Sealed2`). By `Older` and
  `MaxAge < LockTTL` nobody who was let in is left when a lock ends, so in the second
  round no one is below the threshold, and the counter ends no later than the lock.
  A login that breaks off allows for one round more, which leads from the second
  round's bound to the first one's. It rests on `AttemptTTL <= LockTTL`.
* `LocksAreShort`. `Brief` and `LetInBefore`: a login that may still set the lock was let in
  when there was none, so the lock is no older than that login, at most `MaxAge`; whatever
  it sets ends `LockTTL` later. One that arrives at a locked account is turned away and
  never gets there, which is what `LockEnds` rests on.

`SessionsProofs`: `DeletedForGood` and `TokensLast`, for any number of sessions and
requests and any times with `SessionTTL <= TokenTTL`. `TokenOutlivesSession` says where
the newest token of a session is: with a client, or on its way, or lost; each `Extend`
moves it back to the second place, and time takes as much from the token as from
the key.

`RequestPoolProofs`: `TypeCorrect`, with the counts of threads and connections, and
`QueueMatchesAnswers`, for any mix of routes and any publications repeated, strengthened by the requests that were answered 504 and may
still enqueue (`Late`): each of them has its open answer to spend. `FewRequestsMove`: when
no request can move, each thread is taken by one that waits for a connection, and each
connection by one that waits for a thread. These are different requests, so there are
at least as many as threads and connections together. `MovesAreMoves` ties `CanMove`,
which is stated without ENABLED, to the actions: each step of `Progress` other than
the pool's timeout is taken by a request that `CanMove`.

All theorems about jobs assume the named assumptions of `JobPipeline`: the types of
requests and initial rows, the ranges of the sizes, that `None` is no other value;
`IdsAssumption` (enough ids) is for the runs alone. Those of the other modules assume
the assumptions stated there: sizes, times, and `None`.

Only model-checked: `EveryJobEnds`, `FulfilsLedger` beyond its safety part,
`EveryoneServes`, `LockEnds` and `EverythingReturns`, since liveness under fairness is
outside the prover's reach, and the five properties that are violated. Safety properties
at the core of some of these are proved: `LockIsShort` for `LockEnds`, `FewNeverBlock` and
the counts of `TypeOK` for `EverythingReturns`, `FailedJobsListed` and `OldSchemaExcused`
for what remains of `FailedJobsPreserved` and `ServesMigrated`.

## 6. Not modelled

* Task reads: they change no state and answer from one statement each. Pages are cut
  without ORDER BY, so a task may show twice or not at all; nothing in the code or
  its documents promises otherwise.
* Rate limits: slowapi counts them in each process; the code only names them. The 429
  is one of the refusals in `RequestPool`.
* In `RequestPool`, logout, which takes no connection and so waits for a thread only,
  and the health route, which waits as a login does.
* The broker address (`celery_app.py:10`), where `rstrip` removes characters and not a
  suffix: one expression, without state.
* The backup job, the generated migrations (taken as one transaction), deployment
  and autoscaling (the number of workers is a constant, a scale-down is a crash).
* Telemetry, logging, dashboards, alerts, CI and load scripts: output only.
* Validation of names, passwords and titles, the texts of answers, and hashing
  (a password matches or it does not).

What could come next: several API processes in front of one broker with `JobPipeline`
behind them.
