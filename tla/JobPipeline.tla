------------------------------ MODULE JobPipeline ------------------------------
(***************************************************************************)
(* The write path of the task API: a request accepted with 202 by main.py  *)
(* becomes a Celery message, a worker runs the job of task_jobs.py, the    *)
(* job calls task_service.py against the tasks table, the outcome goes to  *)
(* the result backend, and a job that used up its retries goes to the      *)
(* Redis list "dead_letter" (celery_app.py).                               *)
(*                                                                         *)
(* A message runs through the labels of pc; each label is one call another *)
(* worker, the database or Redis can come between:                         *)
(*                                                                         *)
(*   queued -> read -> write -> refresh -> store ------------------> ack   *)
(*               \________\________\_______|__ failed -> storeRetry -> ack  *)
(*                                         |     |                         *)
(*                                       raised -+---> push -> trim -> ack *)
(*                                                                         *)
(* acks_late and reject_on_worker_lost are set, so a message is removed    *)
(* only by Ack, and a worker lost before that puts it back in the queue.   *)
(***************************************************************************)
EXTENDS Integers, Sequences, FiniteSets

CONSTANTS
  Users,          \* ids of registered users
  Titles,         \* task titles
  TaskIds,        \* uuids a row of the tasks table can have
  Jobs,           \* Celery job ids
  Deliveries,     \* messages the broker can hold at once
  None,           \* Python's None, SQL's absent row, no message
  InitialRows,    \* the rows there at the start, by id
  Requests,       \* what clients ask for
  MaxRetries,     \* max_retries of the three jobs
  Concurrency,    \* worker processes, --concurrency times the replicas
  DeadLetterCap,  \* entries ltrim leaves
  MaxFaults       \* bound on crashes, lost answers and Redis errors

Row == [owner_id : Users, title : Titles, is_done : BOOLEAN]

Request == [kind : {"create", "update", "delete"}, owner_id : Users,
            task_id : TaskIds \union {None}, title : Titles \union {None},
            is_done : BOOLEAN \union {None}]

\* What a job returns: _task_to_dict(task), None, True or False.
Outcome == [returned : {"task", "null", "true", "false"},
            id : TaskIds \union {None}, row : Row \union {None}]

\* committed, retried: what this run of the message has done so far, change
\* the table or publish a retry; no action of the program reads retried.
Message == [job : Jobs, retries : 0..MaxRetries,
            pc : {"queued", "read", "write", "refresh", "store", "failed", "raised",
                  "storeRetry", "push", "trim", "ack"},
            id : TaskIds \union {None}, seen : Row \union {None},
            outcome : Outcome \union {None},
            committed : BOOLEAN, retried : BOOLEAN]

ASSUME RequestsAssumption ==
  /\ Requests \subseteq Request
  /\ \A r \in Requests : r.kind = "create" => r.title # None

ASSUME InitialRowsAssumption ==
  /\ DOMAIN InitialRows \subseteq TaskIds
  /\ InitialRows \in [DOMAIN InitialRows -> Row]

ASSUME SizesAssumption ==
  /\ MaxRetries \in Nat /\ MaxFaults \in Nat
  /\ Concurrency \in Nat \ {0} /\ DeadLetterCap \in Nat \ {0}
  /\ IsFiniteSet(Deliveries)

\* Every run of every message finds a fresh id.
ASSUME IdsAssumption ==
  /\ IsFiniteSet(TaskIds) /\ IsFiniteSet(Jobs)
  /\ Cardinality(TaskIds) >= Cardinality(DOMAIN InitialRows)
                             + (MaxRetries + 1) * (Cardinality(Jobs) + MaxFaults)

ASSUME NoneAssumption ==
  /\ None \notin Users \union Titles \union TaskIds \union Jobs
  /\ None \notin BOOLEAN /\ None \notin Row /\ None \notin Message
  /\ None \notin Request /\ None \notin Outcome

VARIABLES
  accepted,     \* the request behind each job id the API answered with
  delivery,     \* the broker's messages, with the state of the run they are in
  tasks,        \* the tasks table
  status,       \* the result backend: each job's state ...
  result,       \* ... and what it returned
  dead_letter,  \* the Redis list, newest entry first
  \* history, read by no action of the program:
  pushed,       \* every dead letter ever pushed, newest first
  creator,      \* the job that inserted each row
  applied,      \* how many commits of each job changed the table
  uncertain,    \* jobs of which a run failed or was lost after its commit
  copies,       \* messages each job got on top of its first one and its retries
  ended,        \* how each job was ever brought to an end
  faults        \* faults spent

\* What a step leaves alone, in groups.
lists == <<dead_letter, pushed>>
history == <<creator, applied, uncertain, copies>>

vars == <<accepted, delivery, tasks, status, result, lists, history, ended, faults>>

--------------------------------------------------------------------------------
Live == {d \in Deliveries : delivery[d] # None}
Running == {d \in Live : delivery[d].pc # "queued"}
At(d, label) == d \in Live /\ delivery[d].pc = label
Full == Live = Deliveries
NextFree == CHOOSE d \in Deliveries : delivery[d] = None
Minted == DOMAIN InitialRows \union {t \in TaskIds : creator[t] # None}

\* Defect: ids are numbers, and that of a deleted row is given out again.
FreshIdReused == CHOOSE t \in TaskIds : tasks[t] = None

FreshId == CHOOSE t \in TaskIds : t \notin Minted

Queued(j, n) == [job |-> j, retries |-> n, pc |-> "queued", id |-> None,
                 seen |-> None, outcome |-> None,
                 committed |-> FALSE, retried |-> FALSE]

Plain(answer) == [returned |-> answer, id |-> None, row |-> None]

Goto(d, label) == delivery' = [delivery EXCEPT ![d].pc = label]

\* The job function is left: its local variables are gone.
Leave(d, label) ==
  delivery' = [delivery EXCEPT ![d] =
    [@ EXCEPT !.pc = label, !.id = None, !.seen = None, !.outcome = None]]

\* Celery's key-value backends do not overwrite a stored SUCCESS.
Store(j, state) ==
  status' = IF status[j] = "SUCCESS" THEN status ELSE [status EXCEPT ![j] = state]

Fault == faults < MaxFaults /\ faults' = faults + 1

\* A run that fails or is lost after its commit: nobody can tell any more.
Doubt(d) ==
  uncertain' = IF delivery[d].committed THEN uncertain \union {delivery[d].job}
               ELSE uncertain

\* The job of d now has one message more than its one chain of retries.
Copy(d) == copies' = [copies EXCEPT ![delivery[d].job] = @ + 1]

End(d, how) ==
  ended' = [ended EXCEPT ![delivery[d].job] = @ \union {how}]

Init ==
  /\ accepted = [j \in Jobs |-> None]
  /\ delivery = [d \in Deliveries |-> None]
  /\ tasks = [t \in TaskIds |->
                IF t \in DOMAIN InitialRows THEN InitialRows[t] ELSE None]
  /\ status = [j \in Jobs |-> "PENDING"]
  /\ result = [j \in Jobs |-> None]
  /\ dead_letter = <<>> /\ pushed = <<>>
  /\ creator = [t \in TaskIds |-> None]
  /\ applied = [j \in Jobs |-> 0]
  /\ uncertain = {}
  /\ copies = [j \in Jobs |-> 0]
  /\ ended = [j \in Jobs |-> {}]
  /\ faults = 0

--------------------------------------------------------------------------------
(* main.py: the three write routes call .delay() and answer 202. They look   *)
(* up nothing: a task id that is unknown or another user's is accepted too.  *)
Accept(j, r) ==
  /\ accepted[j] = None
  /\ r.task_id \in Minted \union {None}
  /\ accepted' = [accepted EXCEPT ![j] = r]
  /\ ~Full
  /\ delivery' = [delivery EXCEPT ![NextFree] = Queued(j, 0)]
  /\ UNCHANGED <<tasks, status, result, lists, history, ended, faults>>

(* Celery publishes with task_publish_retry: a message whose LPUSH took      *)
(* effect but was not answered, be it of .delay() or of a retry, is pushed   *)
(* once more under the same job id. The broker's visibility timeout makes a  *)
(* copy, too. A copy that comes later is one that waits in the queue.        *)
Republish(d) ==
  /\ At(d, "queued")
  /\ Fault
  /\ ~Full
  /\ delivery' = [delivery EXCEPT
       ![NextFree] = Queued(delivery[d].job, delivery[d].retries)]
  /\ Copy(d)
  /\ UNCHANGED <<accepted, tasks, status, result, lists, creator, applied,
                 uncertain, ended>>

(* A worker process takes a message; task_track_started stores STARTED.      *)
Start(d) ==
  /\ At(d, "queued")
  /\ Cardinality(Running) < Concurrency
  /\ Store(delivery[d].job, "STARTED")
  /\ Goto(d, IF accepted[delivery[d].job].kind = "create" THEN "write" ELSE "read")
  /\ UNCHANGED <<accepted, tasks, result, lists, history, ended, faults>>

\* Defect: the SELECT leaves out the owner.
FoundOfAnyone(r) == r.task_id # None /\ tasks[r.task_id] # None

\* The row with the asked id, if it is the asking user's.
Found(r) == /\ r.task_id # None /\ tasks[r.task_id] # None
            /\ tasks[r.task_id].owner_id = r.owner_id

(* The SELECT by id and owner that update_task and delete_task begin with;   *)
(* without a row they return None or False.                                  *)
Select(d) ==
  /\ At(d, "read")
  /\ LET r == accepted[delivery[d].job]
     IN  delivery' = [delivery EXCEPT ![d] =
           IF Found(r) THEN [@ EXCEPT !.pc = "write", !.seen = tasks[r.task_id]]
           ELSE [@ EXCEPT !.pc = "store",
                   !.outcome = Plain(IF r.kind = "update" THEN "null" ELSE "false")]]
  /\ UNCHANGED <<accepted, tasks, status, result, lists, history, ended, faults>>

\* A commit of message d that changes row t: the answer may get lost on the
\* way back, and then commit() raises although the row has changed.
Commit(d, t, row, next) ==
  /\ tasks' = [tasks EXCEPT ![t] = row]
  /\ applied' = [applied EXCEPT ![delivery[d].job] = @ + 1]
  /\ \/ /\ delivery' = [delivery EXCEPT ![d] =
             [@ EXCEPT !.pc = next, !.id = t, !.seen = None, !.committed = TRUE]]
        /\ UNCHANGED <<uncertain, faults>>
     \/ /\ Fault
        /\ delivery' = [delivery EXCEPT ![d] =
             [@ EXCEPT !.pc = "failed", !.id = None, !.seen = None, !.committed = TRUE]]
        /\ uncertain' = uncertain \union {delivery[d].job}

(* create_task: add, commit; the id is a fresh uuid4.                        *)
Insert(d) ==
  /\ At(d, "write")
  /\ LET r == accepted[delivery[d].job]
         new == [owner_id |-> r.owner_id, title |-> r.title, is_done |-> FALSE]
     IN  /\ r.kind = "create"
         /\ TaskIds \ Minted # {}
         /\ creator' = [creator EXCEPT ![FreshId] = delivery[d].job]
         /\ Commit(d, FreshId, new, "refresh")
  /\ UNCHANGED <<accepted, status, result, lists, ended, copies>>

\* Defect: without the two "is not None" guards.
WrittenUnguarded(r, seen, row) ==
  [row EXCEPT !.title = r.title, !.is_done = r.is_done]

\* Defect: every column is written, those not asked for as the SELECT saw them.
WrittenFromSeen(r, seen, row) ==
  [row EXCEPT !.title = IF r.title = None THEN seen.title ELSE r.title,
              !.is_done = IF r.is_done = None THEN seen.is_done ELSE r.is_done]

(* update_task: the UPDATE sets the columns whose new value differs from the *)
(* one the SELECT loaded, and only those. Nothing to set: no statement. A    *)
(* row that is gone matches nothing and the ORM raises StaleDataError.       *)
Written(r, seen, row) ==
  [row EXCEPT !.title = IF r.title \in {None, seen.title} THEN @ ELSE r.title,
              !.is_done = IF r.is_done \in {None, seen.is_done} THEN @ ELSE r.is_done]

Update(d) ==
  /\ At(d, "write")
  /\ LET r == accepted[delivery[d].job]
         t == r.task_id
         seen == delivery[d].seen
     IN  /\ r.kind = "update"
         /\ \/ /\ Written(r, seen, seen) = seen
               /\ delivery' = [delivery EXCEPT ![d] =
                    [@ EXCEPT !.pc = "refresh", !.id = t, !.seen = None]]
               /\ UNCHANGED <<tasks, applied, uncertain, faults>>
            \/ /\ Written(r, seen, seen) # seen
               /\ tasks[t] = None
               /\ Leave(d, "failed")
               /\ UNCHANGED <<tasks, applied, uncertain, faults>>
            \/ /\ Written(r, seen, seen) # seen
               /\ tasks[t] # None
               /\ Commit(d, t, Written(r, seen, tasks[t]), "refresh")
  /\ UNCHANGED <<accepted, status, result, lists, creator, copies, ended>>

(* delete_task: a row that is gone by now only draws a warning, and the job  *)
(* returns True like the one that deleted it.                                *)
Delete(d) ==
  /\ At(d, "write")
  /\ LET r == accepted[delivery[d].job]
         t == r.task_id
     IN  /\ r.kind = "delete"
         /\ \/ tasks[t] = None /\ Goto(d, "store")
               /\ UNCHANGED <<tasks, applied, uncertain, faults>>
            \/ tasks[t] # None /\ Commit(d, t, None, "store")
  /\ UNCHANGED <<accepted, status, result, lists, creator, copies, ended>>

(* db.refresh(task): one more SELECT, in a transaction of its own. A row     *)
(* deleted since the commit makes it raise.                                  *)
Refresh(d) ==
  /\ At(d, "refresh")
  /\ LET t == delivery[d].id
         read == [returned |-> "task", id |-> t, row |-> tasks[t]]
     IN  \/ /\ tasks[t] # None
            /\ delivery' = [delivery EXCEPT ![d] =
                 [@ EXCEPT !.pc = "store", !.outcome = read]]
            /\ UNCHANGED uncertain
         \/ /\ tasks[t] = None
            /\ Leave(d, "failed")
            /\ Doubt(d)
  /\ UNCHANGED <<accepted, tasks, status, result, lists, creator, applied,
                 copies, ended, faults>>

(* Any statement may raise (connection lost, pool timeout): the job goes to  *)
(* its except branch. If the rollback there raises, or db.close() of a       *)
(* job about to return, whose last SELECT left a transaction open, there is  *)
(* no retry. After a commit or a rollback close() has nothing to send.       *)
DbError(d) ==
  /\ d \in Live
  /\ \/ delivery[d].pc \in {"read", "write", "refresh"} /\ Leave(d, "failed")
     \/ delivery[d].pc = "failed" /\ Leave(d, "raised")
     \/ delivery[d].pc = "store" /\ delivery[d].outcome # None /\ Leave(d, "raised")
  /\ Doubt(d)
  /\ UNCHANGED <<accepted, tasks, status, result, lists, creator, applied,
                 copies, ended, faults>>

--------------------------------------------------------------------------------
(* The job returned: SUCCESS and its value are stored.                       *)
StoreSuccess(d) ==
  /\ At(d, "store")
  /\ LET j == delivery[d].job
         answer == IF delivery[d].outcome = None THEN Plain("true")
                   ELSE delivery[d].outcome
     IN  /\ Store(j, "SUCCESS")
         /\ result' = IF status[j] = "SUCCESS" THEN result
                      ELSE [result EXCEPT ![j] = answer]
  /\ End(d, "success")
  /\ Leave(d, "ack")
  /\ UNCHANGED <<accepted, tasks, lists, history, faults>>

\* Defect: the retry is not published.
RetryUnpublished(d) ==
  /\ At(d, "failed")
  /\ delivery[d].retries < MaxRetries
  /\ Goto(d, "storeRetry")
  /\ UNCHANGED <<accepted, tasks, status, result, lists, history, ended, faults>>

\* Defect: the retry is published with the count of the run that failed.
RetryUncounted(d) ==
  /\ At(d, "failed")
  /\ delivery[d].retries < MaxRetries
  /\ ~Full
  /\ delivery' = [delivery EXCEPT
       ![d].pc = "storeRetry", ![d].retried = TRUE,
       ![NextFree] = Queued(delivery[d].job, delivery[d].retries)]
  /\ UNCHANGED <<accepted, tasks, status, result, lists, history, ended, faults>>

\* Defect: retry(throw=False), and then the job's own exception is raised.
RetryThenRaise(d) ==
  /\ At(d, "failed")
  /\ delivery[d].retries < MaxRetries
  /\ ~Full
  /\ delivery' = [delivery EXCEPT
       ![d].pc = "raised", ![d].retried = TRUE,
       ![NextFree] = Queued(delivery[d].job, delivery[d].retries + 1)]
  /\ UNCHANGED <<accepted, tasks, status, result, lists, history, ended, faults>>

(* raise self.retry(...) with retries left: a new message of the same job is *)
(* published first, then RETRY is stored, then the old message is acked.     *)
Retry(d) ==
  /\ At(d, "failed")
  /\ delivery[d].retries < MaxRetries
  /\ ~Full
  /\ delivery' = [delivery EXCEPT
       ![d].pc = "storeRetry", ![d].retried = TRUE,
       ![NextFree] = Queued(delivery[d].job, delivery[d].retries + 1)]
  /\ UNCHANGED <<accepted, tasks, status, result, lists, history, ended, faults>>

StoreRetry(d) ==
  /\ At(d, "storeRetry")
  /\ Store(delivery[d].job, "RETRY")
  /\ Leave(d, "ack")
  /\ UNCHANGED <<accepted, tasks, result, lists, history, ended, faults>>

(* retry() past max_retries raises the job's own exception: FAILURE is       *)
(* stored, then BaseTaskWithDLQ.on_failure pushes the entry and trims.       *)
StoreFailure(d) ==
  /\ At(d, "raised") \/ (At(d, "failed") /\ delivery[d].retries >= MaxRetries)
  /\ Store(delivery[d].job, "FAILURE")
  /\ Goto(d, "push")
  /\ UNCHANGED <<accepted, tasks, result, lists, history, ended, faults>>

Push(d) ==
  /\ At(d, "push")
  /\ dead_letter' = <<delivery[d].job>> \o dead_letter
  /\ pushed' = <<delivery[d].job>> \o pushed
  /\ End(d, "dead_letter")
  /\ Goto(d, "trim")
  /\ UNCHANGED <<accepted, tasks, status, result, history, faults>>

\* Defect: no ltrim.
TrimNothing(d) ==
  /\ At(d, "trim")
  /\ Leave(d, "ack")
  /\ UNCHANGED <<accepted, tasks, status, result, lists, history, ended, faults>>

\* Defect: the oldest entries are kept, not the newest.
TrimNewest(d) ==
  /\ At(d, "trim")
  /\ dead_letter' = IF Len(dead_letter) > DeadLetterCap
                    THEN SubSeq(dead_letter, Len(dead_letter) - DeadLetterCap + 1,
                                Len(dead_letter))
                    ELSE dead_letter
  /\ Leave(d, "ack")
  /\ UNCHANGED <<accepted, tasks, status, result, pushed, history, ended, faults>>

\* Defect: the end index of ltrim, which is inclusive, is one too small.
TrimShort(d) ==
  /\ At(d, "trim")
  /\ dead_letter' = IF Len(dead_letter) > DeadLetterCap - 1
                    THEN SubSeq(dead_letter, 1, DeadLetterCap - 1) ELSE dead_letter
  /\ Leave(d, "ack")
  /\ UNCHANGED <<accepted, tasks, status, result, pushed, history, ended, faults>>

Trim(d) ==
  /\ At(d, "trim")
  /\ dead_letter' = IF Len(dead_letter) > DeadLetterCap
                    THEN SubSeq(dead_letter, 1, DeadLetterCap) ELSE dead_letter
  /\ Leave(d, "ack")
  /\ UNCHANGED <<accepted, tasks, status, result, pushed, history, ended, faults>>

\* Defect: the message is not acked and comes back.
AckForgotten(d) ==
  /\ At(d, "ack")
  /\ delivery' = [delivery EXCEPT ![d] = Queued(@.job, @.retries)]
  /\ UNCHANGED <<accepted, tasks, status, result, lists, history, ended, faults>>

Ack(d) ==
  /\ At(d, "ack")
  /\ delivery' = [delivery EXCEPT ![d] = None]
  /\ UNCHANGED <<accepted, tasks, status, result, lists, history, ended, faults>>

--------------------------------------------------------------------------------
\* Defect: messages are acked when taken, so a lost worker takes its job along.
CrashAckedEarly(d) ==
  /\ d \in Running
  /\ Fault
  /\ delivery' = [delivery EXCEPT ![d] = None]
  /\ UNCHANGED <<accepted, tasks, status, result, lists, history, ended>>

(* A worker lost before its ack: the message is queued again as it was. If   *)
(* its retry has been published, both will run.                              *)
Crash(d) ==
  /\ d \in Running
  /\ Fault
  /\ delivery' = [delivery EXCEPT ![d] = Queued(@.job, @.retries)]
  /\ Doubt(d)
  /\ \/ delivery[d].retried /\ Copy(d)
     \/ ~delivery[d].retried /\ UNCHANGED copies
  /\ UNCHANGED <<accepted, tasks, status, result, lists, creator, applied, ended>>

(* A Redis call of the worker raises: Celery reports an internal error (or,  *)
(* when publishing a retry, rejects without requeueing) and the message is   *)
(* still acked. Before the outcome is on record, the job is lost. A retry    *)
(* that is queued although publishing it raised is one after Retry.          *)
RedisError(d) ==
  /\ d \in Live
  /\ delivery[d].pc \in
       {"queued", "store", "failed", "raised", "storeRetry", "push", "trim"}
  /\ Fault
  /\ Leave(d, "ack")
  /\ \/ delivery[d].pc \in {"storeRetry", "trim"} /\ UNCHANGED ended
     \/ delivery[d].pc \notin {"storeRetry", "trim"} /\ End(d, "lost")
  /\ UNCHANGED <<accepted, tasks, status, result, lists, history>>

(* result_expires: an hour after the last state was stored it is forgotten.  *)
(* A run is over in far less; a message may wait that long.                  *)
ExpireResult(j) ==
  /\ status[j] # "PENDING"
  /\ \A d \in Running : delivery[d].job # j
  /\ status' = [status EXCEPT ![j] = "PENDING"]
  /\ result' = [result EXCEPT ![j] = None]
  /\ UNCHANGED <<accepted, delivery, tasks, lists, history, ended, faults>>

(* Every job the bound allows was asked for and served: nothing is left to do. *)
Idle ==
  /\ \A j \in Jobs : accepted[j] # None
  /\ Live = {}
  /\ UNCHANGED vars

(* GET /jobs/{id}: a state missing from the map (RETRY) reads as pending.    *)
PollStatus(j) ==
  CASE status[j] = "STARTED" -> "started"
    [] status[j] = "SUCCESS" -> "success"
    [] status[j] = "FAILURE" -> "failed"
    [] OTHER -> "pending"

--------------------------------------------------------------------------------
Progress(d) ==
  \/ Start(d) \/ Select(d) \/ Insert(d) \/ Update(d) \/ Delete(d) \/ Refresh(d)
  \/ StoreSuccess(d) \/ Retry(d) \/ StoreRetry(d) \/ StoreFailure(d)
  \/ Push(d) \/ Trim(d) \/ Ack(d)

Next ==
  \/ \E j \in Jobs, r \in Requests : Accept(j, r)
  \/ \E d \in Deliveries :
       Progress(d) \/ Republish(d) \/ DbError(d) \/ Crash(d) \/ RedisError(d)
  \/ \E j \in Jobs : ExpireResult(j)
  \/ Idle

\* The workers keep running and every broker, database and Redis call returns.
Spec == Init /\ [][Next]_vars /\ \A d \in Deliveries : WF_vars(Progress(d))

--------------------------------------------------------------------------------
\* The run of message d knows its row wherever it names one.
Located(d) ==
  LET r == accepted[delivery[d].job]
  IN  /\ delivery[d].pc = "refresh" => delivery[d].id \in TaskIds
      /\ (delivery[d].pc = "write" /\ r.kind # "create") => r.task_id \in TaskIds

(* Every variable has its type; a message belongs to an accepted job, and    *)
(* its run has a row id wherever it uses one.                                *)
TypeOK ==
  /\ accepted \in [Jobs -> Requests \union {None}]
  /\ delivery \in [Deliveries -> Message \union {None}]
  /\ tasks \in [TaskIds -> Row \union {None}]
  /\ status \in [Jobs -> {"PENDING", "STARTED", "RETRY", "SUCCESS", "FAILURE"}]
  /\ result \in [Jobs -> Outcome \union {None}]
  /\ dead_letter \in Seq(Jobs) /\ pushed \in Seq(Jobs)
  /\ creator \in [TaskIds -> Jobs \union {None}]
  /\ applied \in [Jobs -> Nat]
  /\ uncertain \subseteq Jobs
  /\ copies \in [Jobs -> Nat]
  /\ ended \in [Jobs -> SUBSET {"success", "dead_letter", "lost"}]
  /\ faults \in 0..MaxFaults
  /\ \A d \in Live : accepted[delivery[d].job] # None /\ Located(d)

(* A job the API answered 202 for never vanishes: once none of its messages  *)
(* is left, it had been reported a success, is a dead letter, or a Redis     *)
(* call of the worker had failed while its outcome was being recorded. It    *)
(* rests on acks_late, on retry() publishing before the old message is       *)
(* acked, and on on_failure running before the ack.                          *)
NothingVanishes ==
  \A j \in Jobs :
    (accepted[j] # None /\ \A d \in Live : delivery[d].job # j) => ended[j] # {}

(* However often a job is retried, and however the runs of its messages      *)
(* overlap, it changes the table at most once, and once more for every copy: *)
(* a publication that was repeated, or a message that came back from a lost  *)
(* worker which had published its retry. Only a run that failed or was lost  *)
(* after its own commit leaves its retry or redelivery free to create a      *)
(* second row or to write a column again.                                    *)
AtMostOnce == \A j \in Jobs \ uncertain : applied[j] <= 1 + copies[j]

\* Whether an answer to job j is true of the table.
IsTrue(answer, j) ==
  LET r == accepted[j]
      theirs == r.task_id # None /\ tasks[r.task_id] # None
                /\ tasks[r.task_id].owner_id = r.owner_id
  IN  /\ r.kind = "create" => /\ answer.returned = "task"
                              /\ creator[answer.id] = j
                              /\ answer.row.owner_id = r.owner_id
      /\ r.kind = "update" => \/ /\ answer.returned = "task"
                                 /\ answer.id = r.task_id
                                 /\ answer.row.owner_id = r.owner_id
                              \/ answer.returned = "null" /\ ~theirs
      /\ r.kind = "delete" => answer.returned \in {"true", "false"} /\ ~theirs

(* What GET /jobs/{id} shows of a finished job is true of the table: a       *)
(* created task was inserted by this job for its user, an updated one is the *)
(* one asked for, a None means that the user has no such task, and after a   *)
(* True there is none any more, whoever deleted it. get_job asks for the     *)
(* state once for the status and once more for the result, and the worker    *)
(* can store SUCCESS in between: what it then shows next to "started" is the *)
(* result of that SUCCESS, and as true.                                      *)
SuccessIsTrue == \A j \in Jobs : status[j] = "SUCCESS" => IsTrue(result[j], j)

(* Retries and redeliveries repeat a job: a create whose refresh fails after *)
(* its commit inserts one more row each time. All of them together change    *)
(* the table at most once for every run that max_retries allows, and again   *)
(* as often for each crash or lost answer.                                   *)
AppliedBounded == \A j \in Jobs : applied[j] <= (MaxRetries + 1) * (1 + faults)

(* A retry takes over from the run it is published by, so only a fault makes *)
(* two workers run one job at the same time: of its messages that can still  *)
(* run, a job has one, and at most one more for each fault.                  *)
Unsettled(j) ==
  {d \in Live : delivery[d].job = j /\ delivery[d].pc \notin {"storeRetry", "ack"}}

OverlapsBounded == \A j \in Jobs : Cardinality(Unsettled(j)) <= 1 + faults

(* A job shown as failed has left the table as it was, but for what copies   *)
(* of its message did that ran beside the one that failed. Not so after a    *)
(* run that failed or was lost after its commit: the exhausted retries of an *)
(* update whose refresh kept failing are reported as a failure although the  *)
(* row has the new values.                                                   *)
FailedUntouched ==
  \A j \in Jobs \ uncertain : PollStatus(j) = "failed" => applied[j] <= copies[j]

(* What ARCHITECTURE.md:225 says of failed jobs, as far as it goes: one that *)
(* is shown as failed and has no message left is in the dead letter list,    *)
(* unless the list was cut to its cap since, or a Redis call of its worker   *)
(* raised where its outcome was being recorded.                              *)
Listed(j) == \E i \in 1..Len(dead_letter) : dead_letter[i] = j

FailedJobsListed ==
  \A j \in Jobs :
    (status[j] = "FAILURE" /\ \A d \in Live : delivery[d].job # j)
      => Listed(j) \/ Len(dead_letter) >= DeadLetterCap \/ "lost" \in ended[j]

(* ltrim runs after lpush in a call of its own: the list is never longer     *)
(* than its cap by more than the workers between the two calls and those     *)
(* that were lost, or got an error, there.                                   *)
DeadLetterBounded ==
  Len(dead_letter) <= DeadLetterCap + faults + Cardinality({d \in Live : At(d, "trim")})

(* Whatever workers push, trim or are lost in between: the list is the start *)
(* of all that was ever pushed, in its order, and a dead letter is missing   *)
(* from it only if DeadLetterCap newer ones are there.                       *)
NewestDeadLettersKept ==
  LET n == Len(dead_letter)
  IN  /\ n <= Len(pushed) /\ dead_letter = SubSeq(pushed, 1, n)
      /\ n < Len(pushed) => n >= DeadLetterCap

(* The columns a request asks to set, and where it asks for nothing, all the *)
(* columns stay: an update between SELECT and COMMIT of another is not       *)
(* undone, rows are created, changed and removed only by a running job of    *)
(* their owner that asks for just that, and no row changes hands.            *)
OnlyAsFor(t, old, new) ==
  \E d \in Running :
    LET r == accepted[delivery[d].job]
    IN  \/ r.kind = "create" /\ old = None /\ t \notin Minted
           /\ new = [owner_id |-> r.owner_id, title |-> r.title, is_done |-> FALSE]
        \/ r.kind = "delete" /\ r.task_id = t /\ new = None
           /\ old.owner_id = r.owner_id
        \/ /\ r.kind = "update" /\ r.task_id = t /\ old # None /\ new # None
           /\ old.owner_id = r.owner_id /\ new.owner_id = old.owner_id
           /\ new.title \in {old.title, r.title}
           /\ new.is_done \in {old.is_done, r.is_done}

RowsChangeOnlyAsAsked ==
  [][\A t \in TaskIds : tasks'[t] # tasks[t] => OnlyAsFor(t, tasks[t], tasks'[t])]_vars

(* Every accepted job is served: its last message gets acked, and by then it *)
(* succeeded, became a dead letter, or was lost to a Redis error.            *)
EveryJobEnds ==
  \A j \in Jobs :
    accepted[j] # None ~> (ended[j] # {} /\ \A d \in Live : delivery[d].job # j)

--------------------------------------------------------------------------------
(* ARCHITECTURE.md:130 says of the states a client polls: "PENDING - queued, *)
(* not yet started". Not so while a failed job waits for its retry: RETRY is *)
(* missing from _CELERY_TO_JOB_STATUS and reads as pending.                  *)
PendingMeansNotStarted ==
  \A j \in Jobs : PollStatus(j) = "pending" =>
    \A d \in Live : delivery[d].job = j =>
      delivery[d].pc = "queued" /\ delivery[d].retries = 0

(* ARCHITECTURE.md:225 says "Failed jobs after retries are preserved in      *)
(* Redis for inspection, not silently dropped". The message is acked even if *)
(* the lpush of on_failure raises.                                           *)
FailedJobsPreserved ==
  \A j \in Jobs :
    (status[j] = "FAILURE" /\ \A d \in Live : delivery[d].job # j)
      => "dead_letter" \in ended[j]

================================================================================
