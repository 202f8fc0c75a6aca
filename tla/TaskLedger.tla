------------------------------- MODULE TaskLedger -------------------------------
(***************************************************************************)
(* What the write path promises, without queue, workers, result backend or *)
(* retries: a request that was accepted changes the table in one step, as  *)
(* its user asked and nothing else, at most once unless an error or a      *)
(* crash made it doubtful whether it would, and it is settled in the end.  *)
(***************************************************************************)
CONSTANTS
  TaskIds,      \* uuids a row of the tasks table can have
  Jobs,         \* Celery job ids
  None,         \* Python's None, SQL's absent row
  InitialRows,  \* the rows there at the start, by id
  Requests      \* what clients ask for

VARIABLES
  asked,     \* the request behind each job id the API answered with
  tasks,     \* the tasks table
  minted,    \* ids that a row ever had
  done,      \* jobs that have changed the table
  doubtful,  \* jobs that an error or a crash may cause to be done again
  settled    \* how each job was ever brought to an end

vars == <<asked, tasks, minted, done, doubtful, settled>>

Init ==
  /\ asked = [j \in Jobs |-> None]
  /\ tasks = [t \in TaskIds |->
                IF t \in DOMAIN InitialRows THEN InitialRows[t] ELSE None]
  /\ minted = DOMAIN InitialRows
  /\ done = {} /\ doubtful = {}
  /\ settled = [j \in Jobs |-> {}]

Ask(j) ==
  /\ asked[j] = None
  /\ \E r \in Requests : asked' = [asked EXCEPT ![j] = r]
  /\ UNCHANGED <<tasks, minted, done, doubtful, settled>>

(* A task gets an id that no task ever had.                                  *)
Created(r, t) ==
  /\ r.kind = "create" /\ t \notin minted
  /\ tasks' = [tasks EXCEPT ![t] =
       [owner_id |-> r.owner_id, title |-> r.title, is_done |-> FALSE]]
  /\ minted' = minted \union {t}

(* Only the columns that are to be set, and of a task of the asking user.    *)
Updated(r, t) ==
  /\ r.kind = "update" /\ r.task_id = t
  /\ tasks[t] # None /\ tasks[t].owner_id = r.owner_id
  /\ \E title \in {tasks[t].title, r.title} \ {None},
        is_done \in {tasks[t].is_done, r.is_done} \ {None} :
       tasks' = [tasks EXCEPT ![t] = [@ EXCEPT !.title = title, !.is_done = is_done]]
  /\ UNCHANGED minted

Deleted(r, t) ==
  /\ r.kind = "delete" /\ r.task_id = t
  /\ tasks[t] # None /\ tasks[t].owner_id = r.owner_id
  /\ tasks' = [tasks EXCEPT ![t] = None]
  /\ UNCHANGED minted

(* The change itself. A second time only for a job that was in doubt before. *)
Apply(j) ==
  /\ asked[j] # None
  /\ j \in done => j \in doubtful
  /\ \E t \in TaskIds :
       Created(asked[j], t) \/ Updated(asked[j], t) \/ Deleted(asked[j], t)
  /\ done' = done \union {j}
  /\ doubtful' \in {doubtful, doubtful \union {j}}
  /\ UNCHANGED <<asked, settled>>

Doubt(j) ==
  /\ asked[j] # None
  /\ doubtful' = doubtful \union {j}
  /\ UNCHANGED <<asked, tasks, minted, done, settled>>

Settle(j) ==
  /\ asked[j] # None
  /\ \E how \in {"success", "dead_letter", "lost"} :
       settled' = [settled EXCEPT ![j] = @ \union {how}]
  /\ UNCHANGED <<asked, tasks, minted, done, doubtful>>

Next == \E j \in Jobs : Ask(j) \/ Apply(j) \/ Doubt(j) \/ Settle(j)

Safe == Init /\ [][Next]_vars

Spec == Safe /\ \A j \in Jobs : asked[j] # None ~> settled[j] # {}
================================================================================
