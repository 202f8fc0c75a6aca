------------------------------ MODULE JobRowProofs ------------------------------
(***************************************************************************)
(* Rows change only as their owners asked, and what a poll shows of a       *)
(* finished job is true of them: RowsChangeOnlyAsAsked and SuccessIsTrue of *)
(* JobPipeline, for every value of its constants.                           *)
(***************************************************************************)
EXTENDS JobPipelineProofs

USE DEF lists, history

(* Why a write may trust its SELECT: ids are never used again, so the row   *)
(* it named is the same user's for as long as it is there.                  *)
RowsMinted == \A t \in TaskIds : tasks[t] # None => t \in Minted

Theirs(d) ==
  LET r == accepted[delivery[d].job]
  IN  (delivery[d].pc = "write" /\ r.kind # "create") =>
        /\ r.task_id \in Minted
        /\ tasks[r.task_id] # None => tasks[r.task_id].owner_id = r.owner_id

Owned == RowsMinted /\ \A d \in Live : Theirs(d)

LEMMA InitOwned == Init => Owned
<1> SUFFICES ASSUME Init PROVE Owned
  OBVIOUS
<1>1. RowsMinted
  BY DEF Init, RowsMinted, Minted
<1>2. Live = {}
  BY DEF Init, Live
<1> QED
  BY <1>1, <1>2 DEF Owned

(* Known ids stay known, and a row with a known id never changes hands.     *)
OwnersStay ==
  \A t \in Minted :
    /\ t \in Minted'
    /\ (t \in TaskIds /\ tasks'[t] # None) =>
         tasks[t] # None /\ tasks'[t].owner_id = tasks[t].owner_id

RowsAsAsked == \A t \in TaskIds : tasks'[t] # tasks[t] => OnlyAsFor(t, tasks[t], tasks'[t])

LEMMA TableStays ==
  ASSUME RowsMinted, UNCHANGED <<tasks, creator>>
  PROVE  OwnersStay /\ RowsMinted' /\ RowsAsAsked
BY DEF RowsMinted, OwnersStay, RowsAsAsked, Minted

LEMMA InsertRows ==
  ASSUME TypeOK, RowsMinted, NEW d \in Deliveries, Insert(d)
  PROVE  OwnersStay /\ RowsMinted' /\ RowsAsAsked
<1>1. PICK n : n = FreshId
  OBVIOUS
<1>2. n \in TaskIds /\ n \notin Minted
  BY <1>1 DEF Insert, FreshId
<1>3. tasks[n] = None
  BY <1>2 DEF RowsMinted
<1> DEFINE r == accepted[delivery[d].job]
           new == [owner_id |-> r.owner_id, title |-> r.title, is_done |-> FALSE]
<1>4. /\ d \in Live /\ delivery[d].pc = "write" /\ r.kind = "create"
      /\ creator' = [creator EXCEPT ![n] = delivery[d].job]
      /\ tasks' = [tasks EXCEPT ![n] = new]
  BY <1>1 DEF Insert, At, Commit
<1>5. delivery[d].job # None /\ delivery[d].job \in Jobs
  BY <1>4, LiveTyped, NoneAssumption
<1>6. \A t \in Minted : t \in Minted' /\ t # n
  BY <1>2, <1>4, <1>5 DEF TypeOK, Minted
<1>7. n \in Minted'
  BY <1>2, <1>4, <1>5 DEF TypeOK, Minted
<1> HIDE DEF new
<1>8. tasks'[n] = new /\ \A t \in TaskIds \ {n} : tasks'[t] = tasks[t]
  BY <1>2, <1>4 DEF TypeOK
<1>9. OwnersStay
  BY <1>6, <1>8 DEF OwnersStay
<1>10. RowsMinted'
  BY <1>6, <1>7, <1>8 DEF RowsMinted
<1>11. d \in Running
  BY <1>4 DEF Running
<1>12. OnlyAsFor(n, tasks[n], new)
  BY <1>2, <1>3, <1>4, <1>11 DEF OnlyAsFor, new
<1> QED
  BY <1>8, <1>9, <1>10, <1>12 DEF RowsAsAsked

LEMMA UpdateRows ==
  ASSUME TypeOK, Owned, NEW d \in Deliveries, Update(d)
  PROVE  OwnersStay /\ RowsMinted' /\ RowsAsAsked
<1> DEFINE r == accepted[delivery[d].job]
           t == r.task_id
           seen == delivery[d].seen
           new == Written(r, seen, tasks[t])
<1>1. d \in Live /\ d \in Running /\ delivery[d].pc = "write" /\ r.kind = "update"
  BY DEF Update, At, Running
<1>2. t \in TaskIds /\ t \in Minted
      /\ (tasks[t] # None => tasks[t].owner_id = r.owner_id)
  BY <1>1 DEF TypeOK, Located, Owned, Theirs
<1>3. UNCHANGED creator
  BY DEF Update
<1>4. CASE UNCHANGED tasks
  BY <1>3, <1>4, TableStays DEF Owned
<1>5. CASE tasks[t] # None /\ Commit(d, t, new, "refresh")
  <2>1. tasks[t] \in Row
    BY <1>2, <1>5 DEF TypeOK
  <2>2. /\ new # None => TRUE
        /\ new.owner_id = tasks[t].owner_id
        /\ new.title \in {tasks[t].title, r.title}
        /\ new.is_done \in {tasks[t].is_done, r.is_done}
    BY <2>1 DEF Written, Row
  <2>3. new \in Row
    BY <1>1, <2>1, WrittenTyped, LiveTyped
  <2>4. new # None
    BY <2>3, NoneAssumption
  <2> HIDE DEF new
  <2>5. tasks'[t] = new /\ \A u \in TaskIds \ {t} : tasks'[u] = tasks[u]
    BY <1>2, <1>5 DEF TypeOK, Commit
  <2>6. Minted' = Minted
    BY <1>3 DEF Minted
  <2>7. OwnersStay
    BY <1>5, <2>2, <2>5, <2>6 DEF OwnersStay
  <2>8. RowsMinted'
    BY <1>2, <2>5, <2>6 DEF Owned, RowsMinted
  <2>9. OnlyAsFor(t, tasks[t], new)
    BY <1>1, <1>2, <1>5, <2>2, <2>4 DEF OnlyAsFor
  <2> QED
    BY <2>5, <2>7, <2>8, <2>9 DEF RowsAsAsked
<1> QED
  BY <1>4, <1>5 DEF Update

LEMMA DeleteRows ==
  ASSUME TypeOK, Owned, NEW d \in Deliveries, Delete(d)
  PROVE  OwnersStay /\ RowsMinted' /\ RowsAsAsked
<1> DEFINE r == accepted[delivery[d].job]
           t == r.task_id
<1>1. d \in Live /\ d \in Running /\ delivery[d].pc = "write" /\ r.kind = "delete"
  BY DEF Delete, At, Running
<1>2. t \in TaskIds /\ t \in Minted
      /\ (tasks[t] # None => tasks[t].owner_id = r.owner_id)
  BY <1>1 DEF TypeOK, Located, Owned, Theirs
<1>3. UNCHANGED creator
  BY DEF Delete
<1>4. CASE UNCHANGED tasks
  BY <1>3, <1>4, TableStays DEF Owned
<1>5. CASE tasks[t] # None /\ Commit(d, t, None, "store")
  <2>1. tasks'[t] = None /\ \A u \in TaskIds \ {t} : tasks'[u] = tasks[u]
    BY <1>2, <1>5 DEF TypeOK, Commit
  <2>2. Minted' = Minted
    BY <1>3 DEF Minted
  <2>3. OwnersStay
    BY <2>1, <2>2 DEF OwnersStay
  <2>4. RowsMinted'
    BY <2>1, <2>2 DEF Owned, RowsMinted
  <2>5. OnlyAsFor(t, tasks[t], None)
    BY <1>1, <1>2, <1>5 DEF OnlyAsFor
  <2> QED
    BY <2>1, <2>3, <2>4, <2>5 DEF RowsAsAsked
<1> QED
  BY <1>4, <1>5 DEF Delete

--------------------------------------------------------------------------------
(* Every step of the system treats the table like this.                     *)
LEMMA NextRows ==
  ASSUME TypeOK, Owned, [Next]_vars
  PROVE  OwnersStay /\ RowsMinted' /\ RowsAsAsked
<1>1. ASSUME NEW d \in Deliveries, Progress(d)
      PROVE  OwnersStay /\ RowsMinted' /\ RowsAsAsked
  <2>1. CASE \/ Start(d) \/ Select(d) \/ Refresh(d) \/ StoreSuccess(d) \/ Retry(d)
             \/ StoreRetry(d) \/ StoreFailure(d) \/ Push(d) \/ Trim(d) \/ Ack(d)
    <3>1. UNCHANGED <<tasks, creator>>
      BY <2>1 DEF Start, Select, Refresh, StoreSuccess, Retry, StoreRetry,
                  StoreFailure, Push, Trim, Ack
    <3> QED
      BY <3>1, TableStays DEF Owned
  <2>2. CASE Insert(d) \/ Update(d) \/ Delete(d)
    BY <2>2, InsertRows, UpdateRows, DeleteRows DEF Owned
  <2> QED
    BY <1>1, <2>1, <2>2 DEF Progress
<1>2. CASE \/ \E j \in Jobs, r \in Requests : Accept(j, r)
           \/ \E d \in Deliveries :
                Republish(d) \/ DbError(d) \/ Crash(d) \/ RedisError(d)
           \/ \E j \in Jobs : ExpireResult(j)
           \/ Idle \/ UNCHANGED vars
  <2>1. UNCHANGED <<tasks, creator>>
    BY <1>2 DEF Accept, Republish, DbError, Crash, RedisError, ExpireResult, Idle, vars
  <2> QED
    BY <2>1, TableStays DEF Owned
<1> QED
  BY <1>1, <1>2 DEF Next

(* After a step that leaves the other messages alone, a message that is not *)
(* about to write a row it selected has nothing to lose ...                 *)
LEMMA TheirsStays ==
  ASSUME TypeOK, OwnersStay, NEW d \in Live, Theirs(d), delivery'[d] = delivery[d],
         accepted'[delivery[d].job] = accepted[delivery[d].job]
  PROVE  Theirs(d)'
<1> DEFINE r == accepted[delivery[d].job]
<1>1. SUFFICES ASSUME delivery[d].pc = "write", r.kind # "create"
               PROVE  /\ r.task_id \in Minted'
                      /\ tasks'[r.task_id] # None => tasks'[r.task_id].owner_id = r.owner_id
  BY DEF Theirs
<1>2. r.task_id \in TaskIds /\ r.task_id \in Minted
  BY <1>1 DEF TypeOK, Located, Theirs
<1> QED
  BY <1>1, <1>2 DEF OwnersStay, Theirs

(* ... and one that moved can only be at "write" with what Select found.    *)
LEMMA MovedTheirs ==
  ASSUME TypeOK, Owned, OwnersStay, NEW d \in Live, NEW label, Moved(d, label),
         UNCHANGED accepted,
         label = "write" => Theirs(d)'
  PROVE  \A e \in Live' : Theirs(e)'
<1>1. Live' = Live
  BY DEF TypeOK, Live, Moved
<1>2. Theirs(d)'
  BY DEF Moved, Theirs
<1>3. ASSUME NEW e \in Live, e # d PROVE Theirs(e)'
  <2>1. delivery'[e] = delivery[e]
    BY <1>3 DEF Moved, Live
  <2> QED
    BY <2>1, TheirsStays DEF Owned
<1> QED
  BY <1>1, <1>2, <1>3

LEMMA StartTheirs ==
  ASSUME TypeOK, Owned, OwnersStay, NEW d \in Deliveries, Start(d)
  PROVE  \A e \in Live' : Theirs(e)'
<1>1. d \in Live /\ UNCHANGED accepted
  BY DEF Start, At
<1>2. PICK label : Moved(d, label)
  BY StartTyped
<1>3. accepted[delivery[d].job].kind = "create" \/ Moved(d, "read")
  <2> SUFFICES ASSUME accepted[delivery[d].job].kind # "create" PROVE Moved(d, "read")
    OBVIOUS
  <2> QED
    BY <1>1, GotoMoves DEF Start
<1>4. Theirs(d)'
  BY <1>1, <1>2, <1>3 DEF Moved, Theirs
<1> QED
  BY <1>1, <1>2, <1>4, MovedTheirs

LEMMA SelectTheirs ==
  ASSUME TypeOK, Owned, OwnersStay, NEW d \in Deliveries, Select(d)
  PROVE  \A e \in Live' : Theirs(e)'
<1> DEFINE r == accepted[delivery[d].job]
<1>1. d \in Live /\ UNCHANGED <<accepted, tasks, creator>>
  BY DEF Select, At
<1>2. PICK label : Moved(d, label)
  BY SelectTyped
<1>3. CASE Found(r)
  <2>1. r.task_id \in TaskIds /\ tasks[r.task_id] # None /\ tasks[r.task_id].owner_id = r.owner_id
    BY <1>1, <1>3, LiveTyped DEF Found, Request
  <2>2. r.task_id \in Minted'
    BY <1>1, <2>1 DEF Owned, RowsMinted, Minted
  <2>3. Theirs(d)'
    BY <1>1, <1>2, <2>1, <2>2 DEF Moved, Theirs
  <2> QED
    BY <1>1, <1>2, <2>3, MovedTheirs
<1>4. CASE ~Found(r)
  <2>1. delivery'[d].pc = "store"
    BY <1>1, <1>4 DEF TypeOK, Live, Select
  <2>2. Theirs(d)'
    BY <2>1 DEF Theirs
  <2> QED
    BY <1>1, <1>2, <2>2, MovedTheirs
<1> QED
  BY <1>3, <1>4

LEMMA RunTheirs ==
  ASSUME TypeOK, Owned, OwnersStay, NEW d \in Deliveries,
         \/ Insert(d) \/ Update(d) \/ Delete(d) \/ Refresh(d) \/ StoreSuccess(d)
         \/ StoreRetry(d) \/ StoreFailure(d) \/ Push(d) \/ Trim(d)
         \/ DbError(d) \/ Crash(d) \/ RedisError(d)
  PROVE  \A e \in Live' : Theirs(e)'
<1>1. d \in Live /\ UNCHANGED accepted
  BY DEF Insert, Update, Delete, Refresh, StoreSuccess, StoreRetry, StoreFailure,
         Push, Trim, DbError, Crash, RedisError, At, Running
<1>2. \E label \in {"refresh", "store", "failed", "raised", "ack", "push", "trim", "queued"} :
        Moved(d, label)
  BY InsertTyped, UpdateTyped, DeleteTyped, RefreshTyped, StoreSuccessTyped,
     StoreRetryTyped, StoreFailureTyped, PushTyped, TrimTyped, DbErrorTyped,
     CrashTyped, RedisErrorTyped
<1> QED
  BY <1>1, <1>2, MovedTheirs

(* A message published by the API or for a retry is queued, far from a write. *)
LEMMA AcceptTheirs ==
  ASSUME TypeOK, Owned, OwnersStay, NEW j \in Jobs, NEW r \in Requests, Accept(j, r)
  PROVE  \A e \in Live' : Theirs(e)'
<1>1. PICK n : n = NextFree
  OBVIOUS
<1>2. delivery' = [delivery EXCEPT ![n] = Queued(j, 0)]
  BY <1>1 DEF Accept
<1> SUFFICES ASSUME NEW e \in Live' PROVE Theirs(e)'
  OBVIOUS
<1>3. CASE e = n
  BY <1>2, <1>3 DEF TypeOK, Live, Theirs, Queued
<1>4. CASE e # n
  <2>1. e \in Live /\ delivery'[e] = delivery[e]
    BY <1>2, <1>4 DEF TypeOK, Live
  <2>2. accepted'[delivery[e].job] = accepted[delivery[e].job]
    BY <2>1, LiveTyped DEF TypeOK, Accept
  <2> QED
    BY <2>1, <2>2, TheirsStays DEF Owned
<1> QED
  BY <1>3, <1>4

LEMMA RetryTheirs ==
  ASSUME TypeOK, Owned, OwnersStay, NEW d \in Deliveries, Retry(d)
  PROVE  \A e \in Live' : Theirs(e)'
<1>1. PICK n : n = NextFree
  OBVIOUS
<1>2. /\ d \in Live /\ UNCHANGED accepted
      /\ delivery' = [delivery EXCEPT ![d].pc = "storeRetry", ![d].retried = TRUE,
                         ![n] = Queued(delivery[d].job, delivery[d].retries + 1)]
  BY <1>1 DEF Retry, At
<1> SUFFICES ASSUME NEW e \in Live' PROVE Theirs(e)'
  OBVIOUS
<1>3. CASE e \in {d, n}
  <2>1. delivery'[e].pc # "write"
    BY <1>2, <1>3, LiveTyped DEF TypeOK, Live, Queued, Message
  <2> QED
    BY <2>1 DEF Theirs
<1>4. CASE e \notin {d, n}
  <2>1. e \in Live /\ delivery'[e] = delivery[e]
    BY <1>2, <1>4 DEF TypeOK, Live
  <2> QED
    BY <1>2, <2>1, TheirsStays DEF Owned
<1> QED
  BY <1>3, <1>4

LEMMA RepublishTheirs ==
  ASSUME TypeOK, Owned, OwnersStay, NEW d \in Deliveries, Republish(d)
  PROVE  \A e \in Live' : Theirs(e)'
<1>1. PICK n : n = NextFree
  OBVIOUS
<1>2. /\ UNCHANGED accepted
      /\ delivery' = [delivery EXCEPT ![n] = Queued(delivery[d].job, delivery[d].retries)]
  BY <1>1 DEF Republish
<1> SUFFICES ASSUME NEW e \in Live' PROVE Theirs(e)'
  OBVIOUS
<1>3. CASE e = n
  BY <1>2, <1>3 DEF TypeOK, Live, Theirs, Queued
<1>4. CASE e # n
  <2>1. e \in Live /\ delivery'[e] = delivery[e]
    BY <1>2, <1>4 DEF TypeOK, Live
  <2> QED
    BY <1>2, <2>1, TheirsStays DEF Owned
<1> QED
  BY <1>3, <1>4

LEMMA AckTheirs ==
  ASSUME TypeOK, Owned, OwnersStay, NEW d \in Deliveries, Ack(d)
  PROVE  \A e \in Live' : Theirs(e)'
<1>1. ASSUME NEW e \in Live' PROVE e \in Live /\ delivery'[e] = delivery[e]
  BY <1>1 DEF TypeOK, Ack, Live
<1> QED
  BY <1>1, TheirsStays DEF Owned, Ack

LEMMA StillTheirs ==
  ASSUME TypeOK, Owned, OwnersStay, UNCHANGED <<accepted, delivery>>
  PROVE  \A e \in Live' : Theirs(e)'
BY TheirsStays DEF Owned, Live

LEMMA NextOwned == TypeOK /\ Owned /\ [Next]_vars => Owned'
<1> SUFFICES ASSUME TypeOK, Owned, [Next]_vars PROVE Owned'
  OBVIOUS
<1>1. OwnersStay /\ RowsMinted'
  BY NextRows
<1>2. ASSUME NEW j \in Jobs, NEW r \in Requests, Accept(j, r)
      PROVE  \A e \in Live' : Theirs(e)'
  BY <1>1, <1>2, AcceptTheirs
<1>3. ASSUME NEW d \in Deliveries, Progress(d) PROVE \A e \in Live' : Theirs(e)'
  BY <1>1, <1>3, StartTheirs, SelectTheirs, RunTheirs, RetryTheirs, AckTheirs DEF Progress
<1>4. ASSUME NEW d \in Deliveries,
             Republish(d) \/ DbError(d) \/ Crash(d) \/ RedisError(d)
      PROVE  \A e \in Live' : Theirs(e)'
  BY <1>1, <1>4, RunTheirs, RepublishTheirs
<1>5. CASE (\E j \in Jobs : ExpireResult(j)) \/ Idle \/ UNCHANGED vars
  <2>1. UNCHANGED <<accepted, delivery>>
    BY <1>5 DEF ExpireResult, Idle, vars
  <2> QED
    BY <1>1, <2>1, StillTheirs DEF Owned
<1> QED
  BY <1>1, <1>2, <1>3, <1>4, <1>5 DEF Next, Owned

(* A row is created, changed or removed only by a running job of its owner  *)
(* that asks for just that, column by column, and no row changes hands: the *)
(* check of the owner that update_task and delete_task make in their SELECT *)
(* still holds when they commit.                                            *)
THEOREM RowsChange == Spec => RowsChangeOnlyAsAsked
<1>1. TypeOK /\ Owned /\ [Next]_vars => TypeOK' /\ Owned'
  BY NextTypeOK, NextOwned
<1>2. Init => TypeOK /\ Owned
  BY InitTypeOK, InitOwned
<1>3. TypeOK /\ Owned /\ [Next]_vars
        => [\A t \in TaskIds :
              tasks'[t] # tasks[t] => OnlyAsFor(t, tasks[t], tasks'[t])]_vars
  BY NextRows DEF RowsAsAsked
<1> QED
  BY <1>1, <1>2, <1>3, PTL DEF Spec, RowsChangeOnlyAsAsked

--------------------------------------------------------------------------------
(* What a poll shows of a finished job is true: SuccessIsTrue.               *)

(* Clients only name ids they have seen, which are therefore never minted   *)
(* again for somebody else.                                                 *)
AskedMinted ==
  \A j \in Jobs : accepted[j] # None => accepted[j].task_id \in Minted \union {None}

(* The row a run has written is its own, or still its user's.               *)
Wrote(d, r) ==
  /\ r.kind # "delete"
  /\ r.kind = "create" => creator[delivery[d].id] = delivery[d].job
  /\ r.kind = "update" => delivery[d].id = r.task_id
  /\ tasks[delivery[d].id] # None => tasks[delivery[d].id].owner_id = r.owner_id

Answer(d) == IF delivery[d].outcome = None THEN Plain("true") ELSE delivery[d].outcome

\* A true answer that names the row by an id there can be.
Sound(answer, j) ==
  IsTrue(answer, j) /\ (accepted[j].kind = "create" => answer.id \in TaskIds)

(* Where a run stands on its way to its answer.                             *)
OnTrack(d) ==
  /\ delivery[d].pc \in {"queued", "read", "write"} => delivery[d].outcome = None
  /\ delivery[d].pc = "read" => accepted[delivery[d].job].kind # "create"
  /\ delivery[d].pc = "refresh" => Wrote(d, accepted[delivery[d].job])
  /\ delivery[d].pc = "store" => Sound(Answer(d), delivery[d].job)

Shown(j) == accepted[j] # None /\ Sound(result[j], j)
Results == \A j \in Jobs : status[j] = "SUCCESS" => Shown(j)

Truthful == AskedMinted /\ Results /\ \A d \in Live : OnTrack(d)

LEMMA InitTruthful == Init => Truthful
BY DEF Init, Truthful, AskedMinted, Results, Live

(* What earlier steps made true of rows stays true.                         *)
CreatorsStay == \A t \in TaskIds : creator[t] # None => creator'[t] = creator[t]

LEMMA NextCreators ==
  ASSUME TypeOK, [Next]_vars
  PROVE  CreatorsStay
<1>1. ASSUME NEW d \in Deliveries, Insert(d) PROVE CreatorsStay
  <2>1. PICK n : n = FreshId
    OBVIOUS
  <2>2. n \in TaskIds /\ n \notin Minted
    BY <1>1, <2>1 DEF Insert, FreshId
  <2>3. creator' = [creator EXCEPT ![n] = delivery[d].job]
    BY <1>1, <2>1 DEF Insert
  <2> QED
    BY <2>2, <2>3 DEF TypeOK, CreatorsStay, Minted
<1>2. CASE UNCHANGED creator
  BY <1>2 DEF CreatorsStay
<1>3. ASSUME NEW d \in Deliveries, Progress(d) PROVE CreatorsStay
  BY <1>1, <1>2, <1>3 DEF Progress, Start, Select, Update, Delete, Refresh,
     StoreSuccess, Retry, StoreRetry, StoreFailure, Push, Trim, Ack
<1>4. ASSUME ~ \E d \in Deliveries : Progress(d) PROVE UNCHANGED creator
  BY <1>4 DEF Next, Accept, Republish, DbError, Crash, RedisError, ExpireResult, Idle, vars
<1> QED
  BY <1>2, <1>3, <1>4

Stays == OwnersStay /\ CreatorsStay

LEMMA SoundStays ==
  ASSUME TypeOK, AskedMinted, Stays, NEW j \in Jobs, accepted[j] # None,
         accepted'[j] = accepted[j], NEW answer, Sound(answer, j)
  PROVE  Sound(answer, j)'
<1> DEFINE r == accepted[j]
<1>1. r \in Request
  BY RequestsAssumption DEF TypeOK
<1>2. CASE r.kind = "create"
  <2>1. answer.id \in TaskIds /\ creator[answer.id] = j /\ j # None
    BY <1>2, NoneAssumption DEF Sound, IsTrue
  <2>2. creator'[answer.id] = j
    BY <2>1 DEF Stays, CreatorsStay
  <2> QED
    BY <1>2, <2>1, <2>2 DEF Sound, IsTrue
<1>3. CASE r.kind # "create"
  <2> DEFINE theirs == r.task_id # None /\ tasks[r.task_id] # None
                       /\ tasks[r.task_id].owner_id = r.owner_id
  <2>1. ASSUME r.task_id # None, tasks'[r.task_id] # None,
               tasks'[r.task_id].owner_id = r.owner_id
        PROVE  theirs
    <3>1. r.task_id \in TaskIds /\ r.task_id \in Minted
      BY <1>1, <2>1 DEF AskedMinted, Request
    <3> QED
      BY <2>1, <3>1 DEF Stays, OwnersStay
  <2> QED
    BY <1>3, <2>1 DEF Sound, IsTrue
<1> QED
  BY <1>2, <1>3

LEMMA OnTrackStays ==
  ASSUME TypeOK, AskedMinted, Stays, NEW d \in Live, OnTrack(d),
         delivery'[d] = delivery[d],
         accepted'[delivery[d].job] = accepted[delivery[d].job]
  PROVE  OnTrack(d)'
<1>1. PICK j, t, m : j = delivery[d].job /\ t = delivery[d].id /\ m = Answer(d)
  OBVIOUS
<1>2. j \in Jobs /\ accepted[j] # None /\ accepted[j] \in Request
  BY <1>1, LiveTyped DEF TypeOK
<1>3. CASE delivery[d].pc = "refresh"
  <2>1. t \in TaskIds /\ Wrote(d, accepted[j])
    BY <1>1, <1>3 DEF OnTrack, TypeOK, Located
  <2>2. t \in Minted
    BY <1>1, <1>2, <2>1, NoneAssumption DEF Wrote, Minted, AskedMinted, Request
  <2>3. tasks'[t] # None => tasks'[t].owner_id = accepted[j].owner_id
    BY <1>1, <2>1, <2>2 DEF Stays, OwnersStay, Wrote
  <2>4. accepted[j].kind = "create" => creator'[t] = j
    BY <1>1, <1>2, <2>1, NoneAssumption DEF Stays, CreatorsStay, Wrote
  <2>5. Wrote(d, accepted[j])'
    BY <1>1, <2>1, <2>3, <2>4 DEF Wrote
  <2> QED
    BY <1>1, <1>3, <2>5 DEF OnTrack
<1>4. CASE delivery[d].pc = "store"
  <2>1. Sound(m, j)
    BY <1>1, <1>4 DEF OnTrack
  <2>2. Sound(m, j)'
    BY <1>1, <1>2, <2>1, SoundStays
  <2>3. Answer(d)' = m
    BY <1>1 DEF Answer
  <2> QED
    BY <1>1, <1>4, <2>2, <2>3 DEF OnTrack
<1>5. CASE delivery[d].pc \notin {"refresh", "store"}
  BY <1>5 DEF OnTrack
<1> QED
  BY <1>3, <1>4, <1>5

LEMMA MovedTrack ==
  ASSUME TypeOK, Truthful, Stays, NEW d \in Live, NEW label, Moved(d, label),
         UNCHANGED accepted,
         label \in {"queued", "read", "write", "refresh", "store"} => OnTrack(d)'
  PROVE  \A e \in Live' : OnTrack(e)'
<1>1. Live' = Live
  BY DEF TypeOK, Live, Moved
<1>2. OnTrack(d)'
  BY DEF Moved, OnTrack
<1>3. ASSUME NEW e \in Live, e # d PROVE OnTrack(e)'
  <2>1. delivery'[e] = delivery[e]
    BY <1>3 DEF Moved, Live
  <2> QED
    BY <2>1, OnTrackStays DEF Truthful
<1> QED
  BY <1>1, <1>2, <1>3

LEMMA StartTrack ==
  ASSUME TypeOK, Truthful, Stays, NEW d \in Deliveries, Start(d)
  PROVE  \A e \in Live' : OnTrack(e)'
<1> DEFINE r == accepted[delivery[d].job]
           label == IF r.kind = "create" THEN "write" ELSE "read"
<1>1. d \in Live /\ delivery[d].pc = "queued" /\ UNCHANGED accepted
  BY DEF Start, At
<1>2. Goto(d, label)
  BY DEF Start
<1>3. label \in {"read", "write"} /\ Moved(d, label)
  BY <1>1, <1>2, GotoMoves
<1>4. delivery'[d].outcome = None /\ delivery'[d].job = delivery[d].job
      /\ delivery'[d].pc = label
  BY <1>1, <1>2, LiveTyped DEF TypeOK, Live, Goto, Message, Truthful, OnTrack
<1>5. OnTrack(d)'
  BY <1>1, <1>4 DEF OnTrack
<1> HIDE DEF label
<1> QED
  BY <1>1, <1>3, <1>5, MovedTrack

LEMMA SelectTrack ==
  ASSUME TypeOK, Truthful, Stays, NEW d \in Deliveries, Select(d)
  PROVE  \A e \in Live' : OnTrack(e)'
<1>1. PICK j, r : j = delivery[d].job /\ r = accepted[j]
  OBVIOUS
<1>2. /\ d \in Live /\ delivery[d].pc = "read" /\ UNCHANGED <<accepted, tasks>>
      /\ r.kind \in {"update", "delete"}
  BY <1>1, LiveTyped DEF Select, At, Truthful, OnTrack, Request
<1>3. CASE Found(r)
  <2>1. delivery' = [delivery EXCEPT ![d] = [@ EXCEPT !.pc = "write", !.seen = tasks[r.task_id]]]
    BY <1>1, <1>3 DEF Select
  <2>2. delivery'[d].pc = "write" /\ delivery'[d].outcome = None
    BY <1>2, <2>1, LiveTyped DEF TypeOK, Live, Message, Truthful, OnTrack
  <2>3. OnTrack(d)'
    BY <2>2 DEF OnTrack
  <2> QED
    BY <1>2, <2>3, SelectTyped, MovedTrack
<1>4. CASE ~Found(r)
  <2>1. PICK answer : answer = Plain(IF r.kind = "update" THEN "null" ELSE "false")
    OBVIOUS
  <2>2. delivery' = [delivery EXCEPT ![d] = [@ EXCEPT !.pc = "store", !.outcome = answer]]
    BY <1>1, <1>4, <2>1 DEF Select
  <2>3. /\ delivery'[d].pc = "store" /\ delivery'[d].outcome = answer
        /\ delivery'[d].job = j
    BY <1>1, <1>2, <2>2, LiveTyped DEF TypeOK, Live, Message
  <2>4. answer # None
    BY <2>1, PlainTyped, NoneAssumption
  <2>5. Answer(d)' = answer
    BY <2>3, <2>4 DEF Answer
  <2>6. Sound(answer, j)'
    BY <1>1, <1>2, <1>4, <2>1 DEF Sound, IsTrue, Found, Plain
  <2>7. OnTrack(d)'
    BY <2>3, <2>5, <2>6 DEF OnTrack
  <2> QED
    BY <1>2, <2>7, SelectTyped, MovedTrack
<1> QED
  BY <1>3, <1>4

LEMMA InsertTrack ==
  ASSUME TypeOK, Truthful, Stays, NEW d \in Deliveries, Insert(d)
  PROVE  \A e \in Live' : OnTrack(e)'
<1>1. PICK n, r : n = FreshId /\ r = accepted[delivery[d].job]
  OBVIOUS
<1>2. PICK new : new = [owner_id |-> r.owner_id, title |-> r.title, is_done |-> FALSE]
  OBVIOUS
<1>3. /\ d \in Live /\ UNCHANGED accepted /\ n \in TaskIds /\ r.kind = "create"
      /\ creator' = [creator EXCEPT ![n] = delivery[d].job]
      /\ Commit(d, n, new, "refresh")
  BY <1>1, <1>2 DEF Insert, At, FreshId
<1>4. CASE delivery' = [delivery EXCEPT ![d] =
             [@ EXCEPT !.pc = "refresh", !.id = n, !.seen = None, !.committed = TRUE]]
  <2>1. /\ delivery'[d].pc = "refresh" /\ delivery'[d].id = n
        /\ delivery'[d].job = delivery[d].job
    BY <1>3, <1>4, LiveTyped DEF TypeOK, Live, Message
  <2>2. creator'[n] = delivery[d].job /\ tasks'[n] = new
    BY <1>3 DEF TypeOK, Commit
  <2>3. Wrote(d, r)'
    BY <1>2, <1>3, <2>1, <2>2 DEF Wrote
  <2>4. OnTrack(d)'
    BY <1>1, <1>3, <2>1, <2>3 DEF OnTrack
  <2> QED
    BY <1>3, <2>4, InsertTyped, MovedTrack
<1>5. CASE delivery' = [delivery EXCEPT ![d] =
             [@ EXCEPT !.pc = "failed", !.id = None, !.seen = None, !.committed = TRUE]]
  <2>1. delivery'[d].pc = "failed"
    BY <1>3, <1>5, LiveTyped DEF TypeOK, Live, Message
  <2>2. Moved(d, "failed")
    BY <2>1, InsertTyped DEF Moved
  <2> QED
    BY <1>3, <2>2, MovedTrack
<1> QED
  BY <1>3, <1>4, <1>5 DEF Commit

LEMMA UpdateTrack ==
  ASSUME TypeOK, Truthful, Stays, Owned, NEW d \in Deliveries, Update(d)
  PROVE  \A e \in Live' : OnTrack(e)'
<1>1. PICK r, t, seen : /\ r = accepted[delivery[d].job] /\ t = r.task_id
                        /\ seen = delivery[d].seen
  OBVIOUS
<1>2. /\ d \in Live /\ delivery[d].pc = "write" /\ r.kind = "update"
      /\ UNCHANGED accepted
  BY <1>1 DEF Update, At
<1>3. /\ t \in TaskIds /\ t \in Minted
      /\ tasks[t] # None => tasks[t].owner_id = r.owner_id
  BY <1>1, <1>2 DEF TypeOK, Located, Owned, Theirs
<1>4. tasks'[t] # None => tasks'[t].owner_id = r.owner_id
  BY <1>3 DEF Stays, OwnersStay
<1>5. CASE Leave(d, "failed")
  BY <1>2, <1>5, LeaveMoves, MovedTrack
<1>6. ASSUME delivery'[d].pc = "refresh", delivery'[d].id = t
      PROVE  \A e \in Live' : OnTrack(e)'
  <2>1. Moved(d, "refresh")
    BY <1>6, UpdateTyped DEF Moved
  <2>2. delivery'[d].job = delivery[d].job
    BY <1>2, <2>1 DEF Moved
  <2>3. Wrote(d, r)'
    BY <1>1, <1>2, <1>4, <1>6 DEF Wrote
  <2>4. OnTrack(d)'
    BY <1>1, <1>2, <1>6, <2>2, <2>3 DEF OnTrack
  <2> QED
    BY <1>2, <2>1, <2>4, MovedTrack
<1>7. CASE delivery' = [delivery EXCEPT ![d] =
             [@ EXCEPT !.pc = "refresh", !.id = t, !.seen = None]]
  <2>1. delivery'[d].pc = "refresh" /\ delivery'[d].id = t
    BY <1>2, <1>7, LiveTyped DEF TypeOK, Live, Message
  <2> QED
    BY <1>6, <2>1
<1>8. CASE delivery' = [delivery EXCEPT ![d] =
             [@ EXCEPT !.pc = "refresh", !.id = t, !.seen = None, !.committed = TRUE]]
  <2>1. delivery'[d].pc = "refresh" /\ delivery'[d].id = t
    BY <1>2, <1>8, LiveTyped DEF TypeOK, Live, Message
  <2> QED
    BY <1>6, <2>1
<1>9. CASE delivery' = [delivery EXCEPT ![d] =
             [@ EXCEPT !.pc = "failed", !.id = None, !.seen = None, !.committed = TRUE]]
  <2>1. delivery'[d].pc = "failed"
    BY <1>2, <1>9, LiveTyped DEF TypeOK, Live, Message
  <2>2. Moved(d, "failed")
    BY <2>1, UpdateTyped DEF Moved
  <2> QED
    BY <1>2, <2>2, MovedTrack
<1> QED
  BY <1>1, <1>5, <1>7, <1>8, <1>9 DEF Update, Commit

(* After a delete, by this job or by another before it, there is no row.    *)
LEMMA DeleteTrack ==
  ASSUME TypeOK, Truthful, Stays, NEW d \in Deliveries, Delete(d)
  PROVE  \A e \in Live' : OnTrack(e)'
<1>1. PICK j, r, t : j = delivery[d].job /\ r = accepted[j] /\ t = r.task_id
  OBVIOUS
<1>2. /\ d \in Live /\ delivery[d].pc = "write" /\ r.kind = "delete"
      /\ UNCHANGED accepted /\ t \in TaskIds
  BY <1>1 DEF Delete, At, TypeOK, Located
<1>3. CASE delivery' = [delivery EXCEPT ![d] =
             [@ EXCEPT !.pc = "failed", !.id = None, !.seen = None, !.committed = TRUE]]
  <2>1. delivery'[d].pc = "failed"
    BY <1>2, <1>3, LiveTyped DEF TypeOK, Live, Message
  <2>2. Moved(d, "failed")
    BY <2>1, DeleteTyped DEF Moved
  <2> QED
    BY <1>2, <2>2, MovedTrack
<1>4. ASSUME delivery'[d].pc = "store", delivery'[d].outcome = delivery[d].outcome,
             tasks'[t] = None
      PROVE  \A e \in Live' : OnTrack(e)'
  <2>1. Moved(d, "store")
    BY <1>4, DeleteTyped DEF Moved
  <2>2. delivery'[d].job = j
    BY <1>1, <1>2, <2>1 DEF Moved
  <2>3. delivery[d].outcome = None
    BY <1>2 DEF Truthful, OnTrack
  <2>4. PICK answer : answer = Plain("true")
    OBVIOUS
  <2>5. Answer(d)' = answer
    BY <1>4, <2>3, <2>4 DEF Answer, Plain
  <2>6. Sound(answer, j)'
    BY <1>1, <1>2, <1>4, <2>4 DEF Sound, IsTrue, Plain
  <2>7. OnTrack(d)'
    BY <1>4, <2>2, <2>5, <2>6 DEF OnTrack
  <2> QED
    BY <1>2, <2>1, <2>7, MovedTrack
<1>5. CASE tasks[t] = None /\ Goto(d, "store") /\ UNCHANGED tasks
  <2>1. delivery'[d].pc = "store" /\ delivery'[d].outcome = delivery[d].outcome
    BY <1>2, <1>5, LiveTyped DEF TypeOK, Live, Goto, Message
  <2> QED
    BY <1>4, <1>5, <2>1
<1>6. CASE /\ delivery' = [delivery EXCEPT ![d] =
                [@ EXCEPT !.pc = "store", !.id = t, !.seen = None, !.committed = TRUE]]
           /\ tasks' = [tasks EXCEPT ![t] = None]
  <2>1. delivery'[d].pc = "store" /\ delivery'[d].outcome = delivery[d].outcome
    BY <1>2, <1>6, LiveTyped DEF TypeOK, Live, Message
  <2>2. tasks'[t] = None
    BY <1>2, <1>6 DEF TypeOK
  <2> QED
    BY <1>4, <2>1, <2>2
<1> QED
  BY <1>1, <1>3, <1>5, <1>6 DEF Delete, Commit

(* What the refresh reads is the row the run wrote.                         *)
LEMMA RefreshTrack ==
  ASSUME TypeOK, Truthful, Stays, NEW d \in Deliveries, Refresh(d)
  PROVE  \A e \in Live' : OnTrack(e)'
<1>1. PICK j, r, t, row :
        j = delivery[d].job /\ r = accepted[j] /\ t = delivery[d].id /\ row = tasks[t]
  OBVIOUS
<1>2. /\ d \in Live /\ delivery[d].pc = "refresh" /\ UNCHANGED <<accepted, tasks, creator>>
      /\ t \in TaskIds /\ Wrote(d, r)
  BY <1>1 DEF Refresh, At, TypeOK, Located, Truthful, OnTrack
<1>3. CASE row = None
  <2>1. Leave(d, "failed")
    BY <1>1, <1>3 DEF Refresh
  <2> QED
    BY <1>2, <2>1, LeaveMoves, MovedTrack
<1>4. CASE row # None
  <2>1. PICK answer : answer = [returned |-> "task", id |-> t, row |-> row]
    OBVIOUS
  <2>2. delivery' = [delivery EXCEPT ![d] = [@ EXCEPT !.pc = "store", !.outcome = answer]]
    BY <1>1, <1>4, <2>1 DEF Refresh
  <2>3. /\ delivery'[d].pc = "store" /\ delivery'[d].outcome = answer
        /\ delivery'[d].job = j
    BY <1>1, <1>2, <2>2, LiveTyped DEF TypeOK, Live, Message
  <2>4. answer # None
    <3>1. answer \in Outcome
      BY <1>1, <1>2, <1>4, <2>1 DEF TypeOK, Outcome
    <3> QED
      BY <3>1, NoneAssumption
  <2>5. Answer(d)' = answer
    BY <2>3, <2>4 DEF Answer
  <2>6. Sound(answer, j)'
    BY <1>1, <1>2, <1>4, <2>1 DEF Sound, IsTrue, Wrote
  <2>7. OnTrack(d)'
    BY <2>3, <2>5, <2>6 DEF OnTrack
  <2> QED
    BY <1>2, <2>7, RefreshTyped, MovedTrack
<1> QED
  BY <1>3, <1>4

LEMMA CrashTrack ==
  ASSUME TypeOK, Truthful, Stays, NEW d \in Deliveries, Crash(d)
  PROVE  \A e \in Live' : OnTrack(e)'
<1>1. d \in Live /\ UNCHANGED accepted
  BY DEF Crash, Running
<1>2. delivery'[d].pc = "queued" /\ delivery'[d].outcome = None
  BY <1>1 DEF TypeOK, Live, Crash, Queued
<1>3. OnTrack(d)'
  BY <1>2 DEF OnTrack
<1> QED
  BY <1>1, <1>3, CrashTyped, MovedTrack

LEMMA RestTrack ==
  ASSUME TypeOK, Truthful, Stays, NEW d \in Deliveries,
         \/ StoreSuccess(d) \/ StoreRetry(d) \/ StoreFailure(d) \/ Push(d) \/ Trim(d)
         \/ DbError(d) \/ RedisError(d)
  PROVE  \A e \in Live' : OnTrack(e)'
<1>1. d \in Live /\ UNCHANGED accepted
  BY DEF StoreSuccess, StoreRetry, StoreFailure, Push, Trim, DbError, RedisError, At
<1>2. \E label \in {"failed", "raised", "ack", "push", "trim"} : Moved(d, label)
  BY StoreSuccessTyped, StoreRetryTyped, StoreFailureTyped, PushTyped, TrimTyped,
     DbErrorTyped, RedisErrorTyped
<1> QED
  BY <1>1, <1>2, MovedTrack

LEMMA AcceptTrack ==
  ASSUME TypeOK, Truthful, Stays, NEW j \in Jobs, NEW r \in Requests, Accept(j, r)
  PROVE  \A e \in Live' : OnTrack(e)'
<1>1. PICK n : n = NextFree
  OBVIOUS
<1>2. delivery' = [delivery EXCEPT ![n] = Queued(j, 0)]
  BY <1>1 DEF Accept
<1> SUFFICES ASSUME NEW e \in Live' PROVE OnTrack(e)'
  OBVIOUS
<1>3. CASE e = n
  BY <1>2, <1>3 DEF TypeOK, Live, OnTrack, Queued
<1>4. CASE e # n
  <2>1. e \in Live /\ delivery'[e] = delivery[e]
    BY <1>2, <1>4 DEF TypeOK, Live
  <2>2. accepted'[delivery[e].job] = accepted[delivery[e].job]
    BY <2>1, LiveTyped DEF TypeOK, Accept
  <2> QED
    BY <2>1, <2>2, OnTrackStays DEF Truthful
<1> QED
  BY <1>3, <1>4

LEMMA RetryTrack ==
  ASSUME TypeOK, Truthful, Stays, NEW d \in Deliveries, Retry(d)
  PROVE  \A e \in Live' : OnTrack(e)'
<1>1. PICK n : n = NextFree
  OBVIOUS
<1>2. /\ d \in Live /\ UNCHANGED accepted
      /\ delivery' = [delivery EXCEPT ![d].pc = "storeRetry", ![d].retried = TRUE,
                         ![n] = Queued(delivery[d].job, delivery[d].retries + 1)]
  BY <1>1 DEF Retry, At
<1> SUFFICES ASSUME NEW e \in Live' PROVE OnTrack(e)'
  OBVIOUS
<1>3. CASE e \in {d, n}
  <2>1. \/ delivery'[e].pc = "storeRetry"
        \/ delivery'[e].pc = "queued" /\ delivery'[e].outcome = None
    BY <1>2, <1>3, LiveTyped DEF TypeOK, Live, Queued, Message
  <2> QED
    BY <2>1 DEF OnTrack
<1>4. CASE e \notin {d, n}
  <2>1. e \in Live /\ delivery'[e] = delivery[e]
    BY <1>2, <1>4 DEF TypeOK, Live
  <2> QED
    BY <1>2, <2>1, OnTrackStays DEF Truthful
<1> QED
  BY <1>3, <1>4

LEMMA RepublishTrack ==
  ASSUME TypeOK, Truthful, Stays, NEW d \in Deliveries, Republish(d)
  PROVE  \A e \in Live' : OnTrack(e)'
<1>1. PICK n : n = NextFree
  OBVIOUS
<1>2. /\ UNCHANGED accepted
      /\ delivery' = [delivery EXCEPT ![n] = Queued(delivery[d].job, delivery[d].retries)]
  BY <1>1 DEF Republish
<1> SUFFICES ASSUME NEW e \in Live' PROVE OnTrack(e)'
  OBVIOUS
<1>3. CASE e = n
  BY <1>2, <1>3 DEF TypeOK, Live, OnTrack, Queued
<1>4. CASE e # n
  <2>1. e \in Live /\ delivery'[e] = delivery[e]
    BY <1>2, <1>4 DEF TypeOK, Live
  <2> QED
    BY <1>2, <2>1, OnTrackStays DEF Truthful
<1> QED
  BY <1>3, <1>4

LEMMA StillTrack ==
  ASSUME TypeOK, Truthful, Stays, UNCHANGED accepted,
         \A e \in Live' : e \in Live /\ delivery'[e] = delivery[e]
  PROVE  \A e \in Live' : OnTrack(e)'
BY OnTrackStays DEF Truthful

--------------------------------------------------------------------------------
(* The results that are shown.                                              *)
LEMMA ResultsStay ==
  ASSUME TypeOK, Truthful, Stays,
         NEW k,
         \A j \in Jobs \ {k} :
           status'[j] = "SUCCESS" => status[j] = "SUCCESS" /\ result'[j] = result[j],
         \A j \in Jobs : accepted[j] # None => accepted'[j] = accepted[j],
         k \in Jobs /\ status'[k] = "SUCCESS" => Shown(k)'
  PROVE  Results'
<1> SUFFICES ASSUME NEW j \in Jobs, status'[j] = "SUCCESS" PROVE Shown(j)'
  BY DEF Results
<1>1. CASE j = k
  BY <1>1
<1>2. CASE j # k
  <2>1. PICK answer : answer = result[j]
    OBVIOUS
  <2>2. status[j] = "SUCCESS" /\ result'[j] = answer
    BY <1>2, <2>1
  <2>3. Shown(j)
    BY <2>2 DEF Truthful, Results
  <2>4. accepted[j] # None /\ accepted'[j] = accepted[j] /\ Sound(answer, j)
    BY <2>1, <2>3 DEF Shown
  <2>5. Sound(answer, j)'
    BY <2>4, SoundStays DEF Truthful
  <2>6. Sound(result[j], j)'
    BY <2>2, <2>5 DEF Sound, IsTrue
  <2> QED
    BY <2>4, <2>6 DEF Shown
<1> QED
  BY <1>1, <1>2

LEMMA StoreSuccessResults ==
  ASSUME TypeOK, Truthful, Stays, NEW d \in Deliveries, StoreSuccess(d)
  PROVE  Results'
<1>1. PICK k, answer : k = delivery[d].job /\ answer = Answer(d)
  OBVIOUS
<1>2. /\ d \in Live /\ delivery[d].pc = "store" /\ k \in Jobs
      /\ UNCHANGED accepted /\ accepted[k] # None
  BY <1>1, LiveTyped DEF StoreSuccess, At, TypeOK
<1>3. \A j \in Jobs \ {k} : status'[j] = status[j] /\ result'[j] = result[j]
  BY <1>1, <1>2 DEF TypeOK, StoreSuccess, Store
<1>4. CASE status[k] = "SUCCESS"
  <2>1. UNCHANGED <<status, result>>
    BY <1>1, <1>4 DEF StoreSuccess, Store
  <2>2. None \notin Jobs
    BY NoneAssumption
  <2> QED
    BY <1>2, <2>1, <2>2, ResultsStay
<1>5. CASE status[k] # "SUCCESS"
  <2>1. result'[k] = answer
    BY <1>1, <1>2, <1>5 DEF TypeOK, StoreSuccess, Answer
  <2>2. Sound(answer, k)
    BY <1>1, <1>2 DEF Truthful, OnTrack
  <2>3. Sound(answer, k)'
    BY <1>2, <2>2, SoundStays DEF Truthful
  <2>4. Shown(k)'
    BY <1>2, <2>1, <2>3 DEF Shown, Sound, IsTrue
  <2> QED
    BY <1>2, <1>3, <2>4, ResultsStay
<1> QED
  BY <1>4, <1>5

LEMMA OtherResults ==
  ASSUME TypeOK, Truthful, Stays,
         \/ \E d \in Deliveries :
              \/ Start(d) \/ Select(d) \/ Insert(d) \/ Update(d) \/ Delete(d) \/ Refresh(d)
              \/ Retry(d) \/ StoreRetry(d) \/ StoreFailure(d) \/ Push(d) \/ Trim(d)
              \/ Ack(d) \/ Republish(d) \/ DbError(d) \/ Crash(d) \/ RedisError(d)
         \/ \E j \in Jobs : ExpireResult(j)
         \/ \E j \in Jobs, r \in Requests : Accept(j, r)
         \/ Idle \/ UNCHANGED vars
  PROVE  Results'
<1>1. PICK k : k \notin Jobs
  BY NoneAssumption
<1>2. ASSUME NEW j \in Jobs, NEW r \in Requests, Accept(j, r) PROVE Results'
  <2>1. UNCHANGED <<status, result>>
    BY <1>2 DEF Accept
  <2>2. \A i \in Jobs : accepted[i] # None => accepted'[i] = accepted[i]
    BY <1>2 DEF TypeOK, Accept
  <2> QED
    BY <1>1, <2>1, <2>2, ResultsStay
<1>3. ASSUME NEW d \in Deliveries, Start(d) \/ StoreRetry(d) \/ StoreFailure(d)
      PROVE  Results'
  <2>1. UNCHANGED <<accepted, result>>
    BY <1>3 DEF Start, StoreRetry, StoreFailure
  <2>2. \A i \in Jobs : status'[i] = "SUCCESS" => status[i] = "SUCCESS"
    BY <1>3 DEF TypeOK, Start, StoreRetry, StoreFailure, Store
  <2> QED
    BY <1>1, <2>1, <2>2, ResultsStay
<1>4. ASSUME NEW j \in Jobs, ExpireResult(j) PROVE Results'
  <2>1. /\ UNCHANGED accepted
        /\ \A i \in Jobs : status'[i] = "SUCCESS" =>
             status[i] = "SUCCESS" /\ result'[i] = result[i]
    BY <1>4 DEF TypeOK, ExpireResult
  <2> QED
    BY <1>1, <2>1, ResultsStay
<1>5. CASE \/ \E d \in Deliveries :
                \/ Select(d) \/ Insert(d) \/ Update(d) \/ Delete(d) \/ Refresh(d)
                \/ Retry(d) \/ Push(d) \/ Trim(d)
                \/ Ack(d) \/ Republish(d) \/ DbError(d) \/ Crash(d) \/ RedisError(d)
           \/ Idle \/ UNCHANGED vars
  <2>1. UNCHANGED <<accepted, status, result>>
    BY <1>5 DEF Select, Insert, Update, Delete, Refresh, Retry, Push, Trim, Ack,
                Republish, DbError, Crash, RedisError, Idle, vars
  <2> QED
    BY <1>1, <2>1, ResultsStay
<1> QED
  BY <1>2, <1>3, <1>4, <1>5

LEMMA NextAsked ==
  ASSUME TypeOK, Truthful, Stays, [Next]_vars
  PROVE  AskedMinted'
<1>1. ASSUME NEW t \in Minted PROVE t \in Minted'
  BY <1>1 DEF Stays, OwnersStay
<1>2. CASE UNCHANGED accepted
  BY <1>1, <1>2 DEF Truthful, AskedMinted
<1>3. ASSUME NEW j \in Jobs, NEW r \in Requests, Accept(j, r) PROVE AskedMinted'
  BY <1>1, <1>3 DEF TypeOK, Accept, Truthful, AskedMinted
<1>4. ASSUME ~ \E j \in Jobs, r \in Requests : Accept(j, r) PROVE UNCHANGED accepted
  BY <1>4 DEF Next, Progress, Start, Select, Insert, Update, Delete, Refresh,
     StoreSuccess, Retry, StoreRetry, StoreFailure, Push, Trim, Ack, Republish,
     DbError, Crash,
     RedisError, ExpireResult, Idle, vars
<1> QED
  BY <1>2, <1>3, <1>4

LEMMA NextTruthful == TypeOK /\ Owned /\ Truthful /\ [Next]_vars => Truthful'
<1> SUFFICES ASSUME TypeOK, Owned, Truthful, [Next]_vars PROVE Truthful'
  OBVIOUS
<1>1. Stays
  BY NextRows, NextCreators DEF Stays
<1>2. AskedMinted'
  BY <1>1, NextAsked
<1>3. Results'
  BY <1>1, StoreSuccessResults, OtherResults DEF Next, Progress
<1>4. ASSUME NEW j \in Jobs, NEW r \in Requests, Accept(j, r)
      PROVE  \A e \in Live' : OnTrack(e)'
  BY <1>1, <1>4, AcceptTrack
<1>5. ASSUME NEW d \in Deliveries, Ack(d) PROVE \A e \in Live' : OnTrack(e)'
  <2>1. /\ UNCHANGED accepted
        /\ \A e \in Live' : e \in Live /\ delivery'[e] = delivery[e]
    BY <1>5 DEF TypeOK, Ack, Live
  <2> QED
    BY <1>1, <2>1, StillTrack
<1>6. ASSUME NEW d \in Deliveries, Progress(d) PROVE \A e \in Live' : OnTrack(e)'
  BY <1>1, <1>5, <1>6, StartTrack, SelectTrack, InsertTrack, UpdateTrack, DeleteTrack,
     RefreshTrack, RetryTrack, RestTrack DEF Progress
<1>7. ASSUME NEW d \in Deliveries,
             Republish(d) \/ DbError(d) \/ Crash(d) \/ RedisError(d)
      PROVE  \A e \in Live' : OnTrack(e)'
  BY <1>1, <1>7, RepublishTrack, CrashTrack, RestTrack
<1>8. ASSUME (\E j \in Jobs : ExpireResult(j)) \/ Idle \/ UNCHANGED vars
      PROVE  \A e \in Live' : OnTrack(e)'
  <2>1. UNCHANGED <<accepted, delivery>>
    BY <1>8 DEF ExpireResult, Idle, vars
  <2>2. /\ UNCHANGED accepted
        /\ \A e \in Live' : e \in Live /\ delivery'[e] = delivery[e]
    BY <2>1 DEF Live
  <2> QED
    BY <1>1, <2>2, StillTrack
<1> QED
  BY <1>2, <1>3, <1>4, <1>6, <1>7, <1>8 DEF Next, Truthful

(* What GET /jobs/{id} shows of a finished job stays true of the table      *)
(* however the jobs of other requests are interleaved with it and whatever  *)
(* runs of it failed: a created task is this job's, an updated one the one  *)
(* asked for, and a task the user was told is absent never comes back.      *)
THEOREM AnswersAreTrue == Spec => []SuccessIsTrue
<1>1. TypeOK /\ Owned /\ Truthful /\ [Next]_vars => TypeOK' /\ Owned' /\ Truthful'
  BY NextTypeOK, NextOwned, NextTruthful
<1>2. Init => TypeOK /\ Owned /\ Truthful
  BY InitTypeOK, InitOwned, InitTruthful
<1>3. Truthful => SuccessIsTrue
  BY DEF Truthful, Results, Shown, Sound, SuccessIsTrue
<1> QED
  BY <1>1, <1>2, <1>3, PTL DEF Spec

================================================================================
