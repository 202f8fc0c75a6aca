--------------------------- MODULE JobPipelineProofs ---------------------------
(***************************************************************************)
(* Theorems about JobPipeline, for every number of users, tasks, jobs,      *)
(* messages, retries, workers and faults: its types, no job vanishes, and   *)
(* the dead letter list is bounded.                                         *)
(***************************************************************************)
EXTENDS JobPipeline, FiniteSetTheorems, TLAPS

USE DEF lists, history

(* A message a broker holds, and the request it carries, have their types.  *)
LEMMA LiveTyped ==
  ASSUME TypeOK, NEW d \in Live
  PROVE  /\ delivery[d] \in Message
         /\ delivery[d].job \in Jobs
         /\ accepted[delivery[d].job] \in Requests
         /\ accepted[delivery[d].job] \in Request
BY RequestsAssumption DEF TypeOK, Live, Message

(* A fresh message fits in the broker.                                      *)
LEMMA QueuedTyped ==
  ASSUME NEW j \in Jobs, NEW n \in 0..MaxRetries
  PROVE  Queued(j, n) \in Message /\ Queued(j, n) # None /\ Queued(j, n).job = j
<1>1. Queued(j, n) \in Message
  BY DEF Queued, Message
<1> QED
  BY <1>1, NoneAssumption DEF Queued

(* While the broker is not full, the next free slot is one of its empty ones. *)
LEMMA NextFreeIsFree ==
  ASSUME ~Full
  PROVE  NextFree \in Deliveries /\ delivery[NextFree] = None
BY DEF Full, NextFree, Live

(* One message goes to another label, and stays a message of its job.       *)
Moved(d, label) ==
  /\ delivery' \in [Deliveries -> Message \union {None}]
  /\ \A e \in Deliveries : (delivery'[e] # None) <=> (delivery[e] # None)
  /\ \A e \in Live : /\ delivery'[e].job = delivery[e].job
                      /\ delivery'[e].retries = delivery[e].retries
  /\ \A e \in Deliveries : e # d => delivery'[e] = delivery[e]
  /\ delivery'[d].pc = label

LEMMA Moving ==
  ASSUME TypeOK, NEW d \in Live, NEW m \in Message,
         m.job = delivery[d].job, m.retries = delivery[d].retries,
         delivery' = [delivery EXCEPT ![d] = m]
  PROVE  Moved(d, m.pc)
BY NoneAssumption DEF TypeOK, Live, Moved

LEMMA LeaveMoves ==
  ASSUME TypeOK, NEW d \in Live, NEW label,
         label \in {"failed", "raised", "ack"}, Leave(d, label)
  PROVE  Moved(d, label)
<1> DEFINE m == [delivery[d] EXCEPT !.pc = label, !.id = None, !.seen = None,
                                    !.outcome = None]
<1>1. m \in Message /\ m.job = delivery[d].job /\ m.retries = delivery[d].retries
      /\ m.pc = label
  BY LiveTyped DEF Message
<1>2. delivery' = [delivery EXCEPT ![d] = m]
  BY DEF Leave
<1> HIDE DEF m
<1> QED
  BY <1>1, <1>2, Moving

LEMMA GotoMoves ==
  ASSUME TypeOK, NEW d \in Live, NEW label,
         label \in {"read", "write", "refresh", "store", "storeRetry", "push", "trim"},
         Goto(d, label)
  PROVE  Moved(d, label)
<1> DEFINE m == [delivery[d] EXCEPT !.pc = label]
<1>1. m \in Message /\ m.job = delivery[d].job /\ m.retries = delivery[d].retries
      /\ m.pc = label
  BY LiveTyped DEF Message
<1>2. delivery' = [delivery EXCEPT ![d] = m]
  BY DEF Goto
<1> HIDE DEF m
<1> QED
  BY <1>1, <1>2, Moving

(* A commit leaves the table, the history and the messages well typed.      *)
LEMMA CommitTyped ==
  ASSUME TypeOK, NEW d \in Live, NEW t \in TaskIds \union {None}, NEW row, NEW next,
         t \in TaskIds => row \in Row \union {None},
         next \in {"refresh", "store"},
         Commit(d, t, row, next)
  PROVE  /\ tasks' \in [TaskIds -> Row \union {None}]
         /\ applied' \in [Jobs -> Nat]
         /\ uncertain' \subseteq Jobs
         /\ faults' \in 0..MaxFaults
         /\ \/ Moved(d, next) /\ delivery'[d].id = t
           \/ Moved(d, "failed")
<1>1. tasks' \in [TaskIds -> Row \union {None}]
  BY NoneAssumption DEF TypeOK, Commit
<1>2. applied' \in [Jobs -> Nat]
  BY LiveTyped DEF TypeOK, Commit
<1>3. CASE /\ delivery' = [delivery EXCEPT ![d] =
                [@ EXCEPT !.pc = next, !.id = t, !.seen = None, !.committed = TRUE]]
           /\ UNCHANGED <<uncertain, faults>>
  <2> DEFINE m == [delivery[d] EXCEPT !.pc = next, !.id = t, !.seen = None,
                                      !.committed = TRUE]
  <2>1. m \in Message /\ m.job = delivery[d].job /\ m.retries = delivery[d].retries
        /\ m.pc = next /\ m.id = t
    BY LiveTyped DEF Message
  <2>2. delivery' = [delivery EXCEPT ![d] = m]
    BY <1>3
  <2> HIDE DEF m
  <2>3. Moved(d, next) /\ delivery'[d].id = t
    BY <2>1, <2>2, Moving DEF TypeOK, Live
  <2> QED
    BY <1>1, <1>2, <1>3, <2>3 DEF TypeOK
<1>4. CASE /\ Fault
           /\ delivery' = [delivery EXCEPT ![d] =
                [@ EXCEPT !.pc = "failed", !.id = None, !.seen = None, !.committed = TRUE]]
           /\ uncertain' = uncertain \union {delivery[d].job}
  <2> DEFINE m == [delivery[d] EXCEPT !.pc = "failed", !.id = None, !.seen = None,
                                      !.committed = TRUE]
  <2>1. m \in Message /\ m.job = delivery[d].job /\ m.retries = delivery[d].retries
        /\ m.pc = "failed"
    BY LiveTyped DEF Message
  <2>2. delivery' = [delivery EXCEPT ![d] = m]
    BY <1>4
  <2> HIDE DEF m
  <2>3. Moved(d, "failed")
    BY <2>1, <2>2, Moving
  <2>4. uncertain' \subseteq Jobs /\ faults' \in 0..MaxFaults
    BY <1>4, LiveTyped, SizesAssumption DEF TypeOK, Fault
  <2> QED
    BY <1>1, <1>2, <2>3, <2>4
<1> QED
  BY <1>3, <1>4 DEF Commit

(* When one message moved and no request changed, every message still has   *)
(* its accepted job, and the others still know their rows.                  *)
LEMMA MovedSponsored ==
  ASSUME TypeOK, NEW d \in Live, NEW label, Moved(d, label), UNCHANGED accepted,
         label \in {"write", "refresh"} => Located(d)'
  PROVE  /\ Live' = Live
         /\ \A e \in Live' : accepted'[delivery'[e].job] # None /\ Located(e)'
<1>1. Live' = Live
  BY DEF TypeOK, Live, Moved
<1>2. Located(d)'
  BY DEF Moved, Located
<1>3. ASSUME NEW e \in Live, e # d
      PROVE  Located(e)'
  BY <1>3 DEF TypeOK, Live, Moved, Located
<1> QED
  BY <1>1, <1>2, <1>3 DEF TypeOK, Live, Moved

--------------------------------------------------------------------------------
(* Type correctness.                                                        *)
LEMMA InitTypeOK == Init => TypeOK
<1> SUFFICES ASSUME Init PROVE TypeOK
  OBVIOUS
<1>1. tasks \in [TaskIds -> Row \union {None}]
  BY InitialRowsAssumption DEF Init
<1>2. dead_letter \in Seq(Jobs) /\ pushed \in Seq(Jobs)
  BY DEF Init
<1> QED
  BY <1>1, <1>2, SizesAssumption DEF Init, TypeOK, Live

LEMMA StoreTyped ==
  ASSUME TypeOK, NEW j \in Jobs,
         NEW s \in {"STARTED", "RETRY", "SUCCESS", "FAILURE"}, Store(j, s)
  PROVE  status' \in [Jobs -> {"PENDING", "STARTED", "RETRY", "SUCCESS", "FAILURE"}]
BY DEF TypeOK, Store

LEMMA AcceptTyped ==
  ASSUME TypeOK, NEW j \in Jobs, NEW r \in Requests, Accept(j, r)
  PROVE  TypeOK'
<1>1. Queued(j, 0) \in Message /\ Queued(j, 0) # None /\ Queued(j, 0).job = j
  BY QueuedTyped, SizesAssumption
<1>2. NextFree \in Deliveries /\ delivery[NextFree] = None
  BY NextFreeIsFree DEF Accept
<1>3. delivery' = [delivery EXCEPT ![NextFree] = Queued(j, 0)]
  BY DEF Accept
<1>4. delivery' \in [Deliveries -> Message \union {None}]
  BY <1>1, <1>3 DEF TypeOK
<1>5. r # None
  BY RequestsAssumption, NoneAssumption
<1>6. \A e \in Live' : accepted'[delivery'[e].job] # None /\ Located(e)'
  <2> SUFFICES ASSUME NEW e \in Deliveries, delivery'[e] # None
               PROVE  accepted'[delivery'[e].job] # None /\ Located(e)'
    BY DEF Live
  <2>1. CASE e = NextFree
    BY <1>1, <1>2, <1>3, <1>5, <2>1 DEF TypeOK, Accept, Located, Queued
  <2>2. CASE e # NextFree
    <3>1. delivery'[e] = delivery[e] /\ e \in Live
      BY <1>3, <2>2 DEF TypeOK, Live
    <3> QED
      BY <1>5, <3>1, LiveTyped DEF TypeOK, Accept, Located
  <2> QED
    BY <2>1, <2>2
<1> QED
  BY <1>4, <1>6 DEF TypeOK, Accept

LEMMA StartTyped ==
  ASSUME TypeOK, NEW d \in Deliveries, Start(d)
  PROVE  TypeOK' /\ (Moved(d, "read") \/ Moved(d, "write"))
<1>1. d \in Live
  BY DEF Start, At
<1>2. Moved(d, "read") \/ Moved(d, "write")
  BY <1>1, GotoMoves DEF Start
<1>3. status' \in [Jobs -> {"PENDING", "STARTED", "RETRY", "SUCCESS", "FAILURE"}]
  BY <1>1, LiveTyped, StoreTyped DEF Start
<1>4. \A e \in Live' : accepted'[delivery'[e].job] # None /\ Located(e)'
  <2>1. CASE accepted[delivery[d].job].kind = "create" /\ Goto(d, "write")
    <3>1. Moved(d, "write")
      BY <1>1, <2>1, GotoMoves
    <3>2. Located(d)'
      BY <1>1, <2>1, <3>1 DEF Moved, Located, Start
    <3> QED
      BY <1>1, <3>1, <3>2, MovedSponsored DEF Start
  <2>2. CASE Goto(d, "read")
    BY <1>1, <2>2, GotoMoves, MovedSponsored DEF Start
  <2> QED
    BY <2>1, <2>2 DEF Start
<1>5. delivery' \in [Deliveries -> Message \union {None}]
  BY <1>2 DEF Moved
<1> QED
  BY <1>2, <1>3, <1>4, <1>5 DEF TypeOK, Start

LEMMA PlainTyped ==
  ASSUME NEW answer \in {"null", "true", "false"}
  PROVE  Plain(answer) \in Outcome
BY DEF Plain, Outcome

LEMMA SelectTyped ==
  ASSUME TypeOK, NEW d \in Deliveries, Select(d)
  PROVE  TypeOK' /\ (Moved(d, "write") \/ Moved(d, "store"))
<1> DEFINE r == accepted[delivery[d].job]
           hit == [delivery[d] EXCEPT !.pc = "write", !.seen = tasks[r.task_id]]
           answer == Plain(IF r.kind = "update" THEN "null" ELSE "false")
           miss == [delivery[d] EXCEPT !.pc = "store", !.outcome = answer]
<1>1. d \in Live
  BY DEF Select, At
<1>2. CASE Found(r)
  <2>1. tasks[r.task_id] \in Row
    BY <1>1, <1>2, LiveTyped DEF TypeOK, Found, Request
  <2>2. hit \in Message /\ hit.job = delivery[d].job /\ hit.retries = delivery[d].retries
        /\ hit.pc = "write"
    BY <1>1, <2>1, LiveTyped DEF Message
  <2>3. delivery' = [delivery EXCEPT ![d] = hit]
    BY <1>2 DEF Select
  <2> HIDE DEF hit, r
  <2>4. Moved(d, "write")
    BY <1>1, <2>2, <2>3, Moving
  <2>5. r.task_id \in TaskIds
    BY <1>1, <1>2, LiveTyped DEF Found, Request, r
  <2>6. Located(d)'
    BY <1>1, <2>4, <2>5 DEF Moved, Located, Select, r
  <2> QED
    BY <1>1, <2>4, <2>6, MovedSponsored DEF TypeOK, Select, Moved
<1>3. CASE ~Found(r)
  <2>1. answer \in Outcome
    BY PlainTyped
  <2>2. miss \in Message /\ miss.job = delivery[d].job /\ miss.retries = delivery[d].retries
        /\ miss.pc = "store"
    <3> HIDE DEF answer
    <3> QED
      BY <1>1, <2>1, LiveTyped DEF Message
  <2>3. delivery' = [delivery EXCEPT ![d] = miss]
    BY <1>3 DEF Select
  <2> HIDE DEF miss, answer, r
  <2>4. Moved(d, "store")
    BY <1>1, <2>2, <2>3, Moving
  <2> QED
    BY <1>1, <2>4, MovedSponsored DEF TypeOK, Select, Moved
<1> QED
  BY <1>2, <1>3

LEMMA InsertTyped ==
  ASSUME TypeOK, NEW d \in Deliveries, Insert(d)
  PROVE  TypeOK' /\ (Moved(d, "refresh") \/ Moved(d, "failed"))
<1> DEFINE r == accepted[delivery[d].job]
           new == [owner_id |-> r.owner_id, title |-> r.title, is_done |-> FALSE]
<1>1. d \in Live
  BY DEF Insert, At
<1>2. FreshId \in TaskIds
  BY DEF Insert, FreshId
<1>3. new \in Row
  BY <1>1, LiveTyped, RequestsAssumption DEF Insert, Request, Row
<1>4. Commit(d, FreshId, new, "refresh")
  BY DEF Insert
<1>5. creator' \in [TaskIds -> Jobs \union {None}]
  BY <1>1, LiveTyped DEF TypeOK, Insert
<1> HIDE DEF new
<1>6. /\ tasks' \in [TaskIds -> Row \union {None}]
      /\ applied' \in [Jobs -> Nat] /\ uncertain' \subseteq Jobs
      /\ faults' \in 0..MaxFaults
      /\ \/ Moved(d, "refresh") /\ delivery'[d].id = FreshId
         \/ Moved(d, "failed")
  BY <1>1, <1>2, <1>3, <1>4, CommitTyped
<1>7. \A e \in Live' : accepted'[delivery'[e].job] # None /\ Located(e)'
  <2>1. Moved(d, "refresh") /\ delivery'[d].id = FreshId => Located(d)'
    BY <1>2 DEF Moved, Located
  <2> QED
    BY <1>1, <1>6, <2>1, MovedSponsored DEF Insert
<1>8. delivery' \in [Deliveries -> Message \union {None}]
  BY <1>6 DEF Moved
<1> QED
  BY <1>5, <1>6, <1>7, <1>8 DEF TypeOK, Insert

(* What an UPDATE writes over a row of the table is a row again.            *)
LEMMA WrittenTyped ==
  ASSUME NEW r \in Request, NEW seen, NEW row \in Row
  PROVE  Written(r, seen, row) \in Row
BY DEF Written, Request, Row

LEMMA UpdateTyped ==
  ASSUME TypeOK, NEW d \in Deliveries, Update(d)
  PROVE  TypeOK' /\ (Moved(d, "refresh") \/ Moved(d, "failed"))
<1> DEFINE r == accepted[delivery[d].job]
           t == r.task_id
           seen == delivery[d].seen
           clean == [delivery[d] EXCEPT !.pc = "refresh", !.id = t, !.seen = None]
<1>1. d \in Live /\ r \in Request /\ t \in TaskIds
  BY LiveTyped DEF Update, At, Request, TypeOK, Located
<1>2. CASE delivery' = [delivery EXCEPT ![d] = clean]
           /\ UNCHANGED <<tasks, applied, uncertain, faults>>
  <2>1. clean \in Message /\ clean.job = delivery[d].job /\ clean.retries = delivery[d].retries
        /\ clean.pc = "refresh"
        /\ clean.id = t
    BY <1>1, LiveTyped DEF Message
  <2> HIDE DEF clean
  <2>2. Moved(d, "refresh") /\ delivery'[d].id = t
    BY <1>1, <1>2, <2>1, Moving DEF TypeOK, Live
  <2>3. Located(d)'
    BY <1>1, <2>2 DEF Moved, Located
  <2> QED
    BY <1>1, <1>2, <2>2, <2>3, MovedSponsored DEF TypeOK, Update, Moved
<1>3. CASE Leave(d, "failed") /\ UNCHANGED <<tasks, applied, uncertain, faults>>
  <2>1. Moved(d, "failed")
    BY <1>1, <1>3, LeaveMoves
  <2> QED
    BY <1>1, <1>3, <2>1, MovedSponsored DEF TypeOK, Update, Moved
<1>4. CASE tasks[t] # None /\ Commit(d, t, Written(r, seen, tasks[t]), "refresh")
  <2>1. t \in TaskIds => Written(r, seen, tasks[t]) \in Row
    BY <1>1, <1>4, WrittenTyped DEF TypeOK
  <2>2. /\ tasks' \in [TaskIds -> Row \union {None}]
        /\ applied' \in [Jobs -> Nat] /\ uncertain' \subseteq Jobs
        /\ faults' \in 0..MaxFaults
        /\ \/ Moved(d, "refresh") /\ delivery'[d].id = t
           \/ Moved(d, "failed")
    BY <1>1, <1>4, <2>1, CommitTyped
  <2>3. \A e \in Live' : accepted'[delivery'[e].job] # None /\ Located(e)'
    <3>1. Moved(d, "refresh") /\ delivery'[d].id = t => Located(d)'
      BY <1>1 DEF Moved, Located
    <3> QED
      BY <1>1, <2>2, <3>1, MovedSponsored DEF Update
  <2>4. delivery' \in [Deliveries -> Message \union {None}]
    BY <2>2 DEF Moved
  <2> QED
    BY <2>2, <2>3, <2>4 DEF TypeOK, Update
<1> QED
  BY <1>2, <1>3, <1>4 DEF Update

LEMMA DeleteTyped ==
  ASSUME TypeOK, NEW d \in Deliveries, Delete(d)
  PROVE  TypeOK' /\ (Moved(d, "store") \/ Moved(d, "failed"))
<1> DEFINE t == accepted[delivery[d].job].task_id
<1>1. d \in Live /\ t \in TaskIds \union {None}
  BY LiveTyped DEF Delete, At, Request
<1>2. CASE Goto(d, "store") /\ UNCHANGED <<tasks, applied, uncertain, faults>>
  <2>1. Moved(d, "store")
    BY <1>1, <1>2, GotoMoves
  <2> QED
    BY <1>1, <1>2, <2>1, MovedSponsored DEF TypeOK, Delete, Moved
<1>3. CASE Commit(d, t, None, "store")
  <2>1. /\ tasks' \in [TaskIds -> Row \union {None}]
        /\ applied' \in [Jobs -> Nat] /\ uncertain' \subseteq Jobs
        /\ faults' \in 0..MaxFaults
        /\ Moved(d, "store") \/ Moved(d, "failed")
    BY <1>1, <1>3, CommitTyped
  <2>2. \A e \in Live' : accepted'[delivery'[e].job] # None /\ Located(e)'
    BY <1>1, <2>1, MovedSponsored DEF Delete
  <2>3. delivery' \in [Deliveries -> Message \union {None}]
    BY <2>1 DEF Moved
  <2> QED
    BY <2>1, <2>2, <2>3 DEF TypeOK, Delete
<1> QED
  BY <1>2, <1>3 DEF Delete

LEMMA RefreshTyped ==
  ASSUME TypeOK, NEW d \in Deliveries, Refresh(d)
  PROVE  TypeOK' /\ (Moved(d, "store") \/ Moved(d, "failed"))
<1> DEFINE t == delivery[d].id
           read == [returned |-> "task", id |-> t, row |-> tasks[t]]
           m == [delivery[d] EXCEPT !.pc = "store", !.outcome = read]
<1>1. d \in Live /\ t \in TaskIds
  BY DEF Refresh, At, TypeOK, Located
<1>2. CASE tasks[t] # None /\ delivery' = [delivery EXCEPT ![d] = m] /\ UNCHANGED uncertain
  <2>1. m.job = delivery[d].job /\ m.retries = delivery[d].retries /\ m.pc = "store"
    BY <1>1, LiveTyped DEF Message
  <2>2. read \in Outcome
    BY <1>1, <1>2 DEF TypeOK, Outcome
  <2>3. m \in Message
    <3> HIDE DEF read
    <3> QED
      BY <1>1, <2>2, LiveTyped DEF Message
  <2> HIDE DEF m
  <2>4. Moved(d, "store")
    BY <1>1, <1>2, <2>1, <2>3, Moving
  <2> QED
    BY <1>1, <1>2, <2>4, MovedSponsored DEF TypeOK, Refresh, Moved
<1>3. CASE Leave(d, "failed") /\ Doubt(d)
  <2>1. Moved(d, "failed")
    BY <1>1, <1>3, LeaveMoves
  <2>2. uncertain' \subseteq Jobs
    BY <1>1, <1>3, LiveTyped DEF TypeOK, Doubt
  <2> QED
    BY <1>1, <2>1, <2>2, MovedSponsored DEF TypeOK, Refresh, Moved
<1> QED
  BY <1>2, <1>3 DEF Refresh

LEMMA DbErrorTyped ==
  ASSUME TypeOK, NEW d \in Deliveries, DbError(d)
  PROVE  TypeOK' /\ (Moved(d, "failed") \/ Moved(d, "raised"))
<1>1. d \in Live
  BY DEF DbError
<1>2. Moved(d, "failed") \/ Moved(d, "raised")
  BY <1>1, LeaveMoves DEF DbError
<1>3. uncertain' \subseteq Jobs
  BY <1>1, LiveTyped DEF TypeOK, DbError, Doubt
<1> QED
  BY <1>1, <1>2, <1>3, MovedSponsored DEF TypeOK, DbError, Moved

LEMMA StoreSuccessTyped ==
  ASSUME TypeOK, NEW d \in Deliveries, StoreSuccess(d)
  PROVE  TypeOK' /\ Moved(d, "ack")
<1> DEFINE j == delivery[d].job
           answer == IF delivery[d].outcome = None THEN Plain("true")
                     ELSE delivery[d].outcome
<1>1. d \in Live /\ j \in Jobs
  BY LiveTyped DEF StoreSuccess, At
<1>2. Moved(d, "ack")
  BY <1>1, LeaveMoves DEF StoreSuccess
<1>3. status' \in [Jobs -> {"PENDING", "STARTED", "RETRY", "SUCCESS", "FAILURE"}]
  BY <1>1, StoreTyped DEF StoreSuccess
<1>4. answer \in Outcome
  BY <1>1, LiveTyped, PlainTyped DEF Message
<1>5. result' \in [Jobs -> Outcome \union {None}]
  <2> HIDE DEF answer
  <2> QED
    BY <1>1, <1>4 DEF TypeOK, StoreSuccess, answer
<1>6. ended' \in [Jobs -> SUBSET {"success", "dead_letter", "lost"}]
  BY <1>1 DEF TypeOK, StoreSuccess, End
<1>7. \A e \in Live' : accepted'[delivery'[e].job] # None /\ Located(e)'
  BY <1>1, <1>2, MovedSponsored DEF StoreSuccess
<1>8. delivery' \in [Deliveries -> Message \union {None}]
  BY <1>2 DEF Moved
<1> QED
  BY <1>2, <1>3, <1>5, <1>6, <1>7, <1>8 DEF TypeOK, StoreSuccess

(* retry() puts a second message of the job into the queue.                 *)
LEMMA RetryTyped ==
  ASSUME TypeOK, NEW d \in Deliveries, Retry(d)
  PROVE  /\ TypeOK'
         /\ NextFree \in Live' /\ delivery'[NextFree].job = delivery[d].job
         /\ delivery'[NextFree].pc = "queued"
         /\ \A e \in Live : e # d => e \in Live' /\ delivery'[e] = delivery[e]
<1> DEFINE old == [delivery[d] EXCEPT !.pc = "storeRetry", !.retried = TRUE]
           new == Queued(delivery[d].job, delivery[d].retries + 1)
<1>1. d \in Live
  BY DEF Retry, At
<1>2. /\ delivery[d].job \in Jobs /\ delivery[d].retries + 1 \in 0..MaxRetries
      /\ accepted[delivery[d].job] # None
  BY <1>1, LiveTyped, SizesAssumption DEF Retry, Message, TypeOK
<1>3. /\ new \in Message /\ new # None /\ new.job = delivery[d].job
      /\ new.pc = "queued"
  BY <1>2, QueuedTyped DEF Queued
<1>4. old \in Message /\ old.job = delivery[d].job /\ old.pc = "storeRetry"
  BY <1>1, LiveTyped DEF Message
<1>5. old # None
  BY <1>4, NoneAssumption
<1>6. NextFree \in Deliveries /\ delivery[NextFree] = None /\ NextFree # d
  BY <1>1, NextFreeIsFree DEF Retry, Live
<1>7. delivery' = [delivery EXCEPT ![d] = old, ![NextFree] = new]
  BY DEF Retry
<1> HIDE DEF old, new
<1>8. /\ delivery' \in [Deliveries -> Message \union {None}]
      /\ delivery'[d] = old /\ delivery'[NextFree] = new
      /\ \A e \in Deliveries : e \notin {d, NextFree} => delivery'[e] = delivery[e]
  BY <1>1, <1>3, <1>4, <1>6, <1>7 DEF TypeOK, Live
<1>9. \A e \in Live' : accepted'[delivery'[e].job] # None /\ Located(e)'
  <2> SUFFICES ASSUME NEW e \in Deliveries, delivery'[e] # None
               PROVE  accepted'[delivery'[e].job] # None /\ Located(e)'
    BY DEF Live
  <2>1. CASE e \in {d, NextFree}
    BY <1>2, <1>3, <1>4, <1>8, <2>1 DEF Retry, Located
  <2>2. CASE e \notin {d, NextFree}
    BY <1>8, <2>2 DEF TypeOK, Live, Retry, Located
  <2> QED
    BY <2>1, <2>2
<1>10. TypeOK'
  BY <1>8, <1>9 DEF TypeOK, Retry
<1> QED
  BY <1>1, <1>3, <1>6, <1>8, <1>10 DEF Live

LEMMA StoreRetryTyped ==
  ASSUME TypeOK, NEW d \in Deliveries, StoreRetry(d)
  PROVE  TypeOK' /\ Moved(d, "ack")
<1>1. d \in Live
  BY DEF StoreRetry, At
<1>2. Moved(d, "ack")
  BY <1>1, LeaveMoves DEF StoreRetry
<1>3. status' \in [Jobs -> {"PENDING", "STARTED", "RETRY", "SUCCESS", "FAILURE"}]
  BY <1>1, LiveTyped, StoreTyped DEF StoreRetry
<1> QED
  BY <1>1, <1>2, <1>3, MovedSponsored DEF TypeOK, StoreRetry, Moved

LEMMA StoreFailureTyped ==
  ASSUME TypeOK, NEW d \in Deliveries, StoreFailure(d)
  PROVE  TypeOK' /\ Moved(d, "push")
<1>1. d \in Live
  BY DEF StoreFailure, At
<1>2. Moved(d, "push")
  BY <1>1, GotoMoves DEF StoreFailure
<1>3. status' \in [Jobs -> {"PENDING", "STARTED", "RETRY", "SUCCESS", "FAILURE"}]
  BY <1>1, LiveTyped, StoreTyped DEF StoreFailure
<1> QED
  BY <1>1, <1>2, <1>3, MovedSponsored DEF TypeOK, StoreFailure, Moved

LEMMA PushTyped ==
  ASSUME TypeOK, NEW d \in Deliveries, Push(d)
  PROVE  TypeOK' /\ Moved(d, "trim")
<1>1. d \in Live
  BY DEF Push, At
<1>2. Moved(d, "trim")
  BY <1>1, GotoMoves DEF Push
<1>3. dead_letter' \in Seq(Jobs) /\ pushed' \in Seq(Jobs)
  BY <1>1, LiveTyped DEF TypeOK, Push
<1>4. ended' \in [Jobs -> SUBSET {"success", "dead_letter", "lost"}]
  BY <1>1, LiveTyped DEF TypeOK, Push, End
<1> QED
  BY <1>1, <1>2, <1>3, <1>4, MovedSponsored DEF TypeOK, Push, Moved

LEMMA TrimTyped ==
  ASSUME TypeOK, NEW d \in Deliveries, Trim(d)
  PROVE  TypeOK' /\ Moved(d, "ack")
<1>1. d \in Live
  BY DEF Trim, At
<1>2. Moved(d, "ack")
  BY <1>1, LeaveMoves DEF Trim
<1>3. dead_letter' \in Seq(Jobs)
  BY SizesAssumption DEF TypeOK, Trim
<1> QED
  BY <1>1, <1>2, <1>3, MovedSponsored DEF TypeOK, Trim, Moved

LEMMA AckTyped ==
  ASSUME TypeOK, NEW d \in Deliveries, Ack(d)
  PROVE  /\ TypeOK'
         /\ \A e \in Live : e # d => e \in Live' /\ delivery'[e] = delivery[e]
<1>1. /\ delivery' \in [Deliveries -> Message \union {None}]
      /\ delivery'[d] = None
      /\ \A e \in Deliveries : e # d => delivery'[e] = delivery[e]
  BY DEF TypeOK, Ack
<1>2. \A e \in Live' : accepted'[delivery'[e].job] # None /\ Located(e)'
  <2> SUFFICES ASSUME NEW e \in Deliveries, delivery'[e] # None
               PROVE  accepted'[delivery'[e].job] # None /\ Located(e)'
    BY DEF Live
  <2> QED
    BY <1>1 DEF TypeOK, Ack, Live, Located
<1> QED
  BY <1>1, <1>2 DEF TypeOK, Ack, Live

LEMMA CrashTyped ==
  ASSUME TypeOK, NEW d \in Deliveries, Crash(d)
  PROVE  TypeOK' /\ Moved(d, "queued")
<1> DEFINE m == Queued(delivery[d].job, delivery[d].retries)
<1>1. d \in Live
  BY DEF Crash, Running
<1>2. m \in Message /\ m.job = delivery[d].job /\ m.retries = delivery[d].retries
      /\ m.pc = "queued"
  BY <1>1, LiveTyped, QueuedTyped DEF Message, Queued
<1>3. delivery' = [delivery EXCEPT ![d] = m]
  BY DEF Crash
<1> HIDE DEF m
<1>4. Moved(d, "queued")
  BY <1>1, <1>2, <1>3, Moving
<1>5. uncertain' \subseteq Jobs /\ faults' \in 0..MaxFaults
  BY <1>1, LiveTyped, SizesAssumption DEF TypeOK, Crash, Doubt, Fault
<1>6. copies' \in [Jobs -> Nat]
  BY <1>1, LiveTyped DEF TypeOK, Crash, Copy
<1> QED
  BY <1>1, <1>4, <1>5, <1>6, MovedSponsored DEF TypeOK, Crash, Moved

(* A repeated publication puts a copy of a message beside it.               *)
LEMMA RepublishTyped ==
  ASSUME TypeOK, NEW d \in Deliveries, Republish(d)
  PROVE  /\ TypeOK'
         /\ \A e \in Live : e \in Live' /\ delivery'[e] = delivery[e]
<1> DEFINE new == Queued(delivery[d].job, delivery[d].retries)
<1>1. d \in Live /\ delivery[d].job \in Jobs /\ accepted[delivery[d].job] # None
  BY LiveTyped DEF Republish, At, TypeOK
<1>2. /\ new \in Message /\ new # None /\ new.job = delivery[d].job
      /\ new.pc = "queued"
  BY <1>1, LiveTyped, QueuedTyped DEF Queued, Message
<1>3. NextFree \in Deliveries /\ delivery[NextFree] = None
  BY NextFreeIsFree DEF Republish
<1>4. delivery' = [delivery EXCEPT ![NextFree] = new]
  BY DEF Republish
<1> HIDE DEF new
<1>5. /\ delivery' \in [Deliveries -> Message \union {None}]
      /\ delivery'[NextFree] = new
      /\ \A e \in Deliveries : e # NextFree => delivery'[e] = delivery[e]
  BY <1>2, <1>3, <1>4 DEF TypeOK
<1>6. \A e \in Live : e \in Live' /\ delivery'[e] = delivery[e]
  BY <1>3, <1>5 DEF Live
<1>7. \A e \in Live' : accepted'[delivery'[e].job] # None /\ Located(e)'
  <2> SUFFICES ASSUME NEW e \in Deliveries, delivery'[e] # None
               PROVE  accepted'[delivery'[e].job] # None /\ Located(e)'
    BY DEF Live
  <2>1. CASE e = NextFree
    BY <1>1, <1>2, <1>5, <2>1 DEF Republish, Located
  <2>2. CASE e # NextFree
    BY <1>5, <2>2 DEF TypeOK, Live, Republish, Located
  <2> QED
    BY <2>1, <2>2
<1>8. faults' \in 0..MaxFaults /\ copies' \in [Jobs -> Nat]
  BY <1>1, SizesAssumption DEF TypeOK, Republish, Fault, Copy
<1> QED
  BY <1>5, <1>6, <1>7, <1>8 DEF TypeOK, Republish

LEMMA RedisErrorTyped ==
  ASSUME TypeOK, NEW d \in Deliveries, RedisError(d)
  PROVE  TypeOK' /\ Moved(d, "ack")
<1>1. d \in Live
  BY DEF RedisError
<1>2. Moved(d, "ack")
  BY <1>1, LeaveMoves DEF RedisError
<1>3. faults' \in 0..MaxFaults
  BY SizesAssumption DEF TypeOK, RedisError, Fault
<1>4. ended' \in [Jobs -> SUBSET {"success", "dead_letter", "lost"}]
  <2>1. delivery[d].job \in Jobs
    BY <1>1, LiveTyped
  <2>2. CASE UNCHANGED ended
    BY <2>2 DEF TypeOK
  <2>3. CASE End(d, "lost")
    BY <2>1, <2>3 DEF TypeOK, End
  <2> QED
    BY <2>2, <2>3 DEF RedisError
<1>5. \A e \in Live' : accepted'[delivery'[e].job] # None /\ Located(e)'
  BY <1>1, <1>2, MovedSponsored DEF RedisError
<1>6. delivery' \in [Deliveries -> Message \union {None}]
  BY <1>2 DEF Moved
<1>7. UNCHANGED <<accepted, tasks, status, result, lists, history>>
  BY DEF RedisError
<1> QED
  BY <1>2, <1>3, <1>4, <1>5, <1>6, <1>7 DEF TypeOK

LEMMA ExpireResultTyped ==
  ASSUME TypeOK, NEW j \in Jobs, ExpireResult(j)
  PROVE  TypeOK'
BY DEF TypeOK, ExpireResult, Live, Located

LEMMA StutterTyped == TypeOK /\ UNCHANGED vars => TypeOK'
BY DEF TypeOK, vars, Live, Located

LEMMA NextTypeOK == TypeOK /\ [Next]_vars => TypeOK'
<1> SUFFICES ASSUME TypeOK, [Next]_vars PROVE TypeOK'
  OBVIOUS
<1>1. ASSUME NEW j \in Jobs, NEW r \in Requests, Accept(j, r) PROVE TypeOK'
  BY <1>1, AcceptTyped
<1>2. ASSUME NEW d \in Deliveries, Progress(d) PROVE TypeOK'
  BY <1>2, StartTyped, SelectTyped, InsertTyped, UpdateTyped, DeleteTyped,
     RefreshTyped, StoreSuccessTyped, RetryTyped, StoreRetryTyped,
     StoreFailureTyped, PushTyped, TrimTyped, AckTyped DEF Progress
<1>3. ASSUME NEW d \in Deliveries,
             Republish(d) \/ DbError(d) \/ Crash(d) \/ RedisError(d)
      PROVE  TypeOK'
  BY <1>3, RepublishTyped, DbErrorTyped, CrashTyped, RedisErrorTyped
<1>4. ASSUME NEW j \in Jobs, ExpireResult(j) PROVE TypeOK'
  BY <1>4, ExpireResultTyped
<1>5. CASE Idle \/ UNCHANGED vars
  BY <1>5, StutterTyped DEF Idle
<1> QED
  BY <1>1, <1>2, <1>3, <1>4, <1>5 DEF Next

(* Every variable keeps its type, a message always belongs to an accepted   *)
(* job, and a run never asks the database for a row it has no id of.        *)
THEOREM TypeCorrect == Spec => []TypeOK
<1> QED
  BY InitTypeOK, NextTypeOK, PTL DEF Spec

--------------------------------------------------------------------------------
(* No accepted job vanishes. NothingVanishes speaks of jobs without a       *)
(* message, and is kept because some message of a job still owes its end:   *)
(* one that is past it (about to be acked, or only to note a retry that is  *)
(* published, or to trim after its push) does not count.                    *)
Owes(d, j) == /\ delivery[d].job = j
              /\ delivery[d].pc \notin {"ack", "storeRetry", "trim"}

Accounted ==
  \A j \in Jobs : accepted[j] # None => ended[j] # {} \/ \E d \in Live : Owes(d, j)

LEMMA AccountedSuffices == Accounted => NothingVanishes
BY DEF Accounted, NothingVanishes, Owes

LEMMA InitAccounted == Init => Accounted
BY DEF Init, Accounted

(* A message that goes to a label short of the end still owes it.           *)
LEMMA MovedOwing ==
  ASSUME TypeOK, Accounted, NEW d \in Live, NEW label, Moved(d, label),
         label \notin {"ack", "storeRetry", "trim"}, UNCHANGED <<accepted, ended>>
  PROVE  Accounted'
<1>1. ASSUME NEW j \in Jobs, NEW e \in Live, Owes(e, j) PROVE e \in Live' /\ Owes(e, j)'
  BY <1>1 DEF Moved, Owes, Live
<1> QED
  BY <1>1 DEF Accounted

(* A message may go to the end of its run once its job has an end, or when  *)
(* it owed none.                                                            *)
LEMMA MovedSettled ==
  ASSUME TypeOK, Accounted, NEW d \in Live, NEW label, Moved(d, label),
         UNCHANGED accepted,
         \A j \in Jobs : ended[j] \subseteq ended'[j],
         ended'[delivery[d].job] # {} \/ ~Owes(d, delivery[d].job)
  PROVE  Accounted'
<1> SUFFICES ASSUME NEW j \in Jobs, accepted[j] # None, ended'[j] = {}
             PROVE  \E e \in Live' : Owes(e, j)'
  BY DEF Accounted
<1>1. ended[j] = {}
  OBVIOUS
<1>2. PICK e \in Live : Owes(e, j)
  BY <1>1 DEF Accounted
<1>3. e # d
  BY <1>2 DEF Owes
<1>4. e \in Live' /\ Owes(e, j)'
  BY <1>2, <1>3 DEF Moved, Owes, Live
<1> QED
  BY <1>4

LEMMA AcceptAccounted ==
  ASSUME TypeOK, Accounted, NEW j \in Jobs, NEW r \in Requests, Accept(j, r)
  PROVE  Accounted'
<1>1. /\ Queued(j, 0) # None /\ Queued(j, 0).job = j /\ Queued(j, 0).pc = "queued"
  BY QueuedTyped, SizesAssumption DEF Queued
<1>2. NextFree \in Deliveries /\ delivery[NextFree] = None
  BY NextFreeIsFree DEF Accept
<1>3. delivery' = [delivery EXCEPT ![NextFree] = Queued(j, 0)]
  BY DEF Accept
<1>4. \E e \in Live' : Owes(e, j)'
  <2> PICK n \in Deliveries : n = NextFree
    BY <1>2
  <2>1. n \in Live' /\ Owes(n, j)'
    BY <1>1, <1>3 DEF TypeOK, Live, Owes
  <2> QED
    BY <2>1
<1>5. ASSUME NEW e \in Live PROVE e \in Live' /\ delivery'[e] = delivery[e]
  BY <1>2, <1>3 DEF TypeOK, Live
<1>6. ASSUME NEW i \in Jobs, i # j, accepted'[i] # None, ended'[i] = {}
      PROVE  \E e \in Live' : Owes(e, i)'
  BY <1>5, <1>6 DEF TypeOK, Accept, Accounted, Owes
<1> QED
  BY <1>4, <1>6 DEF Accounted

LEMMA RetryAccounted ==
  ASSUME TypeOK, Accounted, NEW d \in Deliveries, Retry(d)
  PROVE  Accounted'
<1> SUFFICES ASSUME NEW j \in Jobs, accepted[j] # None, ended[j] = {}
             PROVE  \E e \in Live' : Owes(e, j)'
  BY DEF Accounted, Retry
<1>1. PICK e \in Live : Owes(e, j)
  BY DEF Accounted
<1>2. CASE e = d
  <2> PICK n : n = NextFree
    OBVIOUS
  <2>1. n \in Live' /\ Owes(n, j)'
    BY <1>1, <1>2, RetryTyped DEF Owes
  <2> QED
    BY <2>1
<1>3. CASE e # d
  <2>1. e \in Live' /\ Owes(e, j)'
    BY <1>1, <1>3, RetryTyped DEF Owes
  <2> QED
    BY <2>1
<1> QED
  BY <1>2, <1>3

LEMMA RepublishAccounted ==
  ASSUME TypeOK, Accounted, NEW d \in Deliveries, Republish(d)
  PROVE  Accounted'
<1>1. \A e \in Live, j \in Jobs : Owes(e, j) => e \in Live' /\ Owes(e, j)'
  BY RepublishTyped DEF Owes
<1> QED
  BY <1>1 DEF Accounted, Republish

LEMMA AckAccounted ==
  ASSUME TypeOK, Accounted, NEW d \in Deliveries, Ack(d)
  PROVE  Accounted'
<1> SUFFICES ASSUME NEW j \in Jobs, accepted[j] # None, ended[j] = {}
             PROVE  \E e \in Live' : Owes(e, j)'
  BY DEF Accounted, Ack
<1>1. PICK e \in Live : Owes(e, j)
  BY DEF Accounted
<1>2. e # d
  BY <1>1 DEF Ack, At, Owes
<1>3. e \in Live' /\ Owes(e, j)'
  BY <1>1, <1>2, AckTyped DEF Owes
<1> QED
  BY <1>3

LEMMA StoreSuccessAccounted ==
  ASSUME TypeOK, Accounted, NEW d \in Deliveries, StoreSuccess(d)
  PROVE  Accounted'
<1>1. d \in Live /\ delivery[d].job \in Jobs
  BY LiveTyped DEF StoreSuccess, At
<1>2. Moved(d, "ack")
  BY StoreSuccessTyped
<1>3. ended'[delivery[d].job] # {} /\ \A j \in Jobs : ended[j] \subseteq ended'[j]
  BY <1>1 DEF TypeOK, StoreSuccess, End
<1> QED
  BY <1>1, <1>2, <1>3, MovedSettled DEF StoreSuccess

LEMMA PushAccounted ==
  ASSUME TypeOK, Accounted, NEW d \in Deliveries, Push(d)
  PROVE  Accounted'
<1>1. d \in Live /\ delivery[d].job \in Jobs
  BY LiveTyped DEF Push, At
<1>2. Moved(d, "trim")
  BY PushTyped
<1>3. ended'[delivery[d].job] # {} /\ \A j \in Jobs : ended[j] \subseteq ended'[j]
  BY <1>1 DEF TypeOK, Push, End
<1> QED
  BY <1>1, <1>2, <1>3, MovedSettled DEF Push

LEMMA StoreRetryAccounted ==
  ASSUME TypeOK, Accounted, NEW d \in Deliveries, StoreRetry(d)
  PROVE  Accounted'
<1>1. d \in Live /\ ~Owes(d, delivery[d].job)
  BY DEF StoreRetry, At, Owes
<1>2. Moved(d, "ack")
  BY StoreRetryTyped
<1> QED
  BY <1>1, <1>2, MovedSettled DEF StoreRetry

LEMMA TrimAccounted ==
  ASSUME TypeOK, Accounted, NEW d \in Deliveries, Trim(d)
  PROVE  Accounted'
<1>1. d \in Live /\ ~Owes(d, delivery[d].job)
  BY DEF Trim, At, Owes
<1>2. Moved(d, "ack")
  BY TrimTyped
<1> QED
  BY <1>1, <1>2, MovedSettled DEF Trim

LEMMA RedisErrorAccounted ==
  ASSUME TypeOK, Accounted, NEW d \in Deliveries, RedisError(d)
  PROVE  Accounted'
<1>1. d \in Live /\ delivery[d].job \in Jobs
  BY LiveTyped DEF RedisError
<1>2. Moved(d, "ack")
  BY RedisErrorTyped
<1>3. CASE delivery[d].pc \in {"storeRetry", "trim"}
  <2>1. ~Owes(d, delivery[d].job)
    BY <1>3 DEF Owes
  <2> QED
    BY <1>1, <1>2, <1>3, <2>1, MovedSettled DEF RedisError
<1>4. CASE delivery[d].pc \notin {"storeRetry", "trim"}
  <2>1. End(d, "lost")
    BY <1>4 DEF RedisError
  <2>2. ended'[delivery[d].job] # {} /\ \A j \in Jobs : ended[j] \subseteq ended'[j]
    BY <1>1, <2>1 DEF TypeOK, End
  <2> QED
    BY <1>1, <1>2, <2>2, MovedSettled DEF RedisError
<1> QED
  BY <1>3, <1>4

LEMMA RunAccounted ==
  ASSUME TypeOK, Accounted, NEW d \in Deliveries,
         \/ Start(d) \/ Select(d) \/ Insert(d) \/ Update(d) \/ Delete(d)
         \/ Refresh(d) \/ StoreFailure(d) \/ DbError(d) \/ Crash(d)
  PROVE  Accounted'
<1>1. /\ d \in Live
      /\ UNCHANGED <<accepted, ended>>
  BY DEF Start, Select, Insert, Update, Delete, Refresh, StoreFailure, DbError,
         Crash, At, Running
<1>2. \E label \in {"queued", "read", "write", "refresh", "store", "failed", "raised",
                    "push"} : Moved(d, label)
  BY StartTyped, SelectTyped, InsertTyped, UpdateTyped, DeleteTyped, RefreshTyped,
     StoreFailureTyped, DbErrorTyped, CrashTyped
<1> QED
  BY <1>1, <1>2, MovedOwing

LEMMA IdleAccounted ==
  ASSUME Accounted, UNCHANGED <<accepted, delivery, ended>>
  PROVE  Accounted'
BY DEF Accounted, Live, Owes

LEMMA NextAccounted == TypeOK /\ Accounted /\ [Next]_vars => Accounted'
<1> SUFFICES ASSUME TypeOK, Accounted, [Next]_vars PROVE Accounted'
  OBVIOUS
<1>1. ASSUME NEW j \in Jobs, NEW r \in Requests, Accept(j, r) PROVE Accounted'
  BY <1>1, AcceptAccounted
<1>2. ASSUME NEW d \in Deliveries, Progress(d) PROVE Accounted'
  BY <1>2, RunAccounted, StoreSuccessAccounted, RetryAccounted, StoreRetryAccounted,
     PushAccounted, TrimAccounted, AckAccounted DEF Progress
<1>3. ASSUME NEW d \in Deliveries,
             Republish(d) \/ DbError(d) \/ Crash(d) \/ RedisError(d)
      PROVE  Accounted'
  BY <1>3, RepublishAccounted, RunAccounted, RedisErrorAccounted
<1>4. ASSUME NEW j \in Jobs, ExpireResult(j) PROVE Accounted'
  BY <1>4, IdleAccounted DEF ExpireResult
<1>5. CASE Idle \/ UNCHANGED vars
  BY <1>5, IdleAccounted DEF Idle, vars
<1> QED
  BY <1>1, <1>2, <1>3, <1>4, <1>5 DEF Next

(* A job the API accepted never vanishes: when its last message is acked it *)
(* was reported a success, is a dead letter, or was lost to a Redis error   *)
(* while its end was being recorded.                                        *)
THEOREM NoJobVanishes == Spec => []NothingVanishes
<1>1. TypeOK /\ Accounted /\ [Next]_vars => TypeOK' /\ Accounted'
  BY NextTypeOK, NextAccounted
<1>2. Init => TypeOK /\ Accounted
  BY InitTypeOK, InitAccounted
<1> QED
  BY <1>1, <1>2, AccountedSuffices, PTL DEF Spec

--------------------------------------------------------------------------------
(* The dead letter list is bounded and loses only its oldest entries.        *)

Trimming == {d \in Live : At(d, "trim")}

LEMMA TrimmingFinite ==
  IsFiniteSet(Trimming) /\ Cardinality(Trimming) \in Nat
<1>1. Trimming \subseteq Deliveries
  BY DEF Trimming, Live
<1> QED
  BY <1>1, FS_Subset, FS_CardinalityType, SizesAssumption

LEMMA InitBounded == Init => DeadLetterBounded
<1> SUFFICES ASSUME Init PROVE DeadLetterBounded
  OBVIOUS
<1>1. Len(dead_letter) = 0 /\ faults = 0
  BY DEF Init
<1> QED
  BY <1>1, TrimmingFinite, SizesAssumption DEF DeadLetterBounded, Trimming

(* The bound holds on as long as the list does not grow and nobody leaves   *)
(* the place between push and trim without a fault.                         *)
LEMMA NoGrowth ==
  ASSUME TypeOK, TypeOK', DeadLetterBounded, UNCHANGED dead_letter,
         \/ Trimming \subseteq Trimming' /\ faults <= faults'
         \/ faults' = faults + 1 /\ \E d \in Deliveries : Trimming \ {d} \subseteq Trimming'
  PROVE  DeadLetterBounded'
<1>1. /\ IsFiniteSet(Trimming) /\ Cardinality(Trimming) \in Nat
      /\ IsFiniteSet(Trimming)' /\ Cardinality(Trimming)' \in Nat
  <2>1. Trimming' \subseteq Deliveries
    BY DEF Trimming, Live
  <2> QED
    BY <2>1, TrimmingFinite, FS_Subset, FS_CardinalityType, SizesAssumption
<1>2. /\ Len(dead_letter) \in Nat /\ faults \in Nat /\ faults' \in Nat
      /\ DeadLetterCap \in Nat /\ Len(dead_letter') = Len(dead_letter)
  BY SizesAssumption DEF TypeOK
<1>3. Len(dead_letter) <= DeadLetterCap + faults + Cardinality(Trimming)
  BY DEF DeadLetterBounded, Trimming
<1>4. Len(dead_letter') <= DeadLetterCap + faults' + Cardinality(Trimming')
  <2>1. CASE Trimming \subseteq Trimming' /\ faults <= faults'
    <3>1. Cardinality(Trimming) <= Cardinality(Trimming')
      BY <1>1, <2>1, FS_Subset
    <3> QED
      BY <1>1, <1>2, <1>3, <2>1, <3>1
  <2>2. ASSUME faults' = faults + 1, NEW d \in Deliveries, Trimming \ {d} \subseteq Trimming'
        PROVE  Len(dead_letter') <= DeadLetterCap + faults' + Cardinality(Trimming')
    <3>1. /\ IsFiniteSet(Trimming \ {d})
          /\ Cardinality(Trimming \ {d}) >= Cardinality(Trimming) - 1
          /\ Cardinality(Trimming \ {d}) \in Nat
      <4>1. /\ IsFiniteSet(Trimming \ {d})
            /\ Cardinality(Trimming \ {d}) =
                 IF d \in Trimming THEN Cardinality(Trimming) - 1 ELSE Cardinality(Trimming)
        BY <1>1, FS_RemoveElement
      <4>2. Cardinality(Trimming \ {d}) \in Nat
        BY <4>1, FS_CardinalityType
      <4> QED
        BY <1>1, <4>1, <4>2
    <3>2. Cardinality(Trimming \ {d}) <= Cardinality(Trimming')
      BY <1>1, <2>2, FS_Subset
    <3> QED
      BY <1>1, <1>2, <1>3, <2>2, <3>1, <3>2
  <2> QED
    BY <2>1, <2>2
<1> QED
  BY <1>4 DEF DeadLetterBounded, Trimming

(* Any message but one about to trim may move, be published or be acked.    *)
LEMMA QuietBounded ==
  ASSUME TypeOK, TypeOK', DeadLetterBounded, UNCHANGED dead_letter, faults <= faults',
         \A d \in Trimming : delivery'[d] = delivery[d]
  PROVE  DeadLetterBounded'
<1>1. Trimming \subseteq Trimming'
  BY DEF Trimming, Live, At
<1> QED
  BY <1>1, NoGrowth

LEMMA PushBounded ==
  ASSUME TypeOK, TypeOK', DeadLetterBounded, NEW d \in Deliveries, Push(d)
  PROVE  DeadLetterBounded'
<1>1. /\ d \in Live /\ delivery[d].pc = "push" /\ delivery[d].job \in Jobs
      /\ UNCHANGED faults /\ dead_letter' = <<delivery[d].job>> \o dead_letter
  BY LiveTyped DEF Push, At
<1>2. Len(dead_letter') = Len(dead_letter) + 1 /\ Len(dead_letter) \in Nat
  BY <1>1 DEF TypeOK
<1>3. Trimming \cup {d} = Trimming'
  <2>1. Moved(d, "trim")
    BY PushTyped
  <2> QED
    BY <1>1, <2>1 DEF TypeOK, Moved, Trimming, Live, At
<1>4. Cardinality(Trimming') = Cardinality(Trimming) + 1
  <2>1. d \notin Trimming
    BY <1>1 DEF Trimming, At
  <2> QED
    BY <1>3, <2>1, TrimmingFinite, FS_AddElement
<1>5. Len(dead_letter) <= DeadLetterCap + faults + Cardinality(Trimming)
  BY DEF DeadLetterBounded, Trimming
<1>6. Len(dead_letter') <= DeadLetterCap + faults' + Cardinality(Trimming')
  BY <1>1, <1>2, <1>4, <1>5, TrimmingFinite, SizesAssumption DEF TypeOK
<1> QED
  BY <1>6 DEF DeadLetterBounded, Trimming

LEMMA TrimBounded ==
  ASSUME TypeOK, TypeOK', NEW d \in Deliveries, Trim(d)
  PROVE  DeadLetterBounded'
<1>1. Len(dead_letter') <= DeadLetterCap
  BY SizesAssumption DEF TypeOK, Trim
<1>2. Cardinality(Trimming') \in Nat
  <2>1. Trimming' \subseteq Deliveries
    BY DEF Trimming, Live
  <2> QED
    BY <2>1, FS_Subset, FS_CardinalityType, SizesAssumption
<1>3. Len(dead_letter') <= DeadLetterCap + faults' + Cardinality(Trimming')
  BY <1>1, <1>2, SizesAssumption DEF TypeOK
<1> QED
  BY <1>3 DEF DeadLetterBounded, Trimming

(* A worker lost between push and trim leaves one entry too many, and a     *)
(* fault to account for it.                                                 *)
LEMMA FaultBounded ==
  ASSUME TypeOK, TypeOK', DeadLetterBounded, NEW d \in Deliveries,
         Crash(d) \/ RedisError(d)
  PROVE  DeadLetterBounded'
<1>1. faults' = faults + 1 /\ UNCHANGED dead_letter
  BY DEF Crash, RedisError, Fault
<1>2. \A e \in Deliveries : e # d => delivery'[e] = delivery[e]
  BY CrashTyped, RedisErrorTyped DEF Moved
<1>3. Trimming \ {d} \subseteq Trimming'
  BY <1>2 DEF Trimming, Live, At
<1> QED
  BY <1>1, <1>3, NoGrowth

LEMMA CommitFaults ==
  ASSUME TypeOK, NEW d, NEW t, NEW row, NEW next, Commit(d, t, row, next)
  PROVE  faults <= faults'
<1>1. faults' = faults \/ faults' = faults + 1
  BY DEF Commit, Fault
<1>2. faults \in Nat
  BY SizesAssumption DEF TypeOK
<1> QED
  BY <1>1, <1>2

LEMMA RunBounded ==
  ASSUME TypeOK, TypeOK', DeadLetterBounded, NEW d \in Deliveries,
         \/ Start(d) \/ Select(d) \/ Insert(d) \/ Update(d) \/ Delete(d) \/ Refresh(d)
         \/ StoreSuccess(d) \/ StoreRetry(d) \/ StoreFailure(d) \/ DbError(d)
  PROVE  DeadLetterBounded'
<1>1. d \notin Trimming /\ UNCHANGED dead_letter
  BY DEF Trimming, Start, Select, Insert, Update, Delete, Refresh, StoreSuccess,
         StoreRetry, StoreFailure, DbError, At
<1>2. \E label : Moved(d, label)
  BY StartTyped, SelectTyped, InsertTyped, UpdateTyped, DeleteTyped, RefreshTyped,
     StoreSuccessTyped, StoreRetryTyped, StoreFailureTyped, DbErrorTyped
<1>3. \A e \in Trimming : delivery'[e] = delivery[e]
  BY <1>1, <1>2 DEF Moved, Trimming, Live
<1>4. faults <= faults'
  <2>1. CASE Insert(d) \/ Update(d) \/ Delete(d)
    <3>1. UNCHANGED faults \/ \E t, row, next : Commit(d, t, row, next)
      BY <2>1 DEF Insert, Update, Delete
    <3> QED
      BY <3>1, CommitFaults DEF TypeOK
  <2>2. CASE \/ Start(d) \/ Select(d) \/ Refresh(d) \/ StoreSuccess(d) \/ StoreRetry(d)
             \/ StoreFailure(d) \/ DbError(d)
    <3>1. UNCHANGED faults
      BY <2>2 DEF Start, Select, Refresh, StoreSuccess, StoreRetry, StoreFailure, DbError
    <3> QED
      BY <3>1 DEF TypeOK
  <2> QED
    BY <2>1, <2>2
<1> QED
  BY <1>1, <1>3, <1>4, QuietBounded

LEMMA PassBounded ==
  ASSUME TypeOK, TypeOK', DeadLetterBounded, NEW d \in Deliveries, Retry(d) \/ Ack(d)
  PROVE  DeadLetterBounded'
<1>1. d \notin Trimming /\ UNCHANGED <<dead_letter, faults>>
  BY DEF Trimming, Retry, Ack, At
<1>2. \A e \in Live : e # d => delivery'[e] = delivery[e]
  BY RetryTyped, AckTyped
<1>3. \A e \in Trimming : delivery'[e] = delivery[e]
  BY <1>1, <1>2 DEF Trimming
<1>4. faults <= faults'
  BY <1>1 DEF TypeOK
<1> QED
  BY <1>1, <1>3, <1>4, QuietBounded

LEMMA AcceptBounded ==
  ASSUME TypeOK, TypeOK', DeadLetterBounded, NEW j \in Jobs, NEW r \in Requests, Accept(j, r)
  PROVE  DeadLetterBounded'
<1>1. PICK n : n = NextFree
  OBVIOUS
<1>2. /\ n \notin Live /\ UNCHANGED <<dead_letter, faults>>
      /\ delivery' = [delivery EXCEPT ![n] = Queued(j, 0)]
  BY <1>1, NextFreeIsFree DEF Accept, Live
<1>3. \A e \in Trimming : delivery'[e] = delivery[e]
  BY <1>2 DEF TypeOK, Trimming, Live
<1>4. faults <= faults'
  BY <1>2 DEF TypeOK
<1> QED
  BY <1>2, <1>3, <1>4, QuietBounded

LEMMA RepublishBounded ==
  ASSUME TypeOK, TypeOK', DeadLetterBounded, NEW d \in Deliveries, Republish(d)
  PROVE  DeadLetterBounded'
<1>1. faults' = faults + 1 /\ UNCHANGED dead_letter
  BY DEF Republish, Fault
<1>2. \A e \in Trimming : delivery'[e] = delivery[e]
  BY RepublishTyped DEF Trimming
<1>3. faults <= faults'
  BY <1>1 DEF TypeOK
<1> QED
  BY <1>1, <1>2, <1>3, QuietBounded

LEMMA NextBounded == TypeOK /\ DeadLetterBounded /\ [Next]_vars => DeadLetterBounded'
<1> SUFFICES ASSUME TypeOK, DeadLetterBounded, [Next]_vars PROVE DeadLetterBounded'
  OBVIOUS
<1>1. TypeOK'
  BY NextTypeOK
<1>2. ASSUME NEW j \in Jobs, NEW r \in Requests, Accept(j, r) PROVE DeadLetterBounded'
  BY <1>1, <1>2, AcceptBounded
<1>3. ASSUME NEW d \in Deliveries, Progress(d) PROVE DeadLetterBounded'
  BY <1>1, <1>3, RunBounded, PassBounded, PushBounded, TrimBounded DEF Progress
<1>4. ASSUME NEW d \in Deliveries,
             Republish(d) \/ DbError(d) \/ Crash(d) \/ RedisError(d)
      PROVE  DeadLetterBounded'
  BY <1>1, <1>4, RepublishBounded, RunBounded, FaultBounded
<1>5. CASE (\E j \in Jobs : ExpireResult(j)) \/ Idle \/ UNCHANGED vars
  <2>1. UNCHANGED <<dead_letter, delivery, faults>>
    BY <1>5 DEF ExpireResult, Idle, vars
  <2>2. faults <= faults'
    BY <2>1 DEF TypeOK
  <2> QED
    BY <1>1, <2>1, <2>2, QuietBounded
<1> QED
  BY <1>2, <1>3, <1>4, <1>5 DEF Next

(* The list never exceeds its cap by more than the workers between lpush    *)
(* and ltrim, and those that were lost there.                               *)
THEOREM DeadLettersBounded == Spec => []DeadLetterBounded
<1>1. TypeOK /\ DeadLetterBounded /\ [Next]_vars => TypeOK' /\ DeadLetterBounded'
  BY NextTypeOK, NextBounded
<1> QED
  BY <1>1, InitTypeOK, InitBounded, PTL DEF Spec

(* The list and the history of pushes: an entry goes in front of both, and   *)
(* a cut leaves a start of what was a start.                                 *)
LEMMA PushKeeps ==
  ASSUME TypeOK, NewestDeadLettersKept, NEW d \in Deliveries, Push(d)
  PROVE  NewestDeadLettersKept'
<1> DEFINE n == Len(dead_letter)
<1> PICK k : k = delivery[d].job
  OBVIOUS
<1>1. k \in Jobs /\ dead_letter' = <<k>> \o dead_letter /\ pushed' = <<k>> \o pushed
  BY LiveTyped DEF Push, At
<1>2. /\ n \in Nat /\ Len(pushed) \in Nat /\ n <= Len(pushed)
      /\ dead_letter \in Seq(Jobs) /\ pushed \in Seq(Jobs)
      /\ n < Len(pushed) => n >= DeadLetterCap
      /\ \A i \in 1..n : dead_letter[i] = pushed[i]
  BY DEF TypeOK, NewestDeadLettersKept
<1>3. /\ Len(dead_letter') = n + 1 /\ Len(pushed') = Len(pushed) + 1
      /\ dead_letter' \in Seq(Jobs) /\ pushed' \in Seq(Jobs)
  BY <1>1, <1>2
<1>4. \A i \in 1..(n + 1) : dead_letter'[i] = pushed'[i]
  <2> SUFFICES ASSUME NEW i \in 1..(n + 1) PROVE dead_letter'[i] = pushed'[i]
    OBVIOUS
  <2>1. CASE i = 1
    BY <1>1, <1>2, <2>1
  <2>2. CASE i # 1
    <3>1. dead_letter'[i] = dead_letter[i - 1] /\ pushed'[i] = pushed[i - 1]
      BY <1>1, <1>2, <2>2
    <3> QED
      BY <1>2, <2>2, <3>1
  <2> QED
    BY <2>1, <2>2
<1>5. dead_letter' = SubSeq(pushed', 1, n + 1)
  BY <1>2, <1>3, <1>4
<1>6. n + 1 < Len(pushed) + 1 => n + 1 >= DeadLetterCap
  BY <1>2, SizesAssumption
<1> QED
  BY <1>2, <1>3, <1>5, <1>6 DEF NewestDeadLettersKept

LEMMA TrimKeeps ==
  ASSUME TypeOK, NewestDeadLettersKept, NEW d \in Deliveries, Trim(d)
  PROVE  NewestDeadLettersKept'
<1> DEFINE n == Len(dead_letter)
<1>1. CASE n <= DeadLetterCap
  <2>1. UNCHANGED <<dead_letter, pushed>>
    BY <1>1, SizesAssumption DEF Trim, TypeOK
  <2> QED
    BY <2>1 DEF NewestDeadLettersKept
<1>2. CASE n > DeadLetterCap
  <2>1. dead_letter' = SubSeq(dead_letter, 1, DeadLetterCap) /\ UNCHANGED pushed
    BY <1>2 DEF Trim
  <2>2. /\ dead_letter = SubSeq(pushed, 1, n) /\ n <= Len(pushed)
        /\ pushed \in Seq(Jobs) /\ n \in Nat /\ DeadLetterCap \in Nat /\ Len(pushed) \in Nat
    BY SizesAssumption DEF TypeOK, NewestDeadLettersKept
  <2>3. dead_letter' = SubSeq(pushed, 1, DeadLetterCap) /\ Len(dead_letter') = DeadLetterCap
    BY <1>2, <2>1, <2>2
  <2> QED
    BY <1>2, <2>1, <2>2, <2>3 DEF NewestDeadLettersKept
<1> QED
  BY <1>1, <1>2, SizesAssumption DEF TypeOK

LEMMA NextKept ==
  TypeOK /\ NewestDeadLettersKept /\ [Next]_vars => NewestDeadLettersKept'
<1> SUFFICES ASSUME TypeOK, NewestDeadLettersKept, [Next]_vars
             PROVE  NewestDeadLettersKept'
  OBVIOUS
<1>1. CASE UNCHANGED lists
  BY <1>1 DEF NewestDeadLettersKept
<1>2. ASSUME ~ \E d \in Deliveries : Push(d) \/ Trim(d)
      PROVE  UNCHANGED lists
  BY <1>2 DEF Next, Progress, Accept, Republish, Start, Select, Insert, Update, Delete,
     Refresh, StoreSuccess, Retry, StoreRetry, StoreFailure, Ack, DbError, Crash,
     RedisError, ExpireResult, Idle, vars
<1> QED
  BY <1>1, <1>2, PushKeeps, TrimKeeps

LEMMA InitKept == Init => NewestDeadLettersKept
<1> SUFFICES ASSUME Init PROVE NewestDeadLettersKept
  OBVIOUS
<1>1. Len(dead_letter) = 0 /\ Len(pushed) = 0 /\ dead_letter = SubSeq(pushed, 1, 0)
  BY DEF Init
<1> QED
  BY <1>1 DEF NewestDeadLettersKept

(* The list holds the newest of all dead letters there ever were, in their  *)
(* order, and no fewer of them than its cap.                                *)
THEOREM DeadLettersKept == Spec => []NewestDeadLettersKept
<1>1. TypeOK /\ NewestDeadLettersKept /\ [Next]_vars => TypeOK' /\ NewestDeadLettersKept'
  BY NextTypeOK, NextKept
<1>2. Init => TypeOK /\ NewestDeadLettersKept
  BY InitTypeOK, InitKept
<1> QED
  BY <1>1, <1>2, PTL DEF Spec

--------------------------------------------------------------------------------
(* A failed job is listed. Between storing FAILURE and the entry its message *)
(* is on the way to the push, or was put back into the queue, and Start will *)
(* then take the failure back.                                               *)
OnItsWay(d, j) == delivery[d].job = j /\ delivery[d].pc \in {"queued", "push"}

Reported(j) ==
  Listed(j) \/ Len(dead_letter) >= DeadLetterCap \/ "lost" \in ended[j]

Recorded ==
  \A j \in Jobs : status[j] = "FAILURE" => Reported(j) \/ \E d \in Live : OnItsWay(d, j)

LEMMA InitRecorded == Init => Recorded
BY DEF Init, Recorded

LEMMA RecordedSuffices == Recorded => FailedJobsListed
BY DEF Recorded, Reported, OnItsWay, FailedJobsListed

(* A message may leave the queue or the way to the push when its job is not *)
(* shown as failed afterwards, or is reported.                              *)
LEMMA MovedRecorded ==
  ASSUME TypeOK, Recorded, NEW d \in Live, NEW label, Moved(d, label),
         \A j \in Jobs : Reported(j) => Reported(j)',
         \A j \in Jobs : status'[j] = "FAILURE" =>
           \/ Reported(j)'
           \/ j = delivery[d].job /\ label \in {"queued", "push"}
           \/ status[j] = "FAILURE" /\ ~OnItsWay(d, j)
  PROVE  Recorded'
<1> SUFFICES ASSUME NEW j \in Jobs, status'[j] = "FAILURE", ~Reported(j)'
             PROVE  \E e \in Live' : OnItsWay(e, j)'
  BY DEF Recorded
<1>1. \A e \in Live : e \in Live' /\ delivery'[e].job = delivery[e].job
  BY DEF Moved, Live
<1>2. \A e \in Live : e # d => delivery'[e] = delivery[e]
  BY DEF Moved, Live
<1>3. CASE j = delivery[d].job /\ label \in {"queued", "push"}
  BY <1>1, <1>3 DEF Moved, OnItsWay
<1>4. CASE status[j] = "FAILURE" /\ ~OnItsWay(d, j)
  <2>1. PICK e \in Live : OnItsWay(e, j)
    BY <1>4 DEF Recorded
  <2>2. e # d
    BY <1>4, <2>1
  <2>3. e \in Live' /\ OnItsWay(e, j)'
    BY <1>1, <1>2, <2>1, <2>2 DEF OnItsWay
  <2> QED
    BY <2>3
<1> QED
  BY <1>3, <1>4

(* Nothing is taken off the list but by Trim, and no loss is forgotten.     *)
LEMMA ReportStays ==
  ASSUME UNCHANGED dead_letter, \A j \in Jobs : ended[j] \subseteq ended'[j]
  PROVE  \A j \in Jobs : Reported(j) => Reported(j)'
BY DEF Reported, Listed

LEMMA EndedGrows ==
  ASSUME TypeOK, NEW d \in Live, UNCHANGED ended \/ \E how : End(d, how)
  PROVE  \A j \in Jobs : ended[j] \subseteq ended'[j]
<1>1. CASE UNCHANGED ended
  BY <1>1
<1>2. ASSUME NEW how, End(d, how)
      PROVE  \A j \in Jobs : ended[j] \subseteq ended'[j]
  BY <1>2 DEF TypeOK, End
<1> QED
  BY <1>1, <1>2

(* Storing a state leaves the states of the other jobs, and a job shown as  *)
(* failed afterwards was stored as failed.                                  *)
LEMMA StoreSpares ==
  ASSUME TypeOK, NEW k \in Jobs, NEW s \in {"STARTED", "RETRY", "SUCCESS", "FAILURE"},
         Store(k, s)
  PROVE  /\ \A j \in Jobs \ {k} : status'[j] = status[j]
         /\ status'[k] = "FAILURE" => s = "FAILURE"
BY DEF TypeOK, Store

(* A run that takes a message, ends well or asks for a retry replaces the   *)
(* state of its job.                                                        *)
LEMMA ReplacedRecorded ==
  ASSUME TypeOK, Recorded, NEW d \in Deliveries,
         Start(d) \/ StoreSuccess(d) \/ StoreRetry(d)
  PROVE  Recorded'
<1>1. d \in Live /\ delivery[d].job \in Jobs /\ UNCHANGED dead_letter
  BY LiveTyped DEF Start, StoreSuccess, StoreRetry, At
<1>2. PICK label : Moved(d, label)
  BY StartTyped, StoreSuccessTyped, StoreRetryTyped
<1>3. \E s \in {"STARTED", "SUCCESS", "RETRY"} : Store(delivery[d].job, s)
  BY DEF Start, StoreSuccess, StoreRetry
<1>4. \A j \in Jobs : status'[j] = "FAILURE" =>
        status[j] = "FAILURE" /\ j # delivery[d].job
  BY <1>1, <1>3, StoreSpares
<1>5. \A j \in Jobs : ended[j] \subseteq ended'[j]
  BY <1>1, EndedGrows DEF Start, StoreSuccess, StoreRetry
<1>6. \A j \in Jobs : j # delivery[d].job => ~OnItsWay(d, j)
  BY DEF OnItsWay
<1>7. \A j \in Jobs : Reported(j) => Reported(j)'
  BY <1>1, <1>5, ReportStays
<1> QED
  BY <1>1, <1>2, <1>4, <1>6, <1>7, MovedRecorded

(* A run on its way through the job stores nothing.                         *)
LEMMA RunRecorded ==
  ASSUME TypeOK, Recorded, NEW d \in Deliveries,
         \/ Select(d) \/ Insert(d) \/ Update(d) \/ Delete(d) \/ Refresh(d)
         \/ DbError(d) \/ Crash(d)
  PROVE  Recorded'
<1>1. d \in Live /\ delivery[d].job \in Jobs /\ UNCHANGED <<dead_letter, status, ended>>
  BY LiveTyped DEF Select, Insert, Update, Delete, Refresh, DbError, Crash, At, Running
<1>2. \A j \in Jobs : Reported(j) => Reported(j)'
  BY <1>1, ReportStays
<1>3. CASE Crash(d)
  <2>1. Moved(d, "queued")
    BY <1>3, CrashTyped
  <2>2. \A j \in Jobs : OnItsWay(d, j) => j = delivery[d].job
    BY DEF OnItsWay
  <2> QED
    BY <1>1, <1>2, <2>1, <2>2, MovedRecorded
<1>4. CASE \/ Select(d) \/ Insert(d) \/ Update(d) \/ Delete(d) \/ Refresh(d)
           \/ DbError(d)
  <2>1. \A j \in Jobs : ~OnItsWay(d, j)
    BY <1>4 DEF OnItsWay, Select, Insert, Update, Delete, Refresh, DbError, At
  <2>2. PICK label : Moved(d, label)
    BY <1>4, SelectTyped, InsertTyped, UpdateTyped, DeleteTyped, RefreshTyped, DbErrorTyped
  <2> QED
    BY <1>1, <1>2, <2>1, <2>2, MovedRecorded
<1> QED
  BY <1>3, <1>4

(* The run that stores FAILURE is the one that goes on to push.             *)
LEMMA StoreFailureRecorded ==
  ASSUME TypeOK, Recorded, NEW d \in Deliveries, StoreFailure(d)
  PROVE  Recorded'
<1>1. d \in Live /\ delivery[d].job \in Jobs /\ delivery[d].pc \in {"failed", "raised"}
      /\ UNCHANGED <<dead_letter, ended>>
  BY LiveTyped DEF StoreFailure, At
<1>2. Moved(d, "push")
  BY StoreFailureTyped
<1>3. \A j \in Jobs \ {delivery[d].job} : status'[j] = status[j]
  BY <1>1, StoreSpares DEF StoreFailure
<1>4. \A j \in Jobs : ~OnItsWay(d, j)
  BY <1>1 DEF OnItsWay
<1>5. \A j \in Jobs : Reported(j) => Reported(j)'
  BY <1>1, ReportStays
<1> QED
  BY <1>1, <1>2, <1>3, <1>4, <1>5, MovedRecorded

(* Push reports its job; the list only grows.                               *)
LEMMA PushRecorded ==
  ASSUME TypeOK, Recorded, NEW d \in Deliveries, Push(d)
  PROVE  Recorded'
<1> PICK k : k = delivery[d].job
  OBVIOUS
<1>1. /\ d \in Live /\ k \in Jobs /\ UNCHANGED status
      /\ dead_letter' = <<k>> \o dead_letter
  BY LiveTyped DEF Push, At
<1>2. Moved(d, "trim")
  BY PushTyped
<1>3. /\ Len(dead_letter) \in Nat /\ Len(dead_letter') = Len(dead_letter) + 1
      /\ dead_letter'[1] = k
      /\ \A i \in 1..Len(dead_letter) : dead_letter'[i + 1] = dead_letter[i]
  BY <1>1 DEF TypeOK
<1>4. Listed(k)'
  BY <1>3 DEF Listed
<1>5. \A j \in Jobs : Listed(j) => Listed(j)'
  <2> SUFFICES ASSUME NEW j, NEW i \in 1..Len(dead_letter), dead_letter[i] = j
               PROVE  \E m \in 1..Len(dead_letter') : dead_letter'[m] = j
    BY DEF Listed
  <2>1. i + 1 \in 1..Len(dead_letter')
    BY <1>3
  <2> QED
    BY <1>3, <2>1
<1>6. \A j \in Jobs : ended[j] \subseteq ended'[j]
  BY <1>1, EndedGrows DEF Push
<1>7. Len(dead_letter) >= DeadLetterCap => Len(dead_letter') >= DeadLetterCap
  BY <1>3, SizesAssumption
<1>8. \A j \in Jobs : Reported(j) => Reported(j)'
  BY <1>5, <1>6, <1>7 DEF Reported
<1>9. Reported(k)'
  BY <1>4 DEF Reported
<1>10. \A j \in Jobs : j # k => ~OnItsWay(d, j)
  BY DEF OnItsWay
<1> QED
  BY <1>1, <1>2, <1>8, <1>9, <1>10, MovedRecorded

(* Trim leaves a full list, or the list as it was.                          *)
LEMMA TrimRecorded ==
  ASSUME TypeOK, Recorded, NEW d \in Deliveries, Trim(d)
  PROVE  Recorded'
<1>1. d \in Live /\ delivery[d].pc = "trim" /\ UNCHANGED <<status, ended>>
  BY DEF Trim, At
<1>2. Moved(d, "ack")
  BY TrimTyped
<1>3. UNCHANGED dead_letter \/ Len(dead_letter') >= DeadLetterCap
  BY SizesAssumption DEF TypeOK, Trim
<1>4. \A j \in Jobs : Reported(j) => Reported(j)'
  BY <1>1, <1>3, ReportStays DEF Reported
<1>5. \A j \in Jobs : ~OnItsWay(d, j)
  BY <1>1 DEF OnItsWay
<1> QED
  BY <1>1, <1>2, <1>4, <1>5, MovedRecorded

(* A Redis error takes a message off its way, and is then on record.        *)
LEMMA RedisErrorRecorded ==
  ASSUME TypeOK, Recorded, NEW d \in Deliveries, RedisError(d)
  PROVE  Recorded'
<1>1. d \in Live /\ delivery[d].job \in Jobs /\ UNCHANGED <<dead_letter, status>>
  BY LiveTyped DEF RedisError
<1>2. Moved(d, "ack")
  BY RedisErrorTyped
<1>3. UNCHANGED ended \/ End(d, "lost")
  BY DEF RedisError
<1>4. \A j \in Jobs : ended[j] \subseteq ended'[j]
  BY <1>1, <1>3, EndedGrows
<1>5. \A j \in Jobs : Reported(j) => Reported(j)'
  BY <1>1, <1>4, ReportStays
<1>6. \A j \in Jobs : OnItsWay(d, j) => Reported(j)'
  <2> SUFFICES ASSUME NEW j \in Jobs, OnItsWay(d, j) PROVE Reported(j)'
    OBVIOUS
  <2>1. j = delivery[d].job /\ End(d, "lost")
    BY DEF OnItsWay, RedisError
  <2>2. "lost" \in ended'[j]
    BY <1>1, <2>1 DEF TypeOK, End
  <2> QED
    BY <2>2 DEF Reported
<1> QED
  BY <1>1, <1>2, <1>5, <1>6, MovedRecorded

(* A new message, an acked one and a forgotten result take nothing away.    *)
LEMMA PassRecorded ==
  ASSUME TypeOK, Recorded, UNCHANGED <<dead_letter, ended>>,
         \A j \in Jobs : status'[j] = "FAILURE" => status[j] = "FAILURE",
         \A d \in Live : delivery[d].pc \in {"queued", "push"} =>
                           d \in Live' /\ delivery'[d] = delivery[d]
  PROVE  Recorded'
<1>1. \A j \in Jobs : Reported(j) => Reported(j)'
  BY ReportStays
<1>2. \A j \in Jobs, d \in Live : OnItsWay(d, j) => d \in Live' /\ OnItsWay(d, j)'
  BY DEF OnItsWay
<1> QED
  BY <1>1, <1>2 DEF Recorded

LEMMA QueueRecorded ==
  ASSUME TypeOK, Recorded, NEW d \in Deliveries, Retry(d) \/ Ack(d)
  PROVE  Recorded'
<1>1. d \in Live /\ delivery[d].pc \notin {"queued", "push"}
      /\ UNCHANGED <<dead_letter, ended, status>>
  BY DEF Retry, Ack, At
<1>2. \A e \in Live : e # d => e \in Live' /\ delivery'[e] = delivery[e]
  BY RetryTyped, AckTyped
<1> QED
  BY <1>1, <1>2, PassRecorded

LEMMA AcceptRecorded ==
  ASSUME TypeOK, Recorded, NEW j \in Jobs, NEW r \in Requests, Accept(j, r)
  PROVE  Recorded'
<1>1. PICK n : n = NextFree
  OBVIOUS
<1>2. /\ n \notin Live /\ UNCHANGED <<dead_letter, ended, status>>
      /\ delivery' = [delivery EXCEPT ![n] = Queued(j, 0)]
  BY <1>1, NextFreeIsFree DEF Accept, Live
<1>3. \A e \in Live : e \in Live' /\ delivery'[e] = delivery[e]
  BY <1>2 DEF TypeOK, Live
<1> QED
  BY <1>2, <1>3, PassRecorded

LEMMA RepublishRecorded ==
  ASSUME TypeOK, Recorded, NEW d \in Deliveries, Republish(d)
  PROVE  Recorded'
<1>1. UNCHANGED <<dead_letter, ended, status>>
  BY DEF Republish
<1> QED
  BY <1>1, RepublishTyped, PassRecorded

LEMMA NextRecorded == TypeOK /\ Recorded /\ [Next]_vars => Recorded'
<1> SUFFICES ASSUME TypeOK, Recorded, [Next]_vars PROVE Recorded'
  OBVIOUS
<1>1. ASSUME NEW j \in Jobs, NEW r \in Requests, Accept(j, r) PROVE Recorded'
  BY <1>1, AcceptRecorded
<1>2. ASSUME NEW d \in Deliveries, Progress(d) PROVE Recorded'
  BY <1>2, ReplacedRecorded, RunRecorded, StoreFailureRecorded, PushRecorded,
     TrimRecorded, QueueRecorded DEF Progress
<1>3. ASSUME NEW d \in Deliveries,
             Republish(d) \/ DbError(d) \/ Crash(d) \/ RedisError(d)
      PROVE  Recorded'
  BY <1>3, RepublishRecorded, RunRecorded, RedisErrorRecorded
<1>4. CASE (\E j \in Jobs : ExpireResult(j)) \/ Idle \/ UNCHANGED vars
  <2>1. UNCHANGED <<dead_letter, ended, delivery>>
    BY <1>4 DEF ExpireResult, Idle, vars
  <2>2. \A j \in Jobs : status'[j] = "FAILURE" => status[j] = "FAILURE"
    BY <1>4 DEF TypeOK, ExpireResult, Idle, vars
  <2>3. Live' = Live
    BY <2>1 DEF Live
  <2> QED
    BY <2>1, <2>2, <2>3, PassRecorded
<1> QED
  BY <1>1, <1>2, <1>3, <1>4 DEF Next

(* A job shown as failed whose messages are all gone is in the dead letter  *)
(* list, unless the list is full or a Redis error is on record for it.      *)
THEOREM FailedJobsAreListed == Spec => []FailedJobsListed
<1>1. TypeOK /\ Recorded /\ [Next]_vars => TypeOK' /\ Recorded'
  BY NextTypeOK, NextRecorded
<1>2. Init => TypeOK /\ Recorded
  BY InitTypeOK, InitRecorded
<1> QED
  BY <1>1, <1>2, RecordedSuffices, PTL DEF Spec

================================================================================
