------------------------------ MODULE LedgerProofs ------------------------------
(***************************************************************************)
(* The job pipeline implements the safety part of TaskLedger, for every    *)
(* value of its constants.                                                 *)
(***************************************************************************)
EXTENDS JobLedger, JobRowProofs, JobOnceProofs

USE DEF lists, history

Done == {j \in Jobs : applied[j] > 0}
InDoubt == uncertain \union {j \in Jobs : copies[j] > 0}

(* A commit uses up the token of its message. A job that was done before,   *)
(* and has a token left, is uncertain or had its message copied.            *)
LEMMA CommitMarks ==
  ASSUME TypeOK, Once, NEW d \in Live, delivery[d].pc = "write",
         NEW t, NEW row, NEW next, Commit(d, t, row, next), UNCHANGED copies
  PROVE  LET k == delivery[d].job
         IN  /\ k \in Done => k \in InDoubt
             /\ Done' = Done \union {k}
             /\ InDoubt' \in {InDoubt, InDoubt \union {k}}
<1> PICK k : k = delivery[d].job
  OBVIOUS
<1>1. k \in Jobs /\ applied[k] \in Nat /\ copies[k] \in Nat
  BY LiveTyped DEF TypeOK
<1>2. ASSUME k \in Done, k \notin uncertain PROVE copies[k] > 0
  <2>1. d \in Holders(k)
    BY DEF Once, Shape, Holders
  <2>2. Cardinality({}) + 1 <= Cardinality(Holders(k)) /\ Cardinality({}) = 0
    BY <2>1, HoldersFinite, OneLess, FS_EmptySet
  <2> QED
    BY <1>1, <1>2, <2>2, HoldersFinite DEF Done, Once, OnceFor
<1>3. applied \in [Jobs -> Nat] /\ applied' = [applied EXCEPT ![k] = @ + 1]
  BY DEF TypeOK, Commit
<1>4. applied'[k] = applied[k] + 1 /\ \A j \in Jobs \ {k} : applied'[j] = applied[j]
  BY <1>1, <1>3
<1>5. Done' = Done \union {k}
  BY <1>1, <1>3, <1>4 DEF Done
<1>6. uncertain' \in {uncertain, uncertain \union {k}}
  BY DEF Commit
<1>7. InDoubt' \in {InDoubt, InDoubt \union {k}}
  BY <1>6 DEF InDoubt
<1> QED
  BY <1>1, <1>2, <1>5, <1>7 DEF InDoubt

LEMMA InsertApplies ==
  ASSUME TypeOK, Owned, Once, NEW d \in Deliveries, Insert(d)
  PROVE  \E k \in Jobs : Ledger!Apply(k)
<1>0. d \in Live
  BY DEF Insert, At
<1>k. PICK k \in Jobs : k = delivery[d].job
  BY <1>0, LiveTyped
<1> DEFINE r == accepted[k]
           new == [owner_id |-> r.owner_id, title |-> r.title, is_done |-> FALSE]
<1>1. d \in Live /\ delivery[d].pc = "write" /\ r.kind = "create" /\ r # None
  BY <1>k DEF Insert, At, TypeOK
<1>2. Commit(d, FreshId, new, "refresh") /\ UNCHANGED <<accepted, ended, copies>>
      /\ creator' = [creator EXCEPT ![FreshId] = k]
  BY <1>k DEF Insert
<1>3. FreshId \in TaskIds /\ FreshId \notin Minted
  BY DEF Insert, FreshId
<1>4. k # None
  BY NoneAssumption
<1>5. Minted' = Minted \union {FreshId}
  BY <1>2, <1>3, <1>4 DEF TypeOK, Minted
<1>6. tasks' = [tasks EXCEPT ![FreshId] = new]
  BY <1>2 DEF Commit
<1>7. Ledger!Created(r, FreshId)
  BY <1>1, <1>3, <1>5, <1>6 DEF Ledger!Created
<1> QED
  BY <1>k, <1>1, <1>2, <1>3, <1>7, CommitMarks DEF Ledger!Apply, Done, InDoubt

(* The owner the SELECT found still owns the row, if it is still there.      *)
LEMMA UpdateApplies ==
  ASSUME TypeOK, Owned, Once, NEW d \in Deliveries, Update(d)
  PROVE  (\E k \in Jobs : Ledger!Apply(k)) \/ UNCHANGED Ledger!vars
<1>0. d \in Live
  BY DEF Update, At
<1>k. PICK k \in Jobs : k = delivery[d].job
  BY <1>0, LiveTyped
<1> DEFINE r == accepted[k]
           t == r.task_id
           seen == delivery[d].seen
           new == Written(r, seen, tasks[t])
<1>1. d \in Live /\ delivery[d].pc = "write" /\ r.kind = "update" /\ r # None
  BY <1>k DEF Update, At, TypeOK
<1>2. UNCHANGED <<accepted, ended, creator, copies>>
  BY DEF Update
<1>3. Minted' = Minted
  BY <1>2 DEF Minted
<1>4. CASE UNCHANGED <<tasks, applied, uncertain, faults>>
  BY <1>2, <1>3, <1>4 DEF Ledger!vars
<1>5. CASE tasks[t] # None /\ Commit(d, t, new, "refresh")
  <2>1. t \in TaskIds /\ tasks[t].owner_id = r.owner_id
    BY <1>k, <1>1, <1>5 DEF TypeOK, Located, Owned, Theirs
  <2>2. tasks[t] \in Row /\ None \notin BOOLEAN /\ None \notin Titles
    BY <1>5, <2>1, NoneAssumption DEF TypeOK
  <2>3. PICK title \in {tasks[t].title, r.title} \ {None},
             is_done \in {tasks[t].is_done, r.is_done} \ {None} :
          new = [tasks[t] EXCEPT !.title = title, !.is_done = is_done]
    <3> DEFINE title == IF r.title \in {None, seen.title} THEN tasks[t].title ELSE r.title
               is_done == IF r.is_done \in {None, seen.is_done} THEN tasks[t].is_done
                          ELSE r.is_done
    <3>1. title \in {tasks[t].title, r.title} \ {None}
      BY <2>2 DEF Row
    <3>2. is_done \in {tasks[t].is_done, r.is_done} \ {None}
      BY <2>2 DEF Row
    <3>3. new = [tasks[t] EXCEPT !.title = title, !.is_done = is_done]
      BY <2>2 DEF Written, Row
    <3> QED
      BY <3>1, <3>2, <3>3
  <2> HIDE DEF new
  <2>4. tasks' = [tasks EXCEPT ![t] = new]
    BY <1>5 DEF Commit
  <2>5. Ledger!Updated(r, t)
    BY <1>1, <1>3, <1>5, <2>1, <2>3, <2>4 DEF Ledger!Updated
  <2> QED
    BY <1>k, <1>1, <1>2, <1>5, <2>1, <2>5, CommitMarks DEF Ledger!Apply, Done, InDoubt
<1> QED
  BY <1>k, <1>4, <1>5 DEF Update

LEMMA DeleteApplies ==
  ASSUME TypeOK, Owned, Once, NEW d \in Deliveries, Delete(d)
  PROVE  (\E k \in Jobs : Ledger!Apply(k)) \/ UNCHANGED Ledger!vars
<1>0. d \in Live
  BY DEF Delete, At
<1>k. PICK k \in Jobs : k = delivery[d].job
  BY <1>0, LiveTyped
<1> DEFINE r == accepted[k]
           t == r.task_id
<1>1. d \in Live /\ delivery[d].pc = "write" /\ r.kind = "delete" /\ r # None
  BY <1>k DEF Delete, At, TypeOK
<1>2. UNCHANGED <<accepted, ended, creator, copies>>
  BY DEF Delete
<1>3. Minted' = Minted
  BY <1>2 DEF Minted
<1>4. CASE UNCHANGED <<tasks, applied, uncertain, faults>>
  BY <1>2, <1>3, <1>4 DEF Ledger!vars
<1>5. CASE tasks[t] # None /\ Commit(d, t, None, "store")
  <2>1. t \in TaskIds /\ tasks[t].owner_id = r.owner_id
    BY <1>k, <1>1, <1>5 DEF TypeOK, Located, Owned, Theirs
  <2>2. tasks' = [tasks EXCEPT ![t] = None]
    BY <1>5 DEF Commit
  <2>3. Ledger!Deleted(r, t)
    BY <1>1, <1>3, <1>5, <2>1, <2>2 DEF Ledger!Deleted
  <2> QED
    BY <1>k, <1>1, <1>2, <1>5, <2>1, <2>3, CommitMarks DEF Ledger!Apply, Done, InDoubt
<1> QED
  BY <1>k, <1>4, <1>5 DEF Delete

--------------------------------------------------------------------------------
(* A run that fails or is lost, or a message that is copied, puts its job   *)
(* in doubt, or does not show.                                              *)
LEMMA DoubtDoubts ==
  ASSUME TypeOK, NEW d \in Live, Doubt(d) \/ UNCHANGED uncertain,
         Copy(d) \/ UNCHANGED copies,
         UNCHANGED <<accepted, tasks, creator, applied, ended>>
  PROVE  (\E k \in Jobs : Ledger!Doubt(k)) \/ UNCHANGED Ledger!vars
<1>k. PICK k \in Jobs : k = delivery[d].job
  BY LiveTyped
<1>1. accepted[k] # None
  BY <1>k DEF TypeOK
<1>2. UNCHANGED Minted
  BY DEF Minted
<1>3. uncertain' \in {uncertain, uncertain \union {k}}
  BY <1>k DEF Doubt
<1>4. /\ copies'[k] = copies[k] \/ copies'[k] > 0
      /\ \A j \in Jobs \ {k} : copies'[j] = copies[j]
  BY <1>k DEF TypeOK, Copy
<1>5. InDoubt' \in {InDoubt, InDoubt \union {k}}
  <2>1. \A j : j \in InDoubt' => j \in InDoubt \union {k}
    BY <1>3, <1>4 DEF InDoubt
  <2>2. \A j : j \in InDoubt => j \in InDoubt'
    BY <1>3, <1>4 DEF InDoubt
  <2> QED
    BY <2>1, <2>2
<1>6. CASE InDoubt' = InDoubt
  BY <1>2, <1>6 DEF Ledger!vars, InDoubt
<1>7. CASE InDoubt' = InDoubt \union {k}
  BY <1>1, <1>2, <1>7 DEF Ledger!Doubt, InDoubt
<1> QED
  BY <1>5, <1>6, <1>7

(* A job that is brought to an end is settled.                               *)
LEMMA EndSettles ==
  ASSUME TypeOK, NEW d \in Live, NEW how \in {"success", "dead_letter", "lost"},
         End(d, how), UNCHANGED <<accepted, tasks, creator, applied, uncertain, copies>>
  PROVE  \E k \in Jobs : Ledger!Settle(k)
<1>k. PICK k \in Jobs : k = delivery[d].job
  BY LiveTyped
<1>1. accepted[k] # None
  BY <1>k DEF TypeOK
<1>2. UNCHANGED Minted
  BY DEF Minted
<1> QED
  BY <1>k, <1>1, <1>2 DEF End, Ledger!Settle

LEMMA HiddenStep ==
  ASSUME UNCHANGED <<accepted, tasks, creator, applied, uncertain, copies, ended>>
  PROVE  UNCHANGED Ledger!vars
<1>1. UNCHANGED Minted
  BY DEF Minted
<1> QED
  BY <1>1 DEF Ledger!vars

LEMMA StepImplements ==
  TypeOK /\ Owned /\ Once /\ [Next]_vars => [Ledger!Next]_(Ledger!vars)
<1> DEFINE Visible == [Ledger!Next]_(Ledger!vars)
<1> SUFFICES ASSUME TypeOK, Owned, Once, [Next]_vars PROVE Visible
  OBVIOUS
<1>1. ASSUME NEW j \in Jobs, NEW r \in Requests, Accept(j, r) PROVE Visible
  <2>1. UNCHANGED Minted
    BY <1>1 DEF Accept, Minted
  <2>2. Ledger!Ask(j)
    BY <1>1, <2>1 DEF Accept, Ledger!Ask
  <2> QED
    BY <2>2 DEF Ledger!Next
<1>2. ASSUME \/ \E k \in Jobs : Ledger!Apply(k) \/ Ledger!Doubt(k) \/ Ledger!Settle(k)
             \/ UNCHANGED Ledger!vars
      PROVE  Visible
  BY <1>2 DEF Ledger!Next
<1>3. ASSUME NEW d \in Deliveries, Insert(d) \/ Update(d) \/ Delete(d) PROVE Visible
  BY <1>2, <1>3, InsertApplies, UpdateApplies, DeleteApplies
<1>4. ASSUME NEW d \in Deliveries, Refresh(d) \/ DbError(d) \/ Crash(d) \/ Republish(d)
      PROVE  Visible
  <2>1. d \in Live /\ UNCHANGED <<accepted, tasks, creator, applied, ended>>
    BY <1>4 DEF Refresh, DbError, Crash, Republish, At, Running
  <2>2. (UNCHANGED uncertain \/ Doubt(d)) /\ (UNCHANGED copies \/ Copy(d))
    BY <1>4 DEF Refresh, DbError, Crash, Republish
  <2>3. (\E k \in Jobs : Ledger!Doubt(k)) \/ UNCHANGED Ledger!vars
    BY <2>1, <2>2, DoubtDoubts
  <2> QED
    BY <1>2, <2>3
<1>5. ASSUME NEW d \in Deliveries, StoreSuccess(d) \/ Push(d) \/ RedisError(d) PROVE Visible
  <2>1. d \in Live /\ UNCHANGED <<accepted, tasks, creator, applied, uncertain, copies>>
    BY <1>5 DEF StoreSuccess, Push, RedisError, At
  <2>2. UNCHANGED ended \/ \E how \in {"success", "dead_letter", "lost"} : End(d, how)
    BY <1>5 DEF StoreSuccess, Push, RedisError
  <2>3. (\E k \in Jobs : Ledger!Settle(k)) \/ UNCHANGED Ledger!vars
    BY <2>1, <2>2, EndSettles, HiddenStep
  <2> QED
    BY <1>2, <2>3
<1>6. ASSUME UNCHANGED <<accepted, tasks, creator, applied, uncertain, copies, ended>> PROVE Visible
  BY <1>6, HiddenStep
<1> HIDE DEF Visible
<1>7. ASSUME NEW d \in Deliveries, Progress(d) PROVE Visible
  <2>1. CASE \/ Start(d) \/ Select(d) \/ Retry(d) \/ StoreRetry(d) \/ StoreFailure(d)
             \/ Trim(d) \/ Ack(d)
    <3>1. UNCHANGED <<accepted, tasks, creator, applied, uncertain, copies, ended>>
      BY <2>1 DEF Start, Select, Retry, StoreRetry, StoreFailure, Trim, Ack
    <3> QED
      BY <1>6, <3>1
  <2> QED
    BY <1>3, <1>4, <1>5, <1>7, <2>1 DEF Progress
<1>8. CASE (\E j \in Jobs : ExpireResult(j)) \/ Idle \/ UNCHANGED vars
  <2>1. UNCHANGED <<accepted, tasks, creator, applied, uncertain, copies, ended>>
    BY <1>8 DEF ExpireResult, Idle, vars
  <2> QED
    BY <1>6, <2>1
<1> QED
  BY <1>1, <1>4, <1>5, <1>7, <1>8 DEF Next

LEMMA InitImplements == Init => Ledger!Init
<1> SUFFICES ASSUME Init PROVE Ledger!Init
  OBVIOUS
<1>1. Minted = DOMAIN InitialRows
  BY DEF Init, Minted
<1>2. Done = {} /\ InDoubt = {}
  BY DEF Init, Done, InDoubt
<1> QED
  BY <1>1, <1>2 DEF Init, Ledger!Init, Done, InDoubt

(* Every behaviour of the workers, with any number of jobs, retries, errors *)
(* and crashes, is one of the ledger: each commit is one change of it, made *)
(* for its own job on a row its user owns, and no job that is not in doubt  *)
(* is applied a second time.                                                *)
THEOREM PipelineImplementsLedger == Spec => ImplementsLedger
<1>1. TypeOK /\ Owned /\ Once /\ [Next]_vars => TypeOK' /\ Owned' /\ Once'
  BY NextTypeOK, NextOwned, NextOnce
<1>2. Init => TypeOK /\ Owned /\ Once
  BY InitTypeOK, InitOwned, InitOnce
<1> QED
  BY <1>1, <1>2, InitImplements, StepImplements, PTL
  DEF Spec, ImplementsLedger, Ledger!Safe

================================================================================
