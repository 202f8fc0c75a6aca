----------------------------- MODULE JobOnceProofs -----------------------------
(***************************************************************************)
(* How often a job changes the table: AtMostOnce, FailedUntouched,          *)
(* AppliedBounded and OverlapsBounded of JobPipeline, for every value of    *)
(* its constants.                                                           *)
(***************************************************************************)
EXTENDS JobPipelineProofs

USE DEF lists, history

(* A message that only has to note its published retry, or to be acked,     *)
(* never runs again unless its worker is lost.                              *)
Over(d) == delivery[d].pc \in {"storeRetry", "ack"}

(* What a run has done shows where it can be; one that was past its commit  *)
(* when it failed has made its job uncertain.                               *)
Shape(d) ==
  LET m == delivery[d]
  IN  /\ m.committed => m.pc \in {"refresh", "store", "failed", "raised", "storeRetry",
                                  "push", "trim", "ack"}
      /\ m.retried => m.pc \in {"storeRetry", "ack"}
      /\ (m.committed /\ m.pc \notin {"refresh", "store", "ack"}) => m.job \in uncertain

(* The right to change the table once is a token. A message holds one until *)
(* its run commits, or hands it to the retry it publishes; a copy brings a  *)
(* further one. Those who are about to use theirs are going.                *)
Holders(j) ==
  {d \in Live : delivery[d].job = j /\ ~delivery[d].committed /\ ~delivery[d].retried}
Going(j) == {d \in Holders(j) : delivery[d].pc \in {"read", "write"}}

OnceFor(j) ==
  /\ accepted[j] = None => applied[j] = 0
  /\ applied[j] + Cardinality(Holders(j)) <= 1 + copies[j]
  /\ status[j] = "FAILURE" => applied[j] + Cardinality(Going(j)) <= copies[j]

Once == (\A d \in Live : Shape(d)) /\ \A j \in Jobs \ uncertain : OnceFor(j)

LEMMA HoldersFinite ==
  ASSUME NEW j
  PROVE  /\ IsFiniteSet(Holders(j)) /\ IsFiniteSet(Holders(j)')
         /\ IsFiniteSet(Going(j)) /\ IsFiniteSet(Going(j)')
         /\ Cardinality(Holders(j)) \in Nat /\ Cardinality(Holders(j)') \in Nat
         /\ Cardinality(Going(j)) \in Nat /\ Cardinality(Going(j)') \in Nat
<1>1. /\ Holders(j) \subseteq Deliveries /\ Holders(j)' \subseteq Deliveries
      /\ Going(j) \subseteq Deliveries /\ Going(j)' \subseteq Deliveries
  BY DEF Holders, Going, Live
<1> QED
  BY <1>1, SizesAssumption, FS_Subset, FS_CardinalityType

LEMMA OneMore ==
  ASSUME NEW S, IsFiniteSet(S), NEW x, NEW T \in SUBSET (S \union {x})
  PROVE  Cardinality(T) <= Cardinality(S) + 1
<1> DEFINE U == S \union {x}
<1>1. IsFiniteSet(U) /\ (Cardinality(U) = Cardinality(S) \/ Cardinality(U) = Cardinality(S) + 1)
  <2>1. /\ IsFiniteSet(U)
        /\ Cardinality(U) = IF x \in S THEN Cardinality(S) ELSE Cardinality(S) + 1
    BY FS_AddElement, Zenon
  <2> QED
    BY <2>1
<1>2. T \in SUBSET U
  OBVIOUS
<1> HIDE DEF U
<1>3. Cardinality(T) <= Cardinality(U)
  BY <1>1, <1>2, FS_Subset
<1>4. IsFiniteSet(T)
  BY <1>1, <1>2, FS_Subset
<1>5. Cardinality(S) \in Nat /\ Cardinality(T) \in Nat
  BY <1>4, FS_CardinalityType
<1> QED
  BY <1>1, <1>3, <1>5

LEMMA OneLess ==
  ASSUME NEW S, IsFiniteSet(S), NEW x \in S, NEW T \in SUBSET (S \ {x})
  PROVE  Cardinality(T) + 1 <= Cardinality(S)
<1>1. IsFiniteSet(S \ {x}) /\ Cardinality(S \ {x}) = Cardinality(S) - 1
  BY FS_RemoveElement
<1>2. IsFiniteSet(T) /\ Cardinality(T) <= Cardinality(S \ {x})
  BY <1>1, FS_Subset
<1>3. Cardinality(S) \in Nat /\ Cardinality(T) \in Nat
  BY <1>2, FS_CardinalityType
<1> QED
  BY <1>1, <1>2, <1>3

LEMMA InitOnce == Init => Once
<1> SUFFICES ASSUME Init PROVE Once
  OBVIOUS
<1>1. Live = {}
  BY DEF Init, Live
<1>2. ASSUME NEW j \in Jobs PROVE OnceFor(j)
  <2>1. Holders(j) = {}
    BY <1>1 DEF Holders
  <2> QED
    BY <2>1, FS_EmptySet DEF Init, OnceFor
<1> QED
  BY <1>1, <1>2 DEF Once

LEMMA OnceSuffices == TypeOK /\ Once => AtMostOnce /\ FailedUntouched
<1> SUFFICES ASSUME TypeOK, Once PROVE AtMostOnce /\ FailedUntouched
  OBVIOUS
<1>1. ASSUME NEW j \in Jobs \ uncertain
      PROVE  /\ applied[j] <= 1 + copies[j]
             /\ status[j] = "FAILURE" => applied[j] <= copies[j]
  <2>1. applied[j] \in Nat /\ copies[j] \in Nat
    BY DEF TypeOK
  <2> QED
    BY <2>1, HoldersFinite DEF Once, OnceFor
<1>2. \A j \in Jobs : PollStatus(j) = "failed" => status[j] = "FAILURE"
  BY DEF PollStatus, TypeOK
<1> QED
  BY <1>1, <1>2 DEF AtMostOnce, FailedUntouched

--------------------------------------------------------------------------------
(* A step keeps a job within its tokens if commits and holders together     *)
(* grow only with its copies; one that leaves a FAILURE behind must do the  *)
(* same for those that are going, unless it stores that FAILURE.            *)
LEMMA TokensKept ==
  ASSUME TypeOK, TypeOK', NEW j \in Jobs, OnceFor(j),
         accepted'[j] = None => accepted[j] = None /\ applied'[j] = applied[j],
         applied'[j] + Cardinality(Holders(j)') + copies[j]
           <= applied[j] + Cardinality(Holders(j)) + copies'[j],
         status'[j] = "FAILURE" =>
           \/ /\ status[j] = "FAILURE"
              /\ applied'[j] + Cardinality(Going(j)') + copies[j]
                   <= applied[j] + Cardinality(Going(j)) + copies'[j]
           \/ applied'[j] + Cardinality(Going(j)') <= copies'[j]
  PROVE  OnceFor(j)'
<1>1. /\ applied[j] \in Nat /\ copies[j] \in Nat
      /\ applied'[j] \in Nat /\ copies'[j] \in Nat
  BY DEF TypeOK
<1>2. applied'[j] + Cardinality(Holders(j)') <= 1 + copies'[j]
  BY <1>1, HoldersFinite DEF OnceFor
<1>3. ASSUME status'[j] = "FAILURE"
      PROVE  applied'[j] + Cardinality(Going(j)') <= copies'[j]
  BY <1>1, <1>3, HoldersFinite DEF OnceFor
<1>4. accepted'[j] = None => applied'[j] = 0
  BY DEF OnceFor
<1> QED
  BY <1>2, <1>3, <1>4 DEF OnceFor

LEMMA FewerTokens ==
  ASSUME TypeOK, TypeOK', NEW j \in Jobs, OnceFor(j),
         accepted'[j] = accepted[j], applied'[j] = applied[j], copies'[j] = copies[j],
         Holders(j)' \subseteq Holders(j),
         status'[j] = "FAILURE" => status[j] = "FAILURE" /\ Going(j)' \subseteq Going(j)
  PROVE  OnceFor(j)'
<1>1. Cardinality(Holders(j)') <= Cardinality(Holders(j))
  BY HoldersFinite, FS_Subset
<1>2. Going(j)' \subseteq Going(j) => Cardinality(Going(j)') <= Cardinality(Going(j))
  BY HoldersFinite, FS_Subset
<1>3. applied[j] \in Nat /\ copies[j] \in Nat
  BY DEF TypeOK
<1> QED
  BY <1>1, <1>2, <1>3, HoldersFinite, TokensKept

LEMMA MovedShape ==
  ASSUME TypeOK, Once, NEW d \in Live, NEW label, Moved(d, label),
         uncertain \subseteq uncertain', Shape(d)'
  PROVE  \A e \in Live' : Shape(e)'
<1>1. Live' = Live
  BY DEF TypeOK, Live, Moved
<1>2. ASSUME NEW e \in Live, e # d PROVE Shape(e)'
  <2>1. delivery'[e] = delivery[e] /\ Shape(e)
    BY <1>2 DEF Moved, Live, Once
  <2> QED
    BY <2>1 DEF Shape
<1> QED
  BY <1>1, <1>2

(* A message that moves on with its marks keeps its token.                  *)
SameMarks(d) ==
  /\ delivery'[d].committed = delivery[d].committed
  /\ delivery'[d].retried = delivery[d].retried

LEMMA MovedHolders ==
  ASSUME TypeOK, NEW d \in Live, NEW label, Moved(d, label), SameMarks(d), NEW j
  PROVE  /\ Holders(j)' = Holders(j)
         /\ \/ label \notin {"read", "write"} \/ delivery[d].pc \in {"read", "write"}
            \/ delivery[d].job # j
            => Going(j)' \subseteq Going(j)
<1>1. Live' = Live
  BY DEF TypeOK, Live, Moved
<1>2. \A e \in Live : e # d => delivery'[e] = delivery[e]
  BY DEF Moved, Live
<1>3. delivery'[d].job = delivery[d].job /\ delivery'[d].pc = label
  BY DEF Moved
<1>4. Holders(j)' = Holders(j)
  BY <1>1, <1>2, <1>3 DEF Holders, SameMarks
<1> QED
  BY <1>2, <1>3, <1>4 DEF Going, Holders

LEMMA MovedOnce ==
  ASSUME TypeOK, TypeOK', Once, NEW d \in Live, NEW label, Moved(d, label), SameMarks(d),
         UNCHANGED <<accepted, applied, copies>>, uncertain \subseteq uncertain',
         NEW k, k = delivery[d].job,
         delivery[d].committed =>
           \/ label \in {"refresh", "store", "ack"}
           \/ label \in {"failed", "raised", "storeRetry", "push", "trim"} /\ k \in uncertain',
         delivery[d].retried => label \in {"storeRetry", "ack"},
         \A j \in Jobs \ {k} : status'[j] = "FAILURE" => status[j] = "FAILURE",
         status'[k] = "FAILURE" =>
           \/ /\ status[k] = "FAILURE"
              /\ label \notin {"read", "write"} \/ delivery[d].pc \in {"read", "write"}
           \/ delivery[d].pc \in {"failed", "raised"} /\ label = "push"
  PROVE  Once'
<1>1. k \in Jobs /\ delivery'[d].job = k /\ delivery'[d].pc = label
  BY LiveTyped DEF Moved
<1>2. Shape(d)'
  BY <1>1 DEF Shape, SameMarks
<1>3. \A e \in Live' : Shape(e)'
  BY <1>2, MovedShape
<1>4. ASSUME NEW j \in Jobs \ uncertain', j # k PROVE OnceFor(j)'
  <2>1. OnceFor(j)
    BY <1>4 DEF Once
  <2>2. Holders(j)' = Holders(j) /\ Going(j)' \subseteq Going(j)
    BY <1>4, MovedHolders
  <2> QED
    BY <1>4, <2>1, <2>2, FewerTokens
<1>5. ASSUME k \notin uncertain' PROVE OnceFor(k)'
  <2>1. OnceFor(k) /\ Holders(k)' = Holders(k)
    BY <1>1, <1>5, MovedHolders DEF Once
  <2>2. CASE status'[k] = "FAILURE" => status[k] = "FAILURE" /\ Going(k)' \subseteq Going(k)
    BY <1>1, <2>1, <2>2, FewerTokens
  <2>3. CASE delivery[d].pc \in {"failed", "raised"} /\ label = "push"
    <3>1. Shape(d) /\ k \notin uncertain
      BY <1>5 DEF Once
    <3>2. d \in Holders(k)
      BY <2>3, <3>1 DEF Holders, Shape
    <3>3. d \notin Going(k)'
      BY <1>1, <2>3 DEF Going
    <3>4. Going(k)' \subseteq Holders(k) \ {d}
      BY <2>1, <3>3 DEF Going
    <3>5. Cardinality(Going(k)') + 1 <= Cardinality(Holders(k))
      BY <3>2, <3>4, HoldersFinite, OneLess
    <3>6. applied[k] \in Nat /\ copies[k] \in Nat
      BY <1>1 DEF TypeOK
    <3>7. applied'[k] + Cardinality(Going(k)') <= copies'[k]
      BY <2>1, <3>5, <3>6, HoldersFinite DEF OnceFor
    <3>8. applied'[k] + Cardinality(Holders(k)') + copies[k]
            <= applied[k] + Cardinality(Holders(k)) + copies'[k]
      BY <2>1, <3>6, HoldersFinite
    <3> QED
      BY <1>1, <2>1, <3>7, <3>8, TokensKept
  <2>4. label \notin {"read", "write"} \/ delivery[d].pc \in {"read", "write"}
          => Going(k)' \subseteq Going(k)
    BY MovedHolders
  <2> QED
    BY <2>2, <2>3, <2>4
<1> QED
  BY <1>3, <1>4, <1>5 DEF Once

LEMMA LeaveKeepsMarks ==
  ASSUME TypeOK, NEW d \in Live, NEW label, Leave(d, label)
  PROVE  SameMarks(d)
<1>1. delivery'[d] = [delivery[d] EXCEPT !.pc = label, !.id = None, !.seen = None,
                                          !.outcome = None]
  BY DEF TypeOK, Live, Leave
<1> QED
  BY <1>1, LiveTyped DEF Message, SameMarks

LEMMA GotoKeepsMarks ==
  ASSUME TypeOK, NEW d \in Live, NEW label, Goto(d, label)
  PROVE  SameMarks(d)
<1>1. delivery'[d] = [delivery[d] EXCEPT !.pc = label]
  BY DEF TypeOK, Live, Goto
<1> QED
  BY <1>1, LiveTyped DEF Message, SameMarks

LEMMA DoubtGrows ==
  ASSUME NEW d, Doubt(d)
  PROVE  /\ uncertain \subseteq uncertain'
         /\ delivery[d].committed => delivery[d].job \in uncertain'
BY DEF Doubt

--------------------------------------------------------------------------------
LEMMA StartOnce ==
  ASSUME TypeOK, Once, NEW d \in Deliveries, Start(d)
  PROVE  Once'
<1> PICK k : k = delivery[d].job
  OBVIOUS
<1>1. /\ d \in Live /\ delivery[d].pc = "queued" /\ k \in Jobs /\ TypeOK' /\ Shape(d)
      /\ UNCHANGED <<accepted, applied, copies, uncertain>>
  BY LiveTyped, StartTyped DEF Start, At, Once
<1>2. PICK label \in {"read", "write"} : Moved(d, label)
  BY StartTyped
<1>3. SameMarks(d)
  <2>1. \E l : Goto(d, l)
    BY DEF Start
  <2> QED
    BY <1>1, <2>1, GotoKeepsMarks
<1>4. /\ \A j \in Jobs \ {k} : status'[j] = "FAILURE" => status[j] = "FAILURE"
      /\ status'[k] # "FAILURE"
  BY <1>1, StoreSpares DEF Start
<1>5. ~delivery[d].committed /\ ~delivery[d].retried
  BY <1>1 DEF Shape
<1> QED
  BY <1>1, <1>2, <1>3, <1>4, <1>5, MovedOnce

LEMMA SelectOnce ==
  ASSUME TypeOK, Once, NEW d \in Deliveries, Select(d)
  PROVE  Once'
<1> PICK k : k = delivery[d].job
  OBVIOUS
<1>1. /\ d \in Live /\ delivery[d].pc = "read" /\ k \in Jobs /\ TypeOK' /\ Shape(d)
      /\ UNCHANGED <<accepted, applied, copies, status, uncertain>>
  BY LiveTyped, SelectTyped DEF Select, At, Once
<1>2. PICK label \in {"write", "store"} : Moved(d, label)
  BY SelectTyped
<1>3. SameMarks(d)
  <2> PICK req : req = accepted[k]
    OBVIOUS
  <2>1. CASE Found(req)
    <3>1. delivery' = [delivery EXCEPT ![d] = [@ EXCEPT !.pc = "write", !.seen = tasks[req.task_id]]]
      BY <2>1 DEF Select
    <3> QED
      BY <1>1, <3>1, LiveTyped DEF TypeOK, Live, Message, SameMarks
  <2>2. CASE ~Found(req)
    <3> PICK answer : answer = Plain(IF req.kind = "update" THEN "null" ELSE "false")
      OBVIOUS
    <3>1. delivery' = [delivery EXCEPT ![d] = [@ EXCEPT !.pc = "store", !.outcome = answer]]
      BY <2>2 DEF Select
    <3> QED
      BY <1>1, <3>1, LiveTyped DEF TypeOK, Live, Message, SameMarks
  <2> QED
    BY <2>1, <2>2
<1>4. ~delivery[d].committed /\ ~delivery[d].retried
  BY <1>1 DEF Shape
<1> QED
  BY <1>1, <1>2, <1>3, <1>4, MovedOnce

(* A commit uses the token of its message, and may make the job uncertain.  *)
LEMMA CommitOnce ==
  ASSUME TypeOK, TypeOK', Once, NEW d \in Live, delivery[d].pc = "write",
         NEW t, NEW row, NEW next \in {"refresh", "store"},
         Commit(d, t, row, next),
         Moved(d, next) \/ Moved(d, "failed"),
         UNCHANGED <<accepted, status, copies>>
  PROVE  Once'
<1> PICK k : k = delivery[d].job
  OBVIOUS
<1>1. /\ k \in Jobs /\ accepted[k] # None
      /\ ~delivery[d].committed /\ ~delivery[d].retried
  BY LiveTyped DEF TypeOK, Once, Shape
<1>2. /\ delivery'[d].committed /\ delivery'[d].retried = delivery[d].retried
      /\ \/ delivery'[d].pc = next /\ UNCHANGED uncertain
         \/ delivery'[d].pc = "failed" /\ uncertain' = uncertain \union {k}
  <2>1. CASE /\ delivery' = [delivery EXCEPT ![d] =
                  [@ EXCEPT !.pc = next, !.id = t, !.seen = None, !.committed = TRUE]]
             /\ UNCHANGED uncertain
    BY <2>1, LiveTyped DEF TypeOK, Live, Message
  <2>2. CASE /\ delivery' = [delivery EXCEPT ![d] =
                  [@ EXCEPT !.pc = "failed", !.id = None, !.seen = None, !.committed = TRUE]]
             /\ uncertain' = uncertain \union {k}
    BY <2>2, LiveTyped DEF TypeOK, Live, Message
  <2> QED
    BY <2>1, <2>2 DEF Commit
<1>3. PICK label : Moved(d, label)
  OBVIOUS
<1>4. delivery'[d].job = k
  BY <1>3 DEF Moved
<1>5. Shape(d)'
  BY <1>1, <1>2, <1>4 DEF Shape
<1>6. \A e \in Live' : Shape(e)'
  BY <1>2, <1>3, <1>5, MovedShape
<1>7. /\ Live' = Live
      /\ \A e \in Live : e # d => delivery'[e] = delivery[e]
  BY <1>3 DEF TypeOK, Live, Moved
<1>8. \A j \in Jobs \ {k} : applied'[j] = applied[j]
  BY <1>1 DEF TypeOK, Commit
<1>9. ASSUME NEW j \in Jobs \ uncertain', j # k PROVE OnceFor(j)'
  <2>1. OnceFor(j) /\ applied'[j] = applied[j]
    BY <1>2, <1>8, <1>9 DEF Once
  <2>2. Holders(j)' \subseteq Holders(j) /\ Going(j)' \subseteq Going(j)
    BY <1>4, <1>7, <1>9 DEF Holders, Going
  <2> QED
    BY <2>1, <2>2, FewerTokens
<1>10. ASSUME k \notin uncertain' PROVE OnceFor(k)'
  <2>1. OnceFor(k)
    BY <1>1, <1>2, <1>10 DEF Once
  <2>2. applied'[k] = applied[k] + 1
    BY <1>1 DEF TypeOK, Commit
  <2>3. d \in Holders(k) /\ d \in Going(k)
    BY <1>1 DEF Holders, Going
  <2>4. Holders(k)' \subseteq Holders(k) \ {d} /\ Going(k)' \subseteq Going(k) \ {d}
    BY <1>2, <1>7 DEF Holders, Going
  <2>5. /\ Cardinality(Holders(k)') + 1 <= Cardinality(Holders(k))
        /\ Cardinality(Going(k)') + 1 <= Cardinality(Going(k))
    BY <2>3, <2>4, HoldersFinite, OneLess
  <2>6. applied[k] \in Nat /\ copies[k] \in Nat
    BY <1>1 DEF TypeOK
  <2>7. /\ applied'[k] + Cardinality(Holders(k)') + copies[k]
             <= applied[k] + Cardinality(Holders(k)) + copies'[k]
        /\ applied'[k] + Cardinality(Going(k)') + copies[k]
             <= applied[k] + Cardinality(Going(k)) + copies'[k]
    BY <2>2, <2>5, <2>6, HoldersFinite
  <2> QED
    BY <1>1, <2>1, <2>7, TokensKept
<1> QED
  BY <1>6, <1>9, <1>10 DEF Once

LEMMA InsertOnce ==
  ASSUME TypeOK, Once, NEW d \in Deliveries, Insert(d)
  PROVE  Once'
<1>1. d \in Live /\ delivery[d].pc = "write" /\ UNCHANGED <<accepted, status, copies>>
  BY DEF Insert, At
<1>2. PICK t, row : Commit(d, t, row, "refresh")
  BY DEF Insert
<1> QED
  BY <1>1, <1>2, InsertTyped, CommitOnce

(* An update without effect, and one whose row is gone, keep their token.   *)
LEMMA UpdateOnce ==
  ASSUME TypeOK, Once, NEW d \in Deliveries, Update(d)
  PROVE  Once'
<1> PICK k : k = delivery[d].job
  OBVIOUS
<1>1. /\ d \in Live /\ delivery[d].pc = "write" /\ k \in Jobs /\ TypeOK' /\ Shape(d)
      /\ UNCHANGED <<accepted, status, copies>>
  BY LiveTyped, UpdateTyped DEF Update, At, Once
<1>2. ASSUME UNCHANGED <<tasks, applied, uncertain, faults>>,
             \/ Leave(d, "failed")
             \/ \E t : delivery' = [delivery EXCEPT ![d] =
                         [@ EXCEPT !.pc = "refresh", !.id = t, !.seen = None]]
      PROVE  Once'
  <2>1. PICK label \in {"refresh", "failed"} : Moved(d, label)
    BY UpdateTyped
  <2>2. SameMarks(d)
    <3>1. CASE \E t : delivery' = [delivery EXCEPT ![d] =
                        [@ EXCEPT !.pc = "refresh", !.id = t, !.seen = None]]
      BY <1>1, <3>1, LiveTyped DEF TypeOK, Live, Message, SameMarks
    <3> QED
      BY <1>1, <1>2, <3>1, LeaveKeepsMarks
  <2>3. ~delivery[d].committed /\ ~delivery[d].retried
    BY <1>1 DEF Shape
  <2> QED
    BY <1>1, <1>2, <2>1, <2>2, <2>3, MovedOnce
<1>3. CASE \E t, row : Commit(d, t, row, "refresh")
  BY <1>1, <1>3, UpdateTyped, CommitOnce
<1> QED
  BY <1>2, <1>3 DEF Update

LEMMA DeleteOnce ==
  ASSUME TypeOK, Once, NEW d \in Deliveries, Delete(d)
  PROVE  Once'
<1> PICK k : k = delivery[d].job
  OBVIOUS
<1>1. /\ d \in Live /\ delivery[d].pc = "write" /\ k \in Jobs /\ TypeOK' /\ Shape(d)
      /\ UNCHANGED <<accepted, status, copies>>
  BY LiveTyped, DeleteTyped DEF Delete, At, Once
<1>2. CASE Goto(d, "store") /\ UNCHANGED <<tasks, applied, uncertain, faults>>
  <2>1. Moved(d, "store") /\ SameMarks(d)
    BY <1>1, <1>2, GotoMoves, GotoKeepsMarks
  <2>2. ~delivery[d].committed /\ ~delivery[d].retried
    BY <1>1 DEF Shape
  <2> QED
    BY <1>1, <1>2, <2>1, <2>2, MovedOnce
<1>3. CASE \E t, row : Commit(d, t, row, "store")
  BY <1>1, <1>3, DeleteTyped, CommitOnce
<1> QED
  BY <1>2, <1>3 DEF Delete

LEMMA RefreshOnce ==
  ASSUME TypeOK, Once, NEW d \in Deliveries, Refresh(d)
  PROVE  Once'
<1> PICK k : k = delivery[d].job
  OBVIOUS
<1>1. /\ d \in Live /\ delivery[d].pc = "refresh" /\ k \in Jobs /\ TypeOK' /\ Shape(d)
      /\ UNCHANGED <<accepted, applied, status, copies>>
  BY LiveTyped, RefreshTyped DEF Refresh, At, Once
<1>2. ~delivery[d].retried
  BY <1>1 DEF Shape
<1>3. CASE \E o : /\ delivery' = [delivery EXCEPT ![d] = [@ EXCEPT !.pc = "store", !.outcome = o]]
                  /\ UNCHANGED uncertain
  <2>1. delivery'[d].pc = "store" /\ SameMarks(d)
    BY <1>1, <1>3, LiveTyped DEF TypeOK, Live, Message, SameMarks
  <2>2. Moved(d, "store")
    BY <2>1, RefreshTyped DEF Moved
  <2> QED
    BY <1>1, <1>2, <1>3, <2>1, <2>2, MovedOnce
<1>4. CASE Leave(d, "failed") /\ Doubt(d)
  <2>1. Moved(d, "failed") /\ SameMarks(d)
    BY <1>1, <1>4, LeaveMoves, LeaveKeepsMarks
  <2> QED
    BY <1>1, <1>2, <1>4, <2>1, DoubtGrows, MovedOnce
<1> QED
  BY <1>3, <1>4 DEF Refresh

LEMMA DbErrorOnce ==
  ASSUME TypeOK, Once, NEW d \in Deliveries, DbError(d)
  PROVE  Once'
<1> PICK k : k = delivery[d].job
  OBVIOUS
<1>1. /\ d \in Live /\ k \in Jobs /\ TypeOK' /\ Shape(d)
      /\ delivery[d].pc \in {"read", "write", "refresh", "failed", "store"}
      /\ UNCHANGED <<accepted, applied, status, copies>>
  BY LiveTyped, DbErrorTyped DEF DbError, Once
<1>2. PICK label \in {"failed", "raised"} : Leave(d, label)
  BY DEF DbError
<1>3. Moved(d, label) /\ SameMarks(d)
  BY <1>1, <1>2, LeaveMoves, LeaveKeepsMarks
<1>4. uncertain \subseteq uncertain' /\ (delivery[d].committed => k \in uncertain')
  BY DoubtGrows DEF DbError
<1>5. ~delivery[d].retried
  BY <1>1 DEF Shape
<1> QED
  BY <1>1, <1>2, <1>3, <1>4, <1>5, MovedOnce

LEMMA SettleOnce ==
  ASSUME TypeOK, Once, NEW d \in Deliveries,
         StoreSuccess(d) \/ StoreRetry(d) \/ Trim(d) \/ RedisError(d)
  PROVE  Once'
<1> PICK k : k = delivery[d].job
  OBVIOUS
<1>1. /\ d \in Live /\ k \in Jobs /\ TypeOK' /\ Leave(d, "ack")
      /\ UNCHANGED <<accepted, applied, uncertain, copies>>
  BY LiveTyped, StoreSuccessTyped, StoreRetryTyped, TrimTyped, RedisErrorTyped
     DEF StoreSuccess, StoreRetry, Trim, RedisError, At
<1>2. Moved(d, "ack") /\ SameMarks(d)
  BY <1>1, LeaveMoves, LeaveKeepsMarks
<1>3. \A j \in Jobs : status'[j] = "FAILURE" => status[j] = "FAILURE"
  <2>1. CASE StoreSuccess(d) \/ StoreRetry(d)
    BY <1>1, <2>1, StoreSpares DEF StoreSuccess, StoreRetry
  <2>2. CASE Trim(d) \/ RedisError(d)
    BY <2>2 DEF Trim, RedisError
  <2> QED
    BY <2>1, <2>2
<1> QED
  BY <1>1, <1>2, <1>3, MovedOnce

LEMMA StoreFailureOnce ==
  ASSUME TypeOK, Once, NEW d \in Deliveries, StoreFailure(d)
  PROVE  Once'
<1> PICK k : k = delivery[d].job
  OBVIOUS
<1>1. /\ d \in Live /\ delivery[d].pc \in {"failed", "raised"} /\ k \in Jobs /\ TypeOK'
      /\ Shape(d) /\ Goto(d, "push")
      /\ UNCHANGED <<accepted, applied, uncertain, copies>>
  BY LiveTyped, StoreFailureTyped DEF StoreFailure, At, Once
<1>2. Moved(d, "push") /\ SameMarks(d)
  BY <1>1, GotoMoves, GotoKeepsMarks
<1>3. \A j \in Jobs \ {k} : status'[j] = "FAILURE" => status[j] = "FAILURE"
  BY <1>1, StoreSpares DEF StoreFailure
<1>4. ~delivery[d].retried /\ (delivery[d].committed => k \in uncertain')
  BY <1>1 DEF Shape
<1> QED
  BY <1>1, <1>2, <1>3, <1>4, MovedOnce

LEMMA PushOnce ==
  ASSUME TypeOK, Once, NEW d \in Deliveries, Push(d)
  PROVE  Once'
<1> PICK k : k = delivery[d].job
  OBVIOUS
<1>1. /\ d \in Live /\ delivery[d].pc = "push" /\ k \in Jobs /\ TypeOK' /\ Shape(d)
      /\ Goto(d, "trim") /\ UNCHANGED <<accepted, applied, status, uncertain, copies>>
  BY LiveTyped, PushTyped DEF Push, At, Once
<1>2. Moved(d, "trim") /\ SameMarks(d)
  BY <1>1, GotoMoves, GotoKeepsMarks
<1>3. ~delivery[d].retried /\ (delivery[d].committed => k \in uncertain')
  BY <1>1 DEF Shape
<1> QED
  BY <1>1, <1>2, <1>3, MovedOnce

(* A message that comes back holds a token again: its own, which it had     *)
(* kept, or one more if it had handed that on to its retry.                 *)
LEMMA CrashOnce ==
  ASSUME TypeOK, Once, NEW d \in Deliveries, Crash(d)
  PROVE  Once'
<1> PICK k : k = delivery[d].job
  OBVIOUS
<1>1. /\ d \in Live /\ k \in Jobs /\ TypeOK' /\ Moved(d, "queued")
      /\ UNCHANGED <<accepted, applied, status>>
  BY LiveTyped, CrashTyped DEF Crash, Running
<1>2. /\ delivery'[d].job = k /\ delivery'[d].pc = "queued"
      /\ ~delivery'[d].committed /\ ~delivery'[d].retried
  <2>1. delivery'[d] = Queued(k, delivery[d].retries)
    BY <1>1 DEF TypeOK, Live, Crash
  <2> QED
    BY <2>1 DEF Queued
<1>3. uncertain \subseteq uncertain' /\ (delivery[d].committed => k \in uncertain')
  BY DoubtGrows DEF Crash
<1>4. Shape(d)'
  BY <1>2 DEF Shape
<1>5. \A e \in Live' : Shape(e)'
  BY <1>1, <1>3, <1>4, MovedShape
<1>6. /\ Live' = Live
      /\ \A e \in Live : e # d => delivery'[e] = delivery[e]
  BY <1>1 DEF TypeOK, Live, Moved
<1>7. ASSUME NEW j PROVE Going(j)' \subseteq Going(j)
  BY <1>2, <1>6 DEF Going, Holders
<1>8. ASSUME NEW j \in Jobs \ uncertain', j # k PROVE OnceFor(j)'
  <2>1. OnceFor(j)
    BY <1>3, <1>8 DEF Once
  <2>2. Holders(j)' \subseteq Holders(j)
    BY <1>2, <1>6, <1>8 DEF Holders
  <2>3. copies'[j] = copies[j]
    BY <1>1, <1>8 DEF TypeOK, Crash, Copy
  <2> QED
    BY <1>1, <1>7, <2>1, <2>2, <2>3, FewerTokens
<1>9. ASSUME k \notin uncertain' PROVE OnceFor(k)'
  <2>1. OnceFor(k) /\ ~delivery[d].committed
    BY <1>1, <1>3, <1>9 DEF Once
  <2>2. CASE ~delivery[d].retried /\ UNCHANGED copies
    <3>1. Holders(k)' \subseteq Holders(k)
      BY <1>1, <1>6, <2>1, <2>2 DEF Holders
    <3> QED
      BY <1>1, <1>7, <2>1, <2>2, <3>1, FewerTokens
  <2>3. CASE Copy(d)
    <3>1. copies'[k] = copies[k] + 1
      BY <1>1, <2>3 DEF TypeOK, Copy
    <3>2. Holders(k)' \subseteq Holders(k) \union {d}
      BY <1>6 DEF Holders
    <3>3. Cardinality(Holders(k)') <= Cardinality(Holders(k)) + 1
      BY <3>2, HoldersFinite, OneMore
    <3>4. Cardinality(Going(k)') <= Cardinality(Going(k))
      BY <1>7, HoldersFinite, FS_Subset
    <3>5. applied[k] \in Nat /\ copies[k] \in Nat
      BY <1>1 DEF TypeOK
    <3>6. /\ applied'[k] + Cardinality(Holders(k)') + copies[k]
               <= applied[k] + Cardinality(Holders(k)) + copies'[k]
          /\ applied'[k] + Cardinality(Going(k)') + copies[k]
               <= applied[k] + Cardinality(Going(k)) + copies'[k]
      BY <1>1, <3>1, <3>3, <3>4, <3>5, HoldersFinite
    <3> QED
      BY <1>1, <2>1, <3>6, TokensKept
  <2> QED
    BY <2>2, <2>3 DEF Crash
<1> QED
  BY <1>5, <1>8, <1>9 DEF Once

--------------------------------------------------------------------------------
(* A message that joins the others brings a token of its own.               *)
Joined(n, k) ==
  /\ n \in Deliveries /\ n \notin Live
  /\ delivery'[n].job = k /\ delivery'[n].pc = "queued"
  /\ ~delivery'[n].committed /\ ~delivery'[n].retried
  /\ \A e \in Live' : e # n => e \in Live /\ delivery'[e] = delivery[e]

LEMMA RepublishOnce ==
  ASSUME TypeOK, Once, NEW d \in Deliveries, Republish(d)
  PROVE  Once'
<1> PICK k, n : k = delivery[d].job /\ n = NextFree
  OBVIOUS
<1>1. /\ k \in Jobs /\ TypeOK' /\ UNCHANGED <<accepted, applied, status, uncertain>>
  BY LiveTyped, RepublishTyped DEF Republish, At
<1>2. Joined(n, k)
  <2>1. /\ n \in Deliveries /\ n \notin Live
        /\ delivery' = [delivery EXCEPT ![n] = Queued(k, delivery[d].retries)]
    BY NextFreeIsFree DEF Republish, Live
  <2> QED
    BY <2>1 DEF TypeOK, Live, Queued, Joined
<1>3. \A e \in Live' : Shape(e)'
  BY <1>1, <1>2 DEF Joined, Once, Shape
<1>4. ASSUME NEW j PROVE Going(j)' \subseteq Going(j)
  BY <1>2 DEF Joined, Going, Holders
<1>5. copies' = [copies EXCEPT ![k] = @ + 1]
  BY DEF Republish, Copy
<1>6. ASSUME NEW j \in Jobs \ uncertain, j # k PROVE OnceFor(j)'
  <2>1. Holders(j)' \subseteq Holders(j)
    BY <1>2, <1>6 DEF Joined, Holders
  <2>2. copies'[j] = copies[j] /\ OnceFor(j)
    BY <1>5, <1>6 DEF TypeOK, Once
  <2> QED
    BY <1>1, <1>4, <2>1, <2>2, FewerTokens
<1>7. ASSUME k \notin uncertain PROVE OnceFor(k)'
  <2>1. OnceFor(k) /\ copies'[k] = copies[k] + 1
    BY <1>1, <1>5, <1>7 DEF TypeOK, Once
  <2>2. Holders(k)' \subseteq Holders(k) \union {n}
    BY <1>2 DEF Joined, Holders
  <2>3. Cardinality(Holders(k)') <= Cardinality(Holders(k)) + 1
    BY <2>2, HoldersFinite, OneMore
  <2>4. Cardinality(Going(k)') <= Cardinality(Going(k))
    BY <1>4, HoldersFinite, FS_Subset
  <2>5. applied[k] \in Nat /\ copies[k] \in Nat
    BY <1>1 DEF TypeOK
  <2>6. /\ applied'[k] + Cardinality(Holders(k)') + copies[k]
             <= applied[k] + Cardinality(Holders(k)) + copies'[k]
        /\ applied'[k] + Cardinality(Going(k)') + copies[k]
             <= applied[k] + Cardinality(Going(k)) + copies'[k]
    BY <1>1, <2>1, <2>3, <2>4, <2>5, HoldersFinite
  <2> QED
    BY <1>1, <2>1, <2>6, TokensKept
<1> QED
  BY <1>1, <1>3, <1>6, <1>7 DEF Once

(* A retry gets the token of the message that publishes it.                 *)
LEMMA RetryOnce ==
  ASSUME TypeOK, Once, NEW d \in Deliveries, Retry(d)
  PROVE  Once'
<1> PICK k, n, r : k = delivery[d].job /\ n = NextFree /\ r = delivery[d].retries + 1
  OBVIOUS
<1>1. /\ d \in Live /\ delivery[d].pc = "failed" /\ k \in Jobs /\ TypeOK' /\ Shape(d)
      /\ UNCHANGED <<accepted, applied, copies, status, uncertain>>
  BY LiveTyped, RetryTyped DEF Retry, At, Once
<1>2. /\ n \in Deliveries /\ n \notin Live
      /\ delivery' = [delivery EXCEPT ![d].pc = "storeRetry", ![d].retried = TRUE,
                                      ![n] = Queued(k, r)]
  BY NextFreeIsFree DEF Retry, Live
<1>3. /\ delivery'[d].job = k /\ delivery'[d].pc = "storeRetry" /\ delivery'[d].retried
      /\ delivery'[d].committed = delivery[d].committed
  <2>1. d # n /\ delivery[d] \in Message
    BY <1>1, <1>2, LiveTyped
  <2>2. delivery'[d] = [delivery[d] EXCEPT !.pc = "storeRetry", !.retried = TRUE]
    BY <1>1, <1>2, <2>1 DEF TypeOK, Live
  <2> QED
    BY <2>1, <2>2 DEF Message
<1>4. /\ delivery'[n].job = k /\ delivery'[n].pc = "queued"
      /\ ~delivery'[n].committed /\ ~delivery'[n].retried
  BY <1>1, <1>2 DEF TypeOK, Queued
<1>5. \A e \in Live' : e \notin {d, n} => e \in Live /\ delivery'[e] = delivery[e]
  BY <1>2 DEF TypeOK, Live
<1>6. \A e \in Live' : Shape(e)'
  <2>1. Shape(d)'
    BY <1>1, <1>3 DEF Shape
  <2>2. Shape(n)'
    BY <1>4 DEF Shape
  <2>3. ASSUME NEW e \in Live', e \notin {d, n} PROVE Shape(e)'
    <3>1. Shape(e) /\ delivery'[e] = delivery[e]
      BY <1>5, <2>3 DEF Once
    <3> QED
      BY <1>1, <3>1 DEF Shape
  <2> QED
    BY <2>1, <2>2, <2>3
<1>7. ASSUME NEW j PROVE Going(j)' \subseteq Going(j)
  BY <1>3, <1>4, <1>5 DEF Going, Holders
<1>8. ASSUME NEW j \in Jobs \ uncertain, j # k PROVE OnceFor(j)'
  <2>1. Holders(j)' \subseteq Holders(j)
    BY <1>3, <1>4, <1>5, <1>8 DEF Holders
  <2>2. OnceFor(j)
    BY <1>8 DEF Once
  <2> QED
    BY <1>1, <1>7, <2>1, <2>2, FewerTokens
<1>9. ASSUME k \notin uncertain PROVE OnceFor(k)'
  <2>1. OnceFor(k) /\ d \in Holders(k)
    BY <1>1, <1>9 DEF Once, Shape, Holders
  <2> DEFINE rest == Holders(k) \ {d}
  <2>2. Holders(k)' \subseteq rest \union {n}
    BY <1>3, <1>5 DEF Holders
  <2>3. IsFiniteSet(rest) /\ Cardinality(rest) + 1 = Cardinality(Holders(k))
    <3>1. IsFiniteSet(rest) /\ Cardinality(rest) = Cardinality(Holders(k)) - 1
      BY <2>1, HoldersFinite, FS_RemoveElement
    <3> QED
      BY <3>1, HoldersFinite
  <2> HIDE DEF rest
  <2>4. Cardinality(Holders(k)') <= Cardinality(Holders(k))
    BY <2>2, <2>3, OneMore
  <2>5. Cardinality(Going(k)') <= Cardinality(Going(k))
    BY <1>7, HoldersFinite, FS_Subset
  <2>6. applied[k] \in Nat /\ copies[k] \in Nat
    BY <1>1 DEF TypeOK
  <2>7. /\ applied'[k] + Cardinality(Holders(k)') + copies[k]
             <= applied[k] + Cardinality(Holders(k)) + copies'[k]
        /\ applied'[k] + Cardinality(Going(k)') + copies[k]
             <= applied[k] + Cardinality(Going(k)) + copies'[k]
    BY <1>1, <2>4, <2>5, <2>6, HoldersFinite
  <2> QED
    BY <1>1, <2>1, <2>7, TokensKept
<1> QED
  BY <1>1, <1>6, <1>8, <1>9 DEF Once

LEMMA AckOnce ==
  ASSUME TypeOK, Once, NEW d \in Deliveries, Ack(d)
  PROVE  Once'
<1>1. \A e \in Live' : e \in Live /\ delivery'[e] = delivery[e]
  BY DEF TypeOK, Ack, Live
<1>2. UNCHANGED <<accepted, applied, status, uncertain, copies>> /\ TypeOK'
  BY AckTyped DEF Ack
<1>3. \A e \in Live' : Shape(e)'
  BY <1>1, <1>2 DEF Once, Shape
<1>4. ASSUME NEW j PROVE Holders(j)' \subseteq Holders(j) /\ Going(j)' \subseteq Going(j)
  BY <1>1 DEF Holders, Going
<1>5. ASSUME NEW j \in Jobs \ uncertain PROVE OnceFor(j)'
  BY <1>2, <1>4, <1>5, FewerTokens DEF Once
<1> QED
  BY <1>2, <1>3, <1>5 DEF Once

(* A job id is new: the first message of a job brings its only token.       *)
LEMMA AcceptOnce ==
  ASSUME TypeOK, Once, NEW k \in Jobs, NEW r \in Requests, Accept(k, r)
  PROVE  Once'
<1> PICK n : n = NextFree
  OBVIOUS
<1>1. /\ accepted[k] = None /\ UNCHANGED <<applied, status, uncertain, copies>> /\ TypeOK'
  BY AcceptTyped DEF Accept
<1>2. Joined(n, k)
  <2>1. /\ n \in Deliveries /\ n \notin Live
        /\ delivery' = [delivery EXCEPT ![n] = Queued(k, 0)]
    BY NextFreeIsFree DEF Accept, Live
  <2> QED
    BY <2>1 DEF TypeOK, Live, Queued, Joined
<1>3. \A e \in Live' : Shape(e)'
  BY <1>1, <1>2 DEF Joined, Once, Shape
<1>4. ASSUME NEW j PROVE Going(j)' \subseteq Going(j)
  BY <1>2 DEF Joined, Going, Holders
<1>5. ASSUME NEW j \in Jobs \ uncertain, j # k PROVE OnceFor(j)'
  <2>1. Holders(j)' \subseteq Holders(j)
    BY <1>2, <1>5 DEF Joined, Holders
  <2>2. accepted'[j] = accepted[j] /\ OnceFor(j)
    BY <1>5 DEF TypeOK, Accept, Once
  <2> QED
    BY <1>1, <1>4, <2>1, <2>2, FewerTokens
<1>6. ASSUME k \notin uncertain PROVE OnceFor(k)'
  <2>1. applied[k] = 0 /\ copies[k] \in Nat
    BY <1>1, <1>6 DEF TypeOK, Once, OnceFor
  <2>2. \A e \in Live : delivery[e].job # k
    BY <1>1 DEF TypeOK
  <2>3. Holders(k)' \subseteq {n} /\ Going(k)' = {}
    BY <1>2, <1>4, <2>2 DEF Joined, Holders, Going
  <2>4. Cardinality(Holders(k)') <= 1 /\ Cardinality(Going(k)') = 0
    BY <2>3, FS_EmptySet, OneMore
  <2> QED
    BY <1>1, <2>1, <2>4, HoldersFinite DEF OnceFor
<1> QED
  BY <1>1, <1>3, <1>5, <1>6 DEF Once

LEMMA StillOnce ==
  ASSUME Once, UNCHANGED <<accepted, delivery, applied, uncertain, copies>>,
         \A j \in Jobs : status'[j] = "FAILURE" => status[j] = "FAILURE"
  PROVE  Once'
BY DEF Once, OnceFor, Shape, Holders, Going, Live

LEMMA NextOnce == TypeOK /\ Once /\ [Next]_vars => Once'
<1> SUFFICES ASSUME TypeOK, Once, [Next]_vars PROVE Once'
  OBVIOUS
<1>1. ASSUME NEW j \in Jobs, NEW r \in Requests, Accept(j, r) PROVE Once'
  BY <1>1, AcceptOnce
<1>2. ASSUME NEW d \in Deliveries, Progress(d) PROVE Once'
  BY <1>2, StartOnce, SelectOnce, InsertOnce, UpdateOnce, DeleteOnce, RefreshOnce,
     SettleOnce, RetryOnce, StoreFailureOnce, PushOnce, AckOnce DEF Progress
<1>3. ASSUME NEW d \in Deliveries,
             Republish(d) \/ DbError(d) \/ Crash(d) \/ RedisError(d)
      PROVE  Once'
  BY <1>3, RepublishOnce, DbErrorOnce, CrashOnce, SettleOnce
<1>4. ASSUME NEW j \in Jobs, ExpireResult(j) PROVE Once'
  <2>1. \A i \in Jobs : status'[i] = "FAILURE" => status[i] = "FAILURE"
    BY <1>4 DEF TypeOK, ExpireResult
  <2> QED
    BY <1>4, <2>1, StillOnce DEF ExpireResult
<1>5. CASE Idle \/ UNCHANGED vars
  <2>1. UNCHANGED <<accepted, delivery, applied, uncertain, copies, status>>
    BY <1>5 DEF Idle, vars
  <2> QED
    BY <2>1, StillOnce
<1> QED
  BY <1>1, <1>2, <1>3, <1>4, <1>5 DEF Next

(* However the runs of its messages overlap and fail, a job changes the     *)
(* table at most once, and once more for each copy of its message, unless   *)
(* a run of it failed or was lost after its own commit.                     *)
THEOREM AppliedOnce == Spec => []AtMostOnce
<1>1. TypeOK /\ Once /\ [Next]_vars => TypeOK' /\ Once'
  BY NextTypeOK, NextOnce
<1>2. Init => TypeOK /\ Once
  BY InitTypeOK, InitOnce
<1> QED
  BY <1>1, <1>2, OnceSuffices, PTL DEF Spec

(* A job that GET /jobs/{id} shows as failed has changed the table at most  *)
(* as often as its message was copied, unless a run of it failed or was     *)
(* lost after its own commit.                                               *)
THEOREM FailureHasNoEffect == Spec => []FailedUntouched
<1>1. TypeOK /\ Once /\ [Next]_vars => TypeOK' /\ Once'
  BY NextTypeOK, NextOnce
<1>2. Init => TypeOK /\ Once
  BY InitTypeOK, InitOnce
<1> QED
  BY <1>1, <1>2, OnceSuffices, PTL DEF Spec

--------------------------------------------------------------------------------
(* How often a job changes the table at all. A message stands for the runs  *)
(* that it can still lead to: the one it is in, as long as that has not     *)
(* committed or failed, and one for each retry count above its own. The     *)
(* runs a job has left, with the commits it made, never exceed what its     *)
(* retries allow, and again as much for each fault.                         *)
RunsAt(label, n) ==
  {m \in 0..MaxRetries : \/ label \in {"queued", "read", "write"} /\ m >= n
                         \/ label \in {"refresh", "failed"} /\ m > n}

RunsLeft(j) ==
  {x \in Deliveries \X (0..MaxRetries) :
     /\ delivery[x[1]] # None /\ delivery[x[1]].job = j
     /\ x[2] \in RunsAt(delivery[x[1]].pc, delivery[x[1]].retries)}

Budget ==
  \A j \in Jobs :
    /\ accepted[j] = None => applied[j] = 0
    /\ applied[j] + Cardinality(RunsLeft(j)) <= (MaxRetries + 1) * (1 + faults)

LEMMA PairsFinite ==
  /\ IsFiniteSet(Deliveries \X (0..MaxRetries))
  /\ IsFiniteSet(0..MaxRetries) /\ Cardinality(0..MaxRetries) = MaxRetries + 1
<1>1. 0 \in Int /\ MaxRetries \in Int /\ ~(0 > MaxRetries)
      /\ MaxRetries - 0 + 1 = MaxRetries + 1
  BY SizesAssumption
<1>2. IsFiniteSet(0..MaxRetries) /\ Cardinality(0..MaxRetries) = MaxRetries + 1
  BY <1>1, FS_Interval
<1>3. IsFiniteSet(Deliveries \X (0..MaxRetries))
  BY <1>2, SizesAssumption, FS_Product
<1> QED
  BY <1>2, <1>3

LEMMA RunsLeftFinite ==
  ASSUME NEW j
  PROVE  /\ IsFiniteSet(RunsLeft(j)) /\ Cardinality(RunsLeft(j)) \in Nat
         /\ IsFiniteSet(RunsLeft(j)') /\ Cardinality(RunsLeft(j)') \in Nat
<1>1. /\ RunsLeft(j) \subseteq Deliveries \X (0..MaxRetries)
      /\ RunsLeft(j)' \subseteq Deliveries \X (0..MaxRetries)
  BY DEF RunsLeft
<1> QED
  BY <1>1, PairsFinite, FS_Subset, FS_CardinalityType

(* One row of MaxRetries + 1 pairs.                                         *)
LEMMA OneMessagesRuns ==
  ASSUME NEW d
  PROVE  /\ IsFiniteSet({d} \X (0..MaxRetries))
         /\ Cardinality({d} \X (0..MaxRetries)) = MaxRetries + 1
<1>1. IsFiniteSet({d}) /\ Cardinality({d}) = 1
  BY FS_Singleton
<1>2. /\ IsFiniteSet({d} \X (0..MaxRetries))
      /\ Cardinality({d} \X (0..MaxRetries)) = Cardinality({d}) * Cardinality(0..MaxRetries)
  BY <1>1, PairsFinite, FS_Product
<1>3. 1 * (MaxRetries + 1) = MaxRetries + 1
  BY SizesAssumption
<1> QED
  BY <1>1, <1>2, <1>3, PairsFinite

(* Every fault adds one allowance.                                          *)
LEMMA AllowanceGrows ==
  ASSUME NEW f \in Nat, NEW g \in Nat
  PROVE  /\ (MaxRetries + 1) * (1 + f) \in Nat
         /\ g = f + 1 => (MaxRetries + 1) * (1 + g)
                           = (MaxRetries + 1) * (1 + f) + (MaxRetries + 1)
         /\ f <= g => (MaxRetries + 1) * (1 + f) <= (MaxRetries + 1) * (1 + g)
         /\ MaxRetries + 1 <= (MaxRetries + 1) * (1 + f)
<1>1. PICK n \in Nat : n = MaxRetries + 1
  BY SizesAssumption
<1>2. n * (1 + f) \in Nat /\ n * (1 + (f + 1)) = n * (1 + f) + n
  BY Z3
<1>3. f <= g => n * (1 + f) <= n * (1 + g)
  BY Z3
<1>4. n <= n * (1 + f)
  BY Z3
<1> QED
  BY <1>1, <1>2, <1>3, <1>4

LEMMA InitBudget == Init => Budget
<1> SUFFICES ASSUME Init, NEW j \in Jobs
             PROVE  applied[j] = 0 /\ applied[j] + Cardinality(RunsLeft(j))
                                        <= (MaxRetries + 1) * (1 + faults)
  BY DEF Budget
<1>1. applied[j] = 0 /\ faults = 0
  BY DEF Init
<1>2. RunsLeft(j) = {}
  BY DEF Init, RunsLeft
<1>3. Cardinality(RunsLeft(j)) = 0
  BY <1>2, FS_EmptySet
<1> QED
  BY <1>1, <1>3, AllowanceGrows, SizesAssumption

LEMMA BudgetSuffices == TypeOK /\ Budget => AppliedBounded
<1> SUFFICES ASSUME TypeOK, Budget, NEW j \in Jobs
             PROVE  applied[j] <= (MaxRetries + 1) * (1 + faults)
  BY DEF AppliedBounded
<1>1. applied[j] \in Nat /\ faults \in Nat
  BY SizesAssumption DEF TypeOK
<1> QED
  BY <1>1, RunsLeftFinite, AllowanceGrows DEF Budget

(* A step keeps within the budget if no job has more runs and commits after *)
(* it than before.                                                          *)
LEMMA NoMoreRuns ==
  ASSUME TypeOK, TypeOK', Budget, faults <= faults',
         \A j \in Jobs :
           /\ accepted'[j] = None => accepted[j] = None /\ applied'[j] = applied[j]
           /\ applied'[j] + Cardinality(RunsLeft(j)') <= applied[j] + Cardinality(RunsLeft(j))
  PROVE  Budget'
<1> SUFFICES ASSUME NEW j \in Jobs
             PROVE  /\ accepted'[j] = None => applied'[j] = 0
                    /\ applied'[j] + Cardinality(RunsLeft(j)')
                         <= (MaxRetries + 1) * (1 + faults')
  BY DEF Budget
<1>1. applied[j] \in Nat /\ applied'[j] \in Nat /\ faults \in Nat /\ faults' \in Nat
  BY SizesAssumption DEF TypeOK
<1>2. /\ (MaxRetries + 1) * (1 + faults) <= (MaxRetries + 1) * (1 + faults')
      /\ (MaxRetries + 1) * (1 + faults) \in Nat /\ (MaxRetries + 1) * (1 + faults') \in Nat
  BY <1>1, AllowanceGrows
<1> QED
  BY <1>1, <1>2, RunsLeftFinite DEF Budget

LEMMA FewerRuns ==
  ASSUME TypeOK, TypeOK', Budget, faults <= faults',
         UNCHANGED <<accepted, applied>>,
         \A j \in Jobs : RunsLeft(j)' \subseteq RunsLeft(j)
  PROVE  Budget'
<1>1. ASSUME NEW j \in Jobs
      PROVE  applied'[j] + Cardinality(RunsLeft(j)') <= applied[j] + Cardinality(RunsLeft(j))
  <2>1. Cardinality(RunsLeft(j)') <= Cardinality(RunsLeft(j))
    BY RunsLeftFinite, FS_Subset
  <2>2. applied[j] \in Nat
    BY DEF TypeOK
  <2> QED
    BY <2>1, <2>2, RunsLeftFinite
<1> QED
  BY <1>1, NoMoreRuns

(* Where a message goes, the runs left to the others stay.                  *)
LEMMA MovedRuns ==
  ASSUME TypeOK, NEW d \in Live, NEW label, Moved(d, label), NEW j
  PROVE  RunsLeft(j)' =
           {x \in RunsLeft(j) : x[1] # d}
           \union {x \in {d} \X RunsAt(label, delivery[d].retries) : delivery[d].job = j}
<1>1. /\ delivery'[d] # None /\ delivery'[d].job = delivery[d].job
      /\ delivery'[d].pc = label /\ delivery'[d].retries = delivery[d].retries
      /\ d \in Deliveries
  BY DEF Moved, Live
<1>2. \A x \in Deliveries \X (0..MaxRetries) :
        x[1] # d => delivery'[x[1]] = delivery[x[1]]
  BY DEF Moved
<1>3. RunsAt(label, delivery[d].retries) \subseteq 0..MaxRetries
  BY DEF RunsAt
<1>4. ASSUME NEW x \in Deliveries \X (0..MaxRetries), x[1] # d
      PROVE  x \in RunsLeft(j)' <=> x \in RunsLeft(j)
  BY <1>2, <1>4 DEF RunsLeft, RunsAt
<1>5. ASSUME NEW x \in Deliveries \X (0..MaxRetries), x[1] = d
      PROVE  x \in RunsLeft(j)' <=>
               delivery[d].job = j /\ x[2] \in RunsAt(label, delivery[d].retries)
  BY <1>1, <1>5 DEF RunsLeft, RunsAt
<1>6. RunsLeft(j) \subseteq Deliveries \X (0..MaxRetries)
      /\ RunsLeft(j)' \subseteq Deliveries \X (0..MaxRetries)
  BY DEF RunsLeft
<1>7. {d} \X RunsAt(label, delivery[d].retries) \subseteq Deliveries \X (0..MaxRetries)
  BY <1>1, <1>3
<1> QED
  BY <1>4, <1>5, <1>6, <1>7

(* A message that moves towards its end gives no job more runs.             *)
LEMMA OnwardRuns ==
  ASSUME TypeOK, NEW d \in Live, NEW label, Moved(d, label),
         RunsAt(label, delivery[d].retries) \subseteq RunsAt(delivery[d].pc, delivery[d].retries)
  PROVE  \A j \in Jobs : RunsLeft(j)' \subseteq RunsLeft(j)
<1> SUFFICES ASSUME NEW j \in Jobs, NEW x \in RunsLeft(j)' PROVE x \in RunsLeft(j)
  OBVIOUS
<1>1. CASE x \in RunsLeft(j)
  BY <1>1
<1>2. CASE delivery[d].job = j /\ x \in {d} \X RunsAt(label, delivery[d].retries)
  <2>1. x[1] = d /\ x[2] \in RunsAt(delivery[d].pc, delivery[d].retries)
    BY <1>2
  <2>2. x \in Deliveries \X (0..MaxRetries) /\ delivery[d] # None
    BY DEF RunsLeft, Live
  <2> QED
    BY <1>2, <2>1, <2>2 DEF RunsLeft
<1> QED
  BY <1>1, <1>2, MovedRuns

LEMMA RunBudget ==
  ASSUME TypeOK, Budget, NEW d \in Deliveries,
         \/ Start(d) \/ Select(d) \/ Refresh(d) \/ StoreSuccess(d) \/ StoreRetry(d)
         \/ StoreFailure(d) \/ Push(d) \/ Trim(d) \/ DbError(d) \/ RedisError(d)
  PROVE  Budget'
<1>1. d \in Live /\ UNCHANGED <<accepted, applied>>
  BY DEF Start, Select, Refresh, StoreSuccess, StoreRetry, StoreFailure, Push, Trim,
         DbError, RedisError, At
<1>2. TypeOK'
  BY StartTyped, SelectTyped, RefreshTyped, StoreSuccessTyped, StoreRetryTyped,
     StoreFailureTyped, PushTyped, TrimTyped, DbErrorTyped, RedisErrorTyped
<1>3. faults <= faults'
  <2>1. faults' = faults \/ faults' = faults + 1
    BY DEF Start, Select, Refresh, StoreSuccess, StoreRetry, StoreFailure, Push, Trim,
           DbError, RedisError, Fault
  <2> QED
    BY <2>1 DEF TypeOK
<1>4. \E label : /\ Moved(d, label)
                 /\ \A n \in Nat : RunsAt(label, n) \subseteq RunsAt(delivery[d].pc, n)
  <2>1. CASE Start(d)
    <3>1. delivery[d].pc = "queued"
      BY <2>1 DEF Start, At
    <3>2. PICK label \in {"read", "write"} : Moved(d, label)
      BY <2>1, StartTyped
    <3>3. \A n \in Nat : RunsAt(label, n) \subseteq RunsAt(delivery[d].pc, n)
      BY <3>1, <3>2 DEF RunsAt
    <3> QED
      BY <3>2, <3>3
  <2>2. CASE Select(d)
    <3>1. delivery[d].pc = "read"
      BY <2>2 DEF Select, At
    <3>2. PICK label \in {"write", "store"} : Moved(d, label)
      BY <2>2, SelectTyped
    <3>3. \A n \in Nat : RunsAt(label, n) \subseteq RunsAt(delivery[d].pc, n)
      BY <3>1, <3>2 DEF RunsAt
    <3> QED
      BY <3>2, <3>3
  <2>3. CASE Refresh(d) \/ (DbError(d) /\ delivery[d].pc \in {"read", "write", "refresh"})
    <3>1. delivery[d].pc \in {"read", "write", "refresh"}
      BY <2>3 DEF Refresh, At
    <3>2. PICK label \in {"store", "failed"} : Moved(d, label)
      BY <1>1, <2>3, RefreshTyped, LeaveMoves DEF DbError
    <3>3. \A n \in Nat : RunsAt(label, n) \subseteq RunsAt(delivery[d].pc, n)
      <4> SUFFICES ASSUME NEW n \in Nat, NEW m \in RunsAt("failed", n)
                   PROVE  m \in RunsAt(delivery[d].pc, n)
        BY <3>2 DEF RunsAt
      <4>1. m \in Nat /\ m > n
        BY DEF RunsAt
      <4>2. CASE delivery[d].pc = "refresh"
        BY <4>2 DEF RunsAt
      <4>3. CASE delivery[d].pc \in {"read", "write"}
        <5>1. m >= n
          BY <4>1
        <5> QED
          BY <4>3, <5>1 DEF RunsAt
      <4> QED
        BY <3>1, <4>2, <4>3
    <3> QED
      BY <3>2, <3>3
  <2>4. CASE \/ StoreSuccess(d) \/ StoreRetry(d) \/ StoreFailure(d) \/ Push(d) \/ Trim(d)
             \/ RedisError(d)
    <3>1. PICK label \in {"ack", "push", "trim"} : Moved(d, label)
      BY <2>4, StoreSuccessTyped, StoreRetryTyped, StoreFailureTyped, PushTyped, TrimTyped,
         RedisErrorTyped
    <3>2. \A n \in Nat : RunsAt(label, n) \subseteq RunsAt(delivery[d].pc, n)
      BY <3>1 DEF RunsAt
    <3> QED
      BY <3>1, <3>2
  <2>5. CASE DbError(d) /\ delivery[d].pc \notin {"read", "write", "refresh"}
    <3>1. Moved(d, "raised")
      BY <1>1, <2>5, LeaveMoves DEF DbError
    <3> QED
      BY <3>1 DEF RunsAt
  <2> QED
    BY <2>1, <2>2, <2>3, <2>4, <2>5
<1>5. delivery[d].retries \in Nat
  BY <1>1, LiveTyped DEF Message
<1> QED
  BY <1>1, <1>2, <1>3, <1>4, <1>5, OnwardRuns, FewerRuns

(* A commit spends the run it belongs to.                                   *)
LEMMA CommitBudget ==
  ASSUME TypeOK, TypeOK', Budget, NEW d \in Live, delivery[d].pc = "write",
         NEW t, NEW row, NEW next \in {"refresh", "store"}, Commit(d, t, row, next),
         NEW label \in {"refresh", "store", "failed"}, Moved(d, label),
         UNCHANGED accepted
  PROVE  Budget'
<1> PICK k, n, x : k = delivery[d].job /\ n = delivery[d].retries /\ x = <<d, n>>
  OBVIOUS
<1>1. k \in Jobs /\ n \in 0..MaxRetries /\ accepted[k] # None
  BY LiveTyped DEF TypeOK, Message
<1>2. RunsAt(label, n) \subseteq RunsAt("write", n) \ {n}
  BY <1>1 DEF RunsAt
<1>3. \A j \in Jobs : RunsLeft(j)' \subseteq RunsLeft(j)
  BY <1>2, OnwardRuns
<1>4. x \in RunsLeft(k)
  BY <1>1 DEF RunsLeft, RunsAt, Live
<1>5. x \notin RunsLeft(k)'
  BY <1>2, MovedRuns
<1>6. applied' = [applied EXCEPT ![k] = @ + 1]
  BY DEF Commit
<1>7. faults <= faults'
  BY CommitFaults
<1>8. ASSUME NEW j \in Jobs
      PROVE  applied'[j] + Cardinality(RunsLeft(j)') <= applied[j] + Cardinality(RunsLeft(j))
  <2>1. applied[j] \in Nat
    BY DEF TypeOK
  <2>2. CASE j # k
    <3>1. applied'[j] = applied[j]
      BY <1>1, <1>6, <2>2 DEF TypeOK
    <3>2. Cardinality(RunsLeft(j)') <= Cardinality(RunsLeft(j))
      BY <1>3, RunsLeftFinite, FS_Subset
    <3> QED
      BY <2>1, <3>1, <3>2, RunsLeftFinite
  <2>3. CASE j = k
    <3>1. applied'[j] = applied[j] + 1
      BY <1>1, <1>6, <2>3 DEF TypeOK
    <3>2. /\ IsFiniteSet(RunsLeft(j) \ {x})
          /\ Cardinality(RunsLeft(j) \ {x}) = Cardinality(RunsLeft(j)) - 1
      BY <1>4, <2>3, RunsLeftFinite, FS_RemoveElement
    <3>3. RunsLeft(j)' \subseteq RunsLeft(j) \ {x}
      BY <1>3, <1>5, <2>3
    <3>4. Cardinality(RunsLeft(j)') <= Cardinality(RunsLeft(j)) - 1
      BY <3>2, <3>3, FS_Subset
    <3> QED
      BY <2>1, <3>1, <3>4, RunsLeftFinite
  <2> QED
    BY <2>2, <2>3
<1>9. \A j \in Jobs : accepted'[j] = None => accepted[j] = None /\ applied'[j] = applied[j]
  BY <1>1, <1>6 DEF TypeOK
<1> QED
  BY <1>7, <1>8, <1>9, NoMoreRuns

LEMMA WriteBudget ==
  ASSUME TypeOK, Budget, NEW d \in Deliveries, Insert(d) \/ Update(d) \/ Delete(d)
  PROVE  Budget'
<1>1. d \in Live /\ delivery[d].pc = "write" /\ UNCHANGED accepted
  BY DEF Insert, Update, Delete, At
<1>2. TypeOK' /\ \E label \in {"refresh", "store", "failed"} : Moved(d, label)
  BY InsertTyped, UpdateTyped, DeleteTyped
<1>3. PICK label \in {"refresh", "store", "failed"} : Moved(d, label)
  BY <1>2
<1>4. CASE \E t, row : \E next \in {"refresh", "store"} : Commit(d, t, row, next)
  BY <1>1, <1>2, <1>3, <1>4, CommitBudget
<1>5. CASE UNCHANGED <<applied, faults>>
  <2>1. delivery[d].retries \in Nat
    BY <1>1, LiveTyped DEF Message
  <2>2. RunsAt(label, delivery[d].retries) \subseteq RunsAt("write", delivery[d].retries)
    BY <1>3, <2>1 DEF RunsAt
  <2>3. \A j \in Jobs : RunsLeft(j)' \subseteq RunsLeft(j)
    BY <1>1, <1>3, <2>2, OnwardRuns
  <2>4. faults <= faults'
    BY <1>5 DEF TypeOK
  <2> QED
    BY <1>1, <1>2, <1>5, <2>3, <2>4, FewerRuns
<1> QED
  BY <1>4, <1>5 DEF Insert, Update, Delete

(* A fault gives a job at most all the runs that one message has retries    *)
(* for.                                                                     *)
LEMMA OneMessageMore ==
  ASSUME TypeOK, TypeOK', Budget, faults' = faults + 1, UNCHANGED <<accepted, applied>>,
         NEW d,
         \A j \in Jobs : RunsLeft(j)' \subseteq RunsLeft(j) \union ({d} \X (0..MaxRetries))
  PROVE  Budget'
<1> SUFFICES ASSUME NEW j \in Jobs
             PROVE  /\ accepted'[j] = None => applied'[j] = 0
                    /\ applied'[j] + Cardinality(RunsLeft(j)')
                         <= (MaxRetries + 1) * (1 + faults')
  BY DEF Budget
<1> DEFINE all == {d} \X (0..MaxRetries)
<1>2. RunsLeft(j)' \subseteq RunsLeft(j) \union all
  OBVIOUS
<1>3. IsFiniteSet(all) /\ Cardinality(all) = MaxRetries + 1
  BY OneMessagesRuns
<1> HIDE DEF all
<1>4. /\ IsFiniteSet(RunsLeft(j) \union all)
      /\ Cardinality(RunsLeft(j) \union all)
           = Cardinality(RunsLeft(j)) + Cardinality(all) - Cardinality(RunsLeft(j) \cap all)
  BY <1>3, RunsLeftFinite, FS_Union
<1>5. Cardinality(RunsLeft(j) \cap all) \in Nat
  BY RunsLeftFinite, FS_Intersection, FS_CardinalityType
<1>6. Cardinality(RunsLeft(j)') <= Cardinality(RunsLeft(j) \union all)
  BY <1>2, <1>4, FS_Subset
<1>7. applied[j] \in Nat /\ faults \in Nat /\ MaxRetries \in Nat
  BY SizesAssumption DEF TypeOK
<1>8. Cardinality(RunsLeft(j)') <= Cardinality(RunsLeft(j)) + (MaxRetries + 1)
  BY <1>3, <1>4, <1>5, <1>6, <1>7, RunsLeftFinite
<1>9. /\ (MaxRetries + 1) * (1 + faults')
           = (MaxRetries + 1) * (1 + faults) + (MaxRetries + 1)
      /\ (MaxRetries + 1) * (1 + faults) \in Nat
  BY <1>7, AllowanceGrows
<1> QED
  BY <1>7, <1>8, <1>9, RunsLeftFinite DEF Budget

(* A worker that is lost gives its message all its runs back.               *)
LEMMA CrashBudget ==
  ASSUME TypeOK, Budget, NEW d \in Deliveries, Crash(d)
  PROVE  Budget'
<1>1. /\ d \in Live /\ faults' = faults + 1 /\ UNCHANGED <<accepted, applied>>
      /\ TypeOK' /\ Moved(d, "queued")
  BY CrashTyped DEF Crash, Running, Fault
<1>2. RunsAt("queued", delivery[d].retries) \subseteq 0..MaxRetries
  BY DEF RunsAt
<1>3. ASSUME NEW j \in Jobs, NEW x \in RunsLeft(j)'
      PROVE  x \in RunsLeft(j) \/ x \in {d} \X RunsAt("queued", delivery[d].retries)
  BY <1>1, <1>3, MovedRuns
<1>4. \A j \in Jobs : RunsLeft(j)' \subseteq RunsLeft(j) \union ({d} \X (0..MaxRetries))
  BY <1>2, <1>3
<1> QED
  BY <1>1, <1>4, OneMessageMore

(* A message published twice brings all its runs with it.                   *)
LEMMA RepublishBudget ==
  ASSUME TypeOK, Budget, NEW d \in Deliveries, Republish(d)
  PROVE  Budget'
<1> PICK n : n = NextFree
  OBVIOUS
<1>1. /\ faults' = faults + 1 /\ UNCHANGED <<accepted, applied>> /\ TypeOK'
      /\ delivery' = [delivery EXCEPT ![n] = Queued(delivery[d].job, delivery[d].retries)]
  BY RepublishTyped DEF Republish, Fault
<1>2. \A e \in Deliveries : e # n => delivery'[e] = delivery[e]
  BY <1>1 DEF TypeOK
<1>3. ASSUME NEW j \in Jobs, NEW x \in RunsLeft(j)'
      PROVE  x \in RunsLeft(j) \/ x \in {n} \X (0..MaxRetries)
  BY <1>2, <1>3 DEF RunsLeft
<1>4. \A j \in Jobs : RunsLeft(j)' \subseteq RunsLeft(j) \union ({n} \X (0..MaxRetries))
  BY <1>3
<1> QED
  BY <1>1, <1>4, OneMessageMore

(* The published retry takes over what its run had left.                    *)
LEMMA RetryBudget ==
  ASSUME TypeOK, Budget, NEW d \in Deliveries, Retry(d)
  PROVE  Budget'
<1> PICK k, m, n : k = delivery[d].job /\ m = delivery[d].retries /\ n = NextFree
  OBVIOUS
<1>1. /\ d \in Live /\ delivery[d].pc = "failed" /\ m \in 0..MaxRetries /\ m < MaxRetries
      /\ UNCHANGED <<accepted, applied, faults>> /\ TypeOK'
  BY LiveTyped, RetryTyped DEF Retry, At, Message
<1>2. /\ n \in Deliveries /\ n \notin Live
      /\ delivery' = [delivery EXCEPT ![d].pc = "storeRetry", ![d].retried = TRUE,
                                      ![n] = Queued(k, m + 1)]
  BY NextFreeIsFree DEF Retry, Live
<1>3. /\ delivery'[n].job = k /\ delivery'[n].pc = "queued"
      /\ delivery'[n].retries = m + 1
  BY <1>1, <1>2 DEF TypeOK, Queued
<1>4. delivery'[d].pc = "storeRetry"
  BY <1>1, <1>2, LiveTyped DEF TypeOK, Message
<1>5. \A e \in Deliveries : e \notin {d, n} => delivery'[e] = delivery[e]
  BY <1>2 DEF TypeOK
<1>6. ASSUME NEW j \in Jobs PROVE Cardinality(RunsLeft(j)') <= Cardinality(RunsLeft(j))
  <2> DEFINE g == [x \in RunsLeft(j)' |-> IF x[1] = n THEN <<d, x[2]>> ELSE x]
  <2>1. \A x \in RunsLeft(j)' : x \in Deliveries \X (0..MaxRetries) /\ x[1] # d
    BY <1>4 DEF RunsLeft, RunsAt
  <2>2. \A x \in RunsLeft(j)' : x[1] = n => k = j /\ x[2] > m
    BY <1>1, <1>3 DEF RunsLeft, RunsAt
  <2>3. ASSUME NEW x \in RunsLeft(j)', x[1] = n PROVE <<d, x[2]>> \in RunsLeft(j)
    BY <1>1, <2>1, <2>2, <2>3 DEF RunsLeft, RunsAt, Live
  <2>4. ASSUME NEW x \in RunsLeft(j)', x[1] # n PROVE x \in RunsLeft(j)
    BY <1>5, <2>1, <2>4 DEF RunsLeft
  <2>5. g \in [RunsLeft(j)' -> RunsLeft(j)]
    BY <2>3, <2>4
  <2>6. ASSUME NEW x \in RunsLeft(j)', NEW y \in RunsLeft(j)', g[x] = g[y] PROVE x = y
    BY <2>1, <2>6
  <2>7. g \in Injection(RunsLeft(j)', RunsLeft(j))
    BY <2>5, <2>6 DEF Injection, IsInjective
  <2> QED
    BY <2>7, RunsLeftFinite, FS_Injection
<1>7. ASSUME NEW j \in Jobs
      PROVE  applied'[j] + Cardinality(RunsLeft(j)') <= applied[j] + Cardinality(RunsLeft(j))
  BY <1>1, <1>6, RunsLeftFinite DEF TypeOK
<1>8. faults <= faults'
  BY <1>1 DEF TypeOK
<1> QED
  BY <1>1, <1>7, <1>8, NoMoreRuns

LEMMA AckBudget ==
  ASSUME TypeOK, Budget, NEW d \in Deliveries, Ack(d)
  PROVE  Budget'
<1>1. /\ delivery'[d] = None /\ UNCHANGED <<accepted, applied, faults>> /\ TypeOK'
      /\ \A e \in Deliveries : e # d => delivery'[e] = delivery[e]
  BY AckTyped DEF TypeOK, Ack
<1>2. \A j \in Jobs : RunsLeft(j)' \subseteq RunsLeft(j)
  BY <1>1 DEF RunsLeft
<1>3. faults <= faults'
  BY <1>1 DEF TypeOK
<1> QED
  BY <1>1, <1>2, <1>3, FewerRuns

(* A new job has no commits and no messages, and now one with all its runs. *)
LEMMA AcceptBudget ==
  ASSUME TypeOK, Budget, NEW k \in Jobs, NEW r \in Requests, Accept(k, r)
  PROVE  Budget'
<1> PICK n : n = NextFree
  OBVIOUS
<1>1. /\ n \in Deliveries /\ n \notin Live
      /\ delivery' = [delivery EXCEPT ![n] = Queued(k, 0)]
      /\ accepted[k] = None /\ UNCHANGED <<applied, faults>> /\ TypeOK'
  BY NextFreeIsFree, AcceptTyped DEF Accept, Live
<1>2. delivery'[n].job = k
  BY <1>1 DEF TypeOK, Queued
<1>3. \A e \in Deliveries : e # n => delivery'[e] = delivery[e]
  BY <1>1 DEF TypeOK
<1> SUFFICES ASSUME NEW j \in Jobs
             PROVE  /\ accepted'[j] = None => applied'[j] = 0
                    /\ applied'[j] + Cardinality(RunsLeft(j)')
                         <= (MaxRetries + 1) * (1 + faults')
  BY DEF Budget
<1>4. applied[j] \in Nat /\ faults \in Nat
  BY SizesAssumption DEF TypeOK
<1>5. CASE j # k
  <2>1. RunsLeft(j)' \subseteq RunsLeft(j)
    BY <1>2, <1>3, <1>5 DEF RunsLeft
  <2>2. Cardinality(RunsLeft(j)') <= Cardinality(RunsLeft(j))
    BY <2>1, RunsLeftFinite, FS_Subset
  <2>3. accepted'[j] = accepted[j]
    BY <1>5 DEF TypeOK, Accept
  <2> QED
    BY <1>1, <1>4, <2>2, <2>3, RunsLeftFinite, AllowanceGrows DEF Budget
<1>6. CASE j = k
  <2>1. applied[j] = 0
    BY <1>1, <1>6 DEF Budget
  <2>2. \A e \in Deliveries : delivery[e] # None => delivery[e].job # k
    BY <1>1 DEF TypeOK, Live
  <2>3. RunsLeft(j)' \subseteq {n} \X (0..MaxRetries)
    BY <1>3, <1>6, <2>2 DEF RunsLeft
  <2>4. Cardinality(RunsLeft(j)') <= MaxRetries + 1
    <3> DEFINE all == {n} \X (0..MaxRetries)
    <3>1. RunsLeft(j)' \subseteq all /\ IsFiniteSet(all) /\ Cardinality(all) = MaxRetries + 1
      BY <2>3, OneMessagesRuns
    <3> HIDE DEF all
    <3> QED
      BY <3>1, FS_Subset
  <2>5. /\ MaxRetries + 1 <= (MaxRetries + 1) * (1 + faults)
        /\ (MaxRetries + 1) * (1 + faults) \in Nat /\ MaxRetries \in Nat
    BY <1>4, AllowanceGrows, SizesAssumption
  <2> QED
    BY <1>1, <2>1, <2>4, <2>5, RunsLeftFinite
<1> QED
  BY <1>5, <1>6

LEMMA StillBudget ==
  ASSUME TypeOK, TypeOK', Budget, UNCHANGED <<accepted, delivery, applied, faults>>
  PROVE  Budget'
<1>1. \A j \in Jobs : RunsLeft(j)' \subseteq RunsLeft(j)
  BY DEF RunsLeft
<1>2. faults <= faults'
  BY DEF TypeOK
<1> QED
  BY <1>1, <1>2, FewerRuns

LEMMA NextBudget == TypeOK /\ Budget /\ [Next]_vars => Budget'
<1> SUFFICES ASSUME TypeOK, Budget, [Next]_vars PROVE Budget'
  OBVIOUS
<1>1. ASSUME NEW j \in Jobs, NEW r \in Requests, Accept(j, r) PROVE Budget'
  BY <1>1, AcceptBudget
<1>2. ASSUME NEW d \in Deliveries, Progress(d) PROVE Budget'
  BY <1>2, RunBudget, WriteBudget, RetryBudget, AckBudget DEF Progress
<1>3. ASSUME NEW d \in Deliveries,
             Republish(d) \/ DbError(d) \/ Crash(d) \/ RedisError(d)
      PROVE  Budget'
  BY <1>3, RunBudget, CrashBudget, RepublishBudget
<1>4. CASE (\E j \in Jobs : ExpireResult(j)) \/ Idle \/ UNCHANGED vars
  <2>1. UNCHANGED <<accepted, delivery, applied, faults>>
    BY <1>4 DEF ExpireResult, Idle, vars
  <2>2. TypeOK'
    BY NextTypeOK
  <2> QED
    BY <2>1, <2>2, StillBudget
<1> QED
  BY <1>1, <1>2, <1>3, <1>4 DEF Next

(* However its retries and redeliveries interleave, a job changes the table *)
(* at most MaxRetries + 1 times, and again as often for each fault.         *)
THEOREM JobsApplyBounded == Spec => []AppliedBounded
<1>1. TypeOK /\ Budget /\ [Next]_vars => TypeOK' /\ Budget'
  BY NextTypeOK, NextBudget
<1>2. Init => TypeOK /\ Budget
  BY InitTypeOK, InitBudget
<1> QED
  BY <1>1, <1>2, BudgetSuffices, PTL DEF Spec

--------------------------------------------------------------------------------
(* How many workers can be in one job at a time: a message that is over     *)
(* stays over but for a crash, and a retry is unsettled in the place of the *)
(* message that published it.                                               *)
LEMMA UnsettledFinite ==
  ASSUME NEW j
  PROVE  /\ IsFiniteSet(Unsettled(j)) /\ Cardinality(Unsettled(j)) \in Nat
         /\ IsFiniteSet(Unsettled(j)') /\ Cardinality(Unsettled(j)') \in Nat
<1>1. Unsettled(j) \subseteq Deliveries /\ Unsettled(j)' \subseteq Deliveries
  BY DEF Unsettled, Live
<1> QED
  BY <1>1, SizesAssumption, FS_Subset, FS_CardinalityType

LEMMA InitOverlaps == Init => OverlapsBounded
<1> SUFFICES ASSUME Init, NEW j \in Jobs
             PROVE  Cardinality(Unsettled(j)) <= 1 + faults
  BY DEF OverlapsBounded
<1>1. Unsettled(j) = {} /\ faults = 0
  BY DEF Init, Unsettled, Live
<1> QED
  BY <1>1, FS_EmptySet

LEMMA NoMoreOverlaps ==
  ASSUME TypeOK, TypeOK', OverlapsBounded, faults <= faults',
         \A j \in Jobs : Cardinality(Unsettled(j)') <= Cardinality(Unsettled(j))
  PROVE  OverlapsBounded'
<1> SUFFICES ASSUME NEW j \in Jobs PROVE Cardinality(Unsettled(j)') <= 1 + faults'
  BY DEF OverlapsBounded
<1>1. faults \in Nat /\ faults' \in Nat
  BY SizesAssumption DEF TypeOK
<1> QED
  BY <1>1, UnsettledFinite DEF OverlapsBounded

LEMMA FewerOverlaps ==
  ASSUME TypeOK, TypeOK', OverlapsBounded, faults <= faults',
         \A j \in Jobs : Unsettled(j)' \subseteq Unsettled(j)
  PROVE  OverlapsBounded'
<1>1. \A j \in Jobs : Cardinality(Unsettled(j)') <= Cardinality(Unsettled(j))
  BY UnsettledFinite, FS_Subset
<1> QED
  BY <1>1, NoMoreOverlaps

LEMMA OnwardOverlaps ==
  ASSUME TypeOK, NEW d \in Live, NEW label, Moved(d, label),
         Over(d) => label \in {"storeRetry", "ack"}
  PROVE  \A j \in Jobs : Unsettled(j)' \subseteq Unsettled(j)
BY DEF Moved, Unsettled, Live, Over

LEMMA RunOverlaps ==
  ASSUME TypeOK, OverlapsBounded, NEW d \in Deliveries,
         \/ Start(d) \/ Select(d) \/ Insert(d) \/ Update(d) \/ Delete(d) \/ Refresh(d)
         \/ StoreSuccess(d) \/ StoreRetry(d) \/ StoreFailure(d) \/ Push(d) \/ Trim(d)
         \/ DbError(d) \/ RedisError(d)
  PROVE  OverlapsBounded'
<1>1. d \in Live
  BY DEF Start, Select, Insert, Update, Delete, Refresh, StoreSuccess, StoreRetry,
         StoreFailure, Push, Trim, DbError, RedisError, At
<1>2. TypeOK'
  BY StartTyped, SelectTyped, InsertTyped, UpdateTyped, DeleteTyped, RefreshTyped,
     StoreSuccessTyped, StoreRetryTyped, StoreFailureTyped, PushTyped, TrimTyped,
     DbErrorTyped, RedisErrorTyped
<1>3. faults <= faults'
  <2>1. CASE Insert(d) \/ Update(d) \/ Delete(d)
    <3>1. UNCHANGED faults \/ \E t, row, next : Commit(d, t, row, next)
      BY <2>1 DEF Insert, Update, Delete
    <3> QED
      BY <3>1, CommitFaults DEF TypeOK
  <2>2. CASE ~(Insert(d) \/ Update(d) \/ Delete(d))
    <3>1. faults' = faults \/ faults' = faults + 1
      BY <2>2 DEF Start, Select, Refresh, StoreSuccess, StoreRetry, StoreFailure, Push,
                  Trim, DbError, RedisError, Fault
    <3> QED
      BY <3>1 DEF TypeOK
  <2> QED
    BY <2>1, <2>2
<1>4. \E label : Moved(d, label) /\ (Over(d) => label = "ack")
  <2>1. CASE StoreRetry(d) \/ RedisError(d)
    BY <2>1, StoreRetryTyped, RedisErrorTyped
  <2>2. CASE ~(StoreRetry(d) \/ RedisError(d))
    <3>1. ~Over(d)
      BY <2>2 DEF Over, Start, Select, Insert, Update, Delete, Refresh, StoreSuccess,
                  StoreFailure, Push, Trim, DbError, At
    <3>2. \E label : Moved(d, label)
      BY <2>2, StartTyped, SelectTyped, InsertTyped, UpdateTyped, DeleteTyped, RefreshTyped,
         StoreSuccessTyped, StoreFailureTyped, PushTyped, TrimTyped, DbErrorTyped
    <3> QED
      BY <3>1, <3>2
  <2> QED
    BY <2>1, <2>2
<1> QED
  BY <1>1, <1>2, <1>3, <1>4, OnwardOverlaps, FewerOverlaps

(* A worker lost to a fault brings at most its own message back.            *)
LEMMA CrashOverlaps ==
  ASSUME TypeOK, OverlapsBounded, NEW d \in Deliveries, Crash(d)
  PROVE  OverlapsBounded'
<1>1. d \in Live /\ faults' = faults + 1 /\ Moved(d, "queued")
  BY CrashTyped DEF Crash, Running, Fault
<1>2. faults \in Nat
  BY SizesAssumption DEF TypeOK
<1> SUFFICES ASSUME NEW j \in Jobs PROVE Cardinality(Unsettled(j)') <= 1 + faults'
  BY DEF OverlapsBounded
<1>3. Unsettled(j)' \subseteq Unsettled(j) \union {d}
  BY <1>1 DEF Moved, Unsettled, Live
<1>4. Cardinality(Unsettled(j)') <= Cardinality(Unsettled(j)) + 1
  BY <1>3, UnsettledFinite, OneMore
<1> QED
  BY <1>1, <1>2, <1>4, UnsettledFinite DEF OverlapsBounded

(* ... and a publication that is repeated one more.                         *)
LEMMA RepublishOverlaps ==
  ASSUME TypeOK, OverlapsBounded, NEW d \in Deliveries, Republish(d)
  PROVE  OverlapsBounded'
<1> PICK n : n = NextFree
  OBVIOUS
<1>1. /\ faults' = faults + 1
      /\ delivery' = [delivery EXCEPT ![n] = Queued(delivery[d].job, delivery[d].retries)]
  BY DEF Republish, Fault
<1>2. faults \in Nat
  BY SizesAssumption DEF TypeOK
<1> SUFFICES ASSUME NEW j \in Jobs PROVE Cardinality(Unsettled(j)') <= 1 + faults'
  BY DEF OverlapsBounded
<1>3. \A e \in Deliveries : e # n => delivery'[e] = delivery[e]
  BY <1>1 DEF TypeOK
<1>4. Unsettled(j)' \subseteq Unsettled(j) \union {n}
  BY <1>3 DEF Unsettled, Live
<1>5. Cardinality(Unsettled(j)') <= Cardinality(Unsettled(j)) + 1
  BY <1>4, UnsettledFinite, OneMore
<1> QED
  BY <1>1, <1>2, <1>5, UnsettledFinite DEF OverlapsBounded

LEMMA RetryOverlaps ==
  ASSUME TypeOK, OverlapsBounded, NEW d \in Deliveries, Retry(d)
  PROVE  OverlapsBounded'
<1> PICK k, n : k = delivery[d].job /\ n = NextFree
  OBVIOUS
<1>1. /\ d \in Live /\ delivery[d].pc = "failed" /\ UNCHANGED faults /\ TypeOK'
  BY RetryTyped DEF Retry, At
<1>2. /\ n \in Deliveries /\ n \notin Live
      /\ delivery' = [delivery EXCEPT ![d].pc = "storeRetry", ![d].retried = TRUE,
                                      ![n] = Queued(k, delivery[d].retries + 1)]
  BY NextFreeIsFree DEF Retry, Live
<1>3. delivery'[n].job = k /\ delivery'[d].pc = "storeRetry"
  BY <1>1, <1>2, LiveTyped DEF TypeOK, Message, Queued
<1>4. \A e \in Deliveries : e \notin {d, n} => delivery'[e] = delivery[e]
  BY <1>2 DEF TypeOK
<1>5. ASSUME NEW j \in Jobs PROVE Cardinality(Unsettled(j)') <= Cardinality(Unsettled(j))
  <2>1. CASE j # k
    <3>1. Unsettled(j)' \subseteq Unsettled(j)
      BY <1>3, <1>4, <2>1 DEF Unsettled, Live
    <3> QED
      BY <3>1, UnsettledFinite, FS_Subset
  <2>2. CASE j = k
    <3>1. Unsettled(j)' \subseteq (Unsettled(j) \ {d}) \union {n}
      BY <1>3, <1>4 DEF Unsettled, Live
    <3>2. d \in Unsettled(j)
      BY <1>1, <2>2 DEF Unsettled
    <3>3. /\ IsFiniteSet(Unsettled(j) \ {d})
          /\ Cardinality(Unsettled(j) \ {d}) = Cardinality(Unsettled(j)) - 1
      BY <3>2, UnsettledFinite, FS_RemoveElement
    <3>4. Cardinality(Unsettled(j)') <= Cardinality(Unsettled(j) \ {d}) + 1
      BY <3>1, <3>3, OneMore
    <3> QED
      BY <3>3, <3>4, UnsettledFinite
  <2> QED
    BY <2>1, <2>2
<1>6. faults <= faults'
  BY <1>1 DEF TypeOK
<1> QED
  BY <1>1, <1>5, <1>6, NoMoreOverlaps

LEMMA AcceptOverlaps ==
  ASSUME TypeOK, OverlapsBounded, NEW k \in Jobs, NEW r \in Requests, Accept(k, r)
  PROVE  OverlapsBounded'
<1> PICK n : n = NextFree
  OBVIOUS
<1>1. /\ n \in Deliveries /\ n \notin Live
      /\ delivery' = [delivery EXCEPT ![n] = Queued(k, 0)]
      /\ accepted[k] = None /\ UNCHANGED faults
  BY NextFreeIsFree DEF Accept, Live
<1>2. delivery'[n].job = k
  BY <1>1 DEF TypeOK, Queued
<1>3. \A e \in Deliveries : e # n => delivery'[e] = delivery[e]
  BY <1>1 DEF TypeOK
<1>4. faults \in Nat
  BY SizesAssumption DEF TypeOK
<1> SUFFICES ASSUME NEW j \in Jobs PROVE Cardinality(Unsettled(j)') <= 1 + faults'
  BY DEF OverlapsBounded
<1>5. CASE j # k
  <2>1. Unsettled(j)' \subseteq Unsettled(j)
    BY <1>2, <1>3, <1>5 DEF Unsettled, Live
  <2>2. Cardinality(Unsettled(j)') <= Cardinality(Unsettled(j))
    BY <2>1, UnsettledFinite, FS_Subset
  <2> QED
    BY <1>1, <1>4, <2>2, UnsettledFinite DEF OverlapsBounded
<1>6. CASE j = k
  <2>1. \A e \in Live : delivery[e].job # k
    BY <1>1 DEF TypeOK
  <2>2. Unsettled(j)' \subseteq {n}
    BY <1>3, <1>6, <2>1 DEF Unsettled, Live
  <2>3. Cardinality(Unsettled(j)') <= 1
    BY <2>2, FS_EmptySet, OneMore
  <2> QED
    BY <1>1, <1>4, <2>3, UnsettledFinite
<1> QED
  BY <1>5, <1>6

LEMMA NextOverlaps == TypeOK /\ OverlapsBounded /\ [Next]_vars => OverlapsBounded'
<1> SUFFICES ASSUME TypeOK, OverlapsBounded, [Next]_vars PROVE OverlapsBounded'
  OBVIOUS
<1>1. ASSUME NEW j \in Jobs, NEW r \in Requests, Accept(j, r) PROVE OverlapsBounded'
  BY <1>1, AcceptOverlaps
<1>2. ASSUME NEW d \in Deliveries, Ack(d) PROVE OverlapsBounded'
  <2>1. \A j \in Jobs : Unsettled(j)' \subseteq Unsettled(j)
    BY <1>2 DEF Ack, TypeOK, Unsettled, Live
  <2>2. faults <= faults'
    BY <1>2 DEF Ack, TypeOK
  <2> QED
    BY <2>1, <2>2, NextTypeOK, FewerOverlaps
<1>3. ASSUME NEW d \in Deliveries, Progress(d) PROVE OverlapsBounded'
  BY <1>2, <1>3, RunOverlaps, RetryOverlaps DEF Progress
<1>4. ASSUME NEW d \in Deliveries,
             Republish(d) \/ DbError(d) \/ Crash(d) \/ RedisError(d)
      PROVE  OverlapsBounded'
  BY <1>4, RunOverlaps, CrashOverlaps, RepublishOverlaps
<1>5. CASE (\E j \in Jobs : ExpireResult(j)) \/ Idle \/ UNCHANGED vars
  <2>1. UNCHANGED <<delivery, faults>>
    BY <1>5 DEF ExpireResult, Idle, vars
  <2> QED
    BY <2>1 DEF OverlapsBounded, Unsettled, Live
<1> QED
  BY <1>1, <1>3, <1>4, <1>5 DEF Next

(* Only faults make a job's runs overlap: at any time at most one of its    *)
(* messages can still run, and one more for each fault.                     *)
THEOREM RunsRarelyOverlap == Spec => []OverlapsBounded
<1>1. TypeOK /\ OverlapsBounded /\ [Next]_vars => TypeOK' /\ OverlapsBounded'
  BY NextTypeOK, NextOverlaps
<1>2. Init => TypeOK /\ OverlapsBounded
  BY InitTypeOK, InitOverlaps
<1> QED
  BY <1>1, <1>2, PTL DEF Spec

================================================================================
