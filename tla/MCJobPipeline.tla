----------------------------- MODULE MCJobPipeline -----------------------------
(***************************************************************************)
(* Instances of JobPipeline for TLC: two users, one task that is there from *)
(* the start, and requests that meet on it.                                 *)
(***************************************************************************)
EXTENDS JobLedger, TLC

CONSTANTS alice, bob, milk, bread, t1, t2, t3, t4, t5, t6, t7

Create(u, title) == [kind |-> "create", owner_id |-> u, task_id |-> None,
                     title |-> title, is_done |-> None]
Patch(u, t, title, done) == [kind |-> "update", owner_id |-> u, task_id |-> t,
                             title |-> title, is_done |-> done]
Remove(u, t) == [kind |-> "delete", owner_id |-> u, task_id |-> t,
                 title |-> None, is_done |-> None]

\* Alice creates, edits both columns and deletes; Bob edits Alice's task.
MCRequests ==
  {Create(alice, milk), Patch(alice, t1, None, TRUE), Patch(bob, t1, bread, None)}
    \union {Patch(alice, t, bread, None) : t \in {t1, t2}}
    \union {Remove(alice, t) : t \in {t1, t2}}

\* One request of each kind, and deletes alone: what the dead letter list makes
\* of failed jobs is the same for all of them.
MCEachKind ==
  {Create(alice, milk), Patch(alice, t1, bread, None), Remove(alice, t1)}
MCDeletes == {Remove(alice, t1)}

MCUsers == {alice, bob}
MCTitles == {milk, bread}
MCTaskIds == {t1, t2, t3, t4, t5, t6, t7}
MCInitialRows ==
  t1 :> [owner_id |-> alice, title |-> milk, is_done |-> FALSE]
MCDeliveries == 1..4
JobSymmetry == Permutations(Jobs)
================================================================================
