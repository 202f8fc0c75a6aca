-------------------------------- MODULE JobLedger --------------------------------
(***************************************************************************)
(* The job pipeline as an implementation of TaskLedger: the table is the   *)
(* ledger's own, a job is done with its first commit, and what the         *)
(* messages, the result backend and the dead letter list hold on the way   *)
(* does not show.                                                          *)
(***************************************************************************)
EXTENDS JobPipeline

Ledger == INSTANCE TaskLedger WITH
  asked <- accepted, minted <- Minted, done <- {j \in Jobs : applied[j] > 0},
  doubtful <- uncertain \union {j \in Jobs : copies[j] > 0}, settled <- ended

(* However the jobs of all users interleave: every commit of a worker is one *)
(* change of the ledger, made for its own job on a row of its own user as it *)
(* is at that moment, a task id is never used again, and no second change is *)
(* made for a job that was not in doubt before.                              *)
ImplementsLedger == Ledger!Safe

(* The same for a job with crashes, lost commit answers and Redis errors;    *)
(* and every job the API accepted is settled.                                *)
FulfilsLedger == Ledger!Spec
================================================================================
