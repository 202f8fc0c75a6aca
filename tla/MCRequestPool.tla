----------------------------- MODULE MCRequestPool -----------------------------
(***************************************************************************)
(* An instance of RequestPool for TLC.                                     *)
(***************************************************************************)
EXTENDS RequestPool, TLC

CONSTANTS ann, ben, cat

MCRoute == ann :> "write" @@ ben :> "register" @@ cat :> "login"
MCTries == ann :> 2 @@ ben :> 1 @@ cat :> 1
================================================================================
