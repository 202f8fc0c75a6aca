------------------------------- MODULE RequestPool -------------------------------
(***************************************************************************)
(* How one API process carries out requests with a bounded number of       *)
(* threads and of database connections. Every synchronous dependency and   *)
(* handler waits for a thread of its own; get_current_user, or the handler *)
(* of a route without it, takes a connection in its thread, and get_db     *)
(* gives it back only after the response was made. So a request holds a    *)
(* connection while it waits for a thread, and another holds a thread      *)
(* while it waits for a connection:                                        *)
(*                                                                         *)
(*   write, read  toAuth -> connect -> select -> toHandler -> handler -> toReply *)
(*   login        toLogin -> connect -> handler -> toReply                 *)
(*   register     toLogin -> connect -> select -> reconnect -> handler -> toReply *)
(*                                                                         *)
(* At connect, select, reconnect and handler a request has a thread; at    *)
(* select, toHandler, handler and toReply it has a connection.             *)
(* TimeoutMiddleware answers 504 at any of these points, and the request   *)
(* is carried on all the same.                                             *)
(***************************************************************************)
EXTENDS Integers, FiniteSets

CONSTANTS
  Clients,      \* each wants one thing done
  Route,        \* what it is: "write", "read", "login" or "register"
  MaxTries,     \* bound on the requests any client sends for it
  Tries,        \* the bound of each client
  MaxResent,    \* bound on the publications repeated for any client
  Threads,      \* threads for synchronous code, 40
  Connections,  \* pool_size + max_overflow, 30
  None          \* no such request in progress

ASSUME SizesAssumption ==
  /\ IsFiniteSet(Clients) /\ MaxTries \in Nat /\ Tries \in [Clients -> 0..MaxTries]
  /\ Route \in [Clients -> {"write", "read", "login", "register"}]
  /\ Threads \in Nat \ {0} /\ Connections \in Nat \ {0} /\ MaxResent \in Nat

Requests == Clients \X (1..MaxTries)

Labels == {"toAuth", "toLogin", "connect", "select", "reconnect", "toHandler",
           "handler", "toReply"}

Run == [pc : Labels, answered : BOOLEAN]

ASSUME NoneAssumption == None \notin Run

VARIABLES
  run,       \* the requests in progress, answered 504 already or not
  sent,      \* requests each client has sent
  \* history, read by no action of the program:
  enqueued,  \* jobs put into the broker's queue for each client
  accepted,  \* 202s, 200s or 201s each client got
  unsure,    \* answers of each client that leave open whether a job was enqueued
  resent     \* publications repeated for each client because Redis' reply was lost

vars == <<run, sent, enqueued, accepted, unsure, resent>>

At(r, label) == run[r] # None /\ run[r].pc = label
Goto(r, label) == run' = [run EXCEPT ![r].pc = label]
End(r) == run' = [run EXCEPT ![r] = None]

\* Defect: a request keeps its thread while it waits for that of the handler.
InThreadKept ==
  {r \in Requests : \E l \in {"connect", "select", "reconnect", "toHandler", "handler"} :
     At(r, l)}

InThread ==
  {r \in Requests : \E l \in {"connect", "select", "reconnect", "handler"} : At(r, l)}

Connected ==
  {r \in Requests : \E l \in {"select", "toHandler", "handler", "toReply"} : At(r, l)}
ThreadFree == Cardinality(InThread) < Threads
ConnectionFree == Cardinality(Connected) < Connections

Init ==
  /\ run = [r \in Requests |-> None]
  /\ sent = [c \in Clients |-> 0]
  /\ enqueued = [c \in Clients |-> 0]
  /\ accepted = [c \in Clients |-> 0]
  /\ unsure = [c \in Clients |-> 0]
  /\ resent = [c \in Clients |-> 0]

--------------------------------------------------------------------------------
(* A client sends its request, once more when the last one was refused or    *)
(* answered 500 or 504.                                                      *)
Send(c) ==
  /\ accepted[c] = 0
  /\ \A r \in Requests : r[1] = c /\ run[r] # None => run[r].answered
  /\ sent[c] < Tries[c]
  /\ sent' = [sent EXCEPT ![c] = @ + 1]
  /\ \E l \in {"toAuth", "toLogin"} :
       /\ l = "toAuth" <=> Route[c] \in {"write", "read"}
       /\ run' = [run EXCEPT ![<<c, sent[c] + 1>>] = [pc |-> l, answered |-> FALSE]]
  /\ UNCHANGED <<enqueued, accepted, unsure, resent>>

(* A thread for get_current_user, or for the handler.                        *)
TakeThread(r) ==
  /\ ThreadFree
  /\ \/ At(r, "toAuth") /\ Goto(r, "connect")
     \/ At(r, "toLogin") /\ Goto(r, "connect")
     \/ At(r, "toHandler") /\ Goto(r, "handler")
  /\ UNCHANGED <<sent, enqueued, accepted, unsure, resent>>

\* Defect: the pool hands out connections without a limit.
ConnectUnbounded(r) ==
  /\ \/ At(r, "connect") /\ Route[r[1]] # "login" /\ Goto(r, "select")
     \/ At(r, "connect") /\ Route[r[1]] = "login" /\ Goto(r, "handler")
     \/ At(r, "reconnect") /\ Goto(r, "handler")
  /\ UNCHANGED <<sent, enqueued, accepted, unsure, resent>>

(* The first statement of a session, or of its next transaction, takes a     *)
(* connection from the pool.                                                 *)
Connect(r) ==
  /\ ConnectionFree
  /\ \/ At(r, "connect") /\ Route[r[1]] # "login" /\ Goto(r, "select")
     \/ At(r, "connect") /\ Route[r[1]] = "login" /\ Goto(r, "handler")
     \/ At(r, "reconnect") /\ Goto(r, "handler")
  /\ UNCHANGED <<sent, enqueued, accepted, unsure, resent>>

Connecting(r) == At(r, "connect") \/ At(r, "reconnect")

\* Defect: the wait for a connection has no end.
PoolWaits(r) ==
  /\ Connecting(r)
  /\ ~ConnectionFree
  /\ UNCHANGED vars

(* pool_timeout: 30 seconds without a connection raise, and the client gets  *)
(* a 500 if it has not got its 504 by then.                                  *)
PoolTimeout(r) ==
  /\ Connecting(r)
  /\ ~ConnectionFree
  /\ End(r)
  /\ UNCHANGED <<sent, enqueued, accepted, unsure, resent>>

(* The user was found; the thread is free again, the connection is not.      *)
Select(r) ==
  /\ At(r, "select") /\ Route[r[1]] # "register"
  /\ Goto(r, "toHandler")
  /\ UNCHANGED <<sent, enqueued, accepted, unsure, resent>>

(* create_user: the commit gives the connection back to the pool, and the    *)
(* refresh has to take one again.                                            *)
CommitUser(r) ==
  /\ At(r, "select") /\ Route[r[1]] = "register"
  /\ Goto(r, "reconnect")
  /\ UNCHANGED <<sent, enqueued, accepted, unsure, resent>>

(* 401 without session or user, 409, 423, 500 if Redis or PostgreSQL raise,  *)
(* 429 from the limiter that wraps the handler: nothing was enqueued.        *)
Refuse(r) ==
  /\ \E l \in {"connect", "select", "reconnect", "handler"} : At(r, l)
  /\ End(r)
  /\ UNCHANGED <<sent, enqueued, accepted, unsure, resent>>

(* The handler of any other route is done.                                   *)
Finish(r) ==
  /\ At(r, "handler") /\ Route[r[1]] # "write"
  /\ Goto(r, "toReply")
  /\ UNCHANGED <<sent, enqueued, accepted, unsure, resent>>

(* The handler: .delay() has put the job into the queue.                     *)
Publish(r) ==
  /\ At(r, "handler") /\ Route[r[1]] = "write"
  /\ enqueued' = [enqueued EXCEPT ![r[1]] = @ + 1]
  /\ Goto(r, "toReply")
  /\ UNCHANGED <<sent, accepted, unsure, resent>>

(* Redis has taken the job, but the connection broke before its reply:       *)
(* .delay() will publish the job once more, as Celery's task_publish_retry,  *)
(* which celery_app.py leaves on, tells it to.                               *)
PublishAgain(r) ==
  /\ At(r, "handler") /\ Route[r[1]] = "write"
  /\ resent[r[1]] < MaxResent
  /\ enqueued' = [enqueued EXCEPT ![r[1]] = @ + 1]
  /\ resent' = [resent EXCEPT ![r[1]] = @ + 1]
  /\ UNCHANGED <<run, sent, accepted, unsure>>

\* Defect: the handler catches what .delay() raises, and answers 202.
PublishFailureHidden(r) ==
  /\ At(r, "handler") /\ Route[r[1]] = "write"
  /\ \E taken \in {0, 1} : enqueued' = [enqueued EXCEPT ![r[1]] = @ + taken]
  /\ Goto(r, "toReply")
  /\ UNCHANGED <<sent, accepted, unsure, resent>>

(* .delay() has no tries left and raises, and Redis may have taken the job   *)
(* of the last one.                                                          *)
PublishFails(r) ==
  /\ At(r, "handler") /\ Route[r[1]] = "write"
  /\ \E taken \in {0, 1} : enqueued' = [enqueued EXCEPT ![r[1]] = @ + taken]
  /\ unsure' = IF run[r].answered THEN unsure ELSE [unsure EXCEPT ![r[1]] = @ + 1]
  /\ End(r)
  /\ UNCHANGED <<sent, accepted, resent>>

(* The response is validated, in a thread again; get_db closes the session;  *)
(* the client gets its answer, unless it had a 504.                          *)
Reply(r) ==
  /\ At(r, "toReply")
  /\ ThreadFree
  /\ accepted' = IF run[r].answered THEN accepted
                 ELSE [accepted EXCEPT ![r[1]] = @ + 1]
  /\ End(r)
  /\ UNCHANGED <<sent, enqueued, unsure, resent>>

(* TimeoutMiddleware: 504 after 30 seconds.                                  *)
Timeout(r) ==
  /\ run[r] # None
  /\ ~run[r].answered
  /\ run' = [run EXCEPT ![r].answered = TRUE]
  /\ unsure' = [unsure EXCEPT ![r[1]] = @ + 1]
  /\ UNCHANGED <<sent, enqueued, accepted, resent>>

Idle ==
  /\ \A r \in Requests : run[r] = None
  /\ \A c \in Clients : accepted[c] > 0 \/ sent[c] = Tries[c]
  /\ UNCHANGED vars

Progress(r) ==
  \/ TakeThread(r) \/ Connect(r) \/ PoolTimeout(r) \/ Select(r) \/ CommitUser(r)
  \/ Publish(r) \/ Finish(r) \/ Reply(r)

Next ==
  \/ \E c \in Clients : Send(c)
  \/ \E r \in Requests :
       Progress(r) \/ Refuse(r) \/ PublishAgain(r) \/ PublishFails(r) \/ Timeout(r)
  \/ Idle

\* Calls return, a free thread is given to who waits for it, and the pool's
\* timeout ends its waits.
Spec == Init /\ [][Next]_vars /\ \A r \in Requests : WF_vars(Progress(r))

--------------------------------------------------------------------------------
(* Every variable has its type, only requests that were sent are in          *)
(* progress, and threads and connections are enough for those that hold one. *)
TypeOK ==
  /\ run \in [Requests -> Run \union {None}]
  /\ sent \in [Clients -> 0..MaxTries]
  /\ enqueued \in [Clients -> Nat]
  /\ accepted \in [Clients -> Nat]
  /\ unsure \in [Clients -> Nat]
  /\ resent \in [Clients -> Nat]
  /\ \A r \in Requests : run[r] # None => r[2] <= sent[r[1]]
  /\ Cardinality(InThread) <= Threads
  /\ Cardinality(Connected) <= Connections

\* Requests of client c whose job is in the queue and whose answer is to come.
ToTell(c) == {r \in Requests : r[1] = c /\ At(r, "toReply") /\ ~run[r].answered}

Writers == {c \in Clients : Route[c] = "write"}

(* For each 202 a client got, a job was enqueued; and beyond these, and those  *)
(* it is about to be told of, at most one for each answer that left it open    *)
(* and for each publication Celery repeated: a client that only sends again    *)
(* what was refused with 401, 429 or the pool's 500 has its write enqueued     *)
(* once, unless Redis' reply to the publication was lost.                      *)
EnqueuedAsTold ==
  \A c \in Writers :
    LET told == accepted[c] + Cardinality(ToTell(c))
    IN  told <= enqueued[c] /\ enqueued[c] <= told + unsure[c] + resent[c]

InProgress == {r \in Requests : run[r] # None}

\* What request r does next waits for nothing, or for what is free.
CanMove(r) ==
  \/ \E l \in {"select", "handler"} : At(r, l)
  \/ ThreadFree /\ \E l \in {"toAuth", "toLogin", "toHandler", "toReply"} : At(r, l)
  \/ ConnectionFree /\ Connecting(r)

(* Requests that wait for a thread with their connection in hand and         *)
(* requests that wait for a connection in their thread block each other only *)
(* if they are as many as there are threads and connections together: with   *)
(* fewer, 70 in the service, some request goes on without the pool's timeout.*)
FewNeverBlock ==
  InProgress # {} /\ Cardinality(InProgress) < Threads + Connections
    => \E r \in InProgress : CanMove(r)

(* Every request comes to an end and gives back its thread and connection,   *)
(* even if all threads wait for connections that are held by requests        *)
(* waiting for a thread.                                                     *)
EverythingReturns == \A r \in Requests : run[r] # None ~> run[r] = None
================================================================================
