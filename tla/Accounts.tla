-------------------------------- MODULE Accounts --------------------------------
(***************************************************************************)
(* Registration and login: the routes of main.py, user_service.py, and the *)
(* lockout keys of session_manager.py. A handler runs in a thread of some  *)
(* API process; each label of pc is one call to PostgreSQL or Redis that   *)
(* the handlers of other requests can come between:                        *)
(*                                                                         *)
(*   register:  lookup -> insert -> created -> idle                        *)
(*   login:     check -> verify -> clear -> idle                           *)
(*                          \----> count -> expire -> lock -> idle         *)
(*                                                                         *)
(* A successful login goes on to open a session: module Sessions.          *)
(***************************************************************************)
EXTENDS Integers, FiniteSets

CONSTANTS
  Names,       \* usernames, registered or not
  Passwords,
  Handlers,    \* requests in progress at once, over all API processes
  None,        \* no row
  Threshold,   \* _LOCKOUT_THRESHOLD, 5
  AttemptTTL,  \* _ATTEMPT_TTL in ticks
  LockTTL,     \* _LOCKOUT_TTL in ticks
  MaxAge,      \* ticks a handler lives through at most
  MaxFaults    \* bound on logins that break off with their failure half recorded

ASSUME SizesAssumption ==
  /\ IsFiniteSet(Handlers) /\ MaxAge \in Nat /\ MaxFaults \in Nat
  /\ Threshold \in Nat \ {0} /\ AttemptTTL \in Nat \ {0} /\ LockTTL \in Nat \ {0}

\* Assumed of the environment: the code bounds neither a request nor its calls,
\* but one that takes 15 minutes is not considered.
ASSUME TimesAssumption == AttemptTTL <= LockTTL /\ MaxAge < LockTTL

ASSUME NoneAssumption == None \notin Passwords

VARIABLES
  users,       \* the password of each row of table users
  failed,      \* failed_logins:<name>, 0 when there is no such key ...
  expiry,      \* ... its time to live, 0 when it has none
  locked,      \* time to live of locked:<name>, 0 when there is no such key
  handler,     \* the requests in progress
  \* history, read by no action of the program:
  registered,  \* registrations of each name answered 201
  unsure,      \* names whose row was inserted by a handler that then failed
  faults,      \* logins that broke off between incr and setex
  since        \* ticks each account has been locked for without a break

vars == <<users, failed, expiry, locked, handler, registered, unsure, faults, since>>

Handler == [pc : {"idle", "lookup", "insert", "created", "check", "verify",
                  "clear", "count", "expire", "lock"},
            name : Names \union {None}, password : Passwords \union {None},
            count : Nat, age : 0..MaxAge]

IdleHandler == [pc |-> "idle", name |-> None, password |-> None, count |-> 0, age |-> 0]

Begun(pc, n, p) ==
  [pc |-> pc, name |-> n, password |-> p, count |-> 0, age |-> 0]

At(h, label) == handler[h].pc = label
Goto(h, label) == handler' = [handler EXCEPT ![h].pc = label]
Answer(h) == handler' = [handler EXCEPT ![h] = IdleHandler]

Init ==
  /\ users = [n \in Names |-> None]
  /\ failed = [n \in Names |-> 0]
  /\ expiry = [n \in Names |-> 0]
  /\ locked = [n \in Names |-> 0]
  /\ handler = [h \in Handlers |-> IdleHandler]
  /\ registered = [n \in Names |-> 0]
  /\ unsure = {}
  /\ faults = 0
  /\ since = [n \in Names |-> 0]

--------------------------------------------------------------------------------
Register(h, n, p) ==
  /\ At(h, "idle")
  /\ handler' = [handler EXCEPT ![h] = Begun("lookup", n, p)]
  /\ UNCHANGED <<users, failed, expiry, locked, registered, unsure, faults, since>>

(* A name that is found is answered 409.                                     *)
Lookup(h) ==
  /\ At(h, "lookup")
  /\ IF users[handler[h].name] = None THEN Goto(h, "insert") ELSE Answer(h)
  /\ UNCHANGED <<users, failed, expiry, locked, registered, unsure, faults, since>>

\* Defect: the users table without its unique index.
InsertTwice(h) ==
  /\ At(h, "insert")
  /\ users' = [users EXCEPT ![handler[h].name] = handler[h].password]
  /\ Goto(h, "created")
  /\ UNCHANGED <<failed, expiry, locked, registered, unsure, faults, since>>

(* create_user: the commit breaks the unique index if another registration   *)
(* has taken the name since the lookup, and the client gets a 500.           *)
Insert(h) ==
  /\ At(h, "insert")
  /\ LET n == handler[h].name
     IN  \/ /\ users[n] = None
            /\ users' = [users EXCEPT ![n] = handler[h].password]
            /\ Goto(h, "created")
         \/ /\ users[n] # None
            /\ Answer(h)
            /\ UNCHANGED users
  /\ UNCHANGED <<failed, expiry, locked, registered, unsure, faults, since>>

(* db.refresh(user) and the answer 201.                                      *)
Created(h) ==
  /\ At(h, "created")
  /\ registered' = [registered EXCEPT ![handler[h].name] = @ + 1]
  /\ Answer(h)
  /\ UNCHANGED <<users, failed, expiry, locked, unsure, faults, since>>

--------------------------------------------------------------------------------
Login(h, n, p) ==
  /\ At(h, "idle")
  /\ handler' = [handler EXCEPT ![h] = Begun("check", n, p)]
  /\ UNCHANGED <<users, failed, expiry, locked, registered, unsure, faults, since>>

\* Defect: an attempt on a locked account locks it anew.
CheckRelocks(h) ==
  /\ At(h, "check")
  /\ Goto(h, IF locked[handler[h].name] > 0 THEN "lock" ELSE "verify")
  /\ UNCHANGED <<users, failed, expiry, locked, registered, unsure, faults, since>>

\* Defect: the lock is not asked for.
CheckNothing(h) ==
  /\ At(h, "check")
  /\ Goto(h, "verify")
  /\ UNCHANGED <<users, failed, expiry, locked, registered, unsure, faults, since>>

(* is_account_locked: a locked account is answered 423.                      *)
Check(h) ==
  /\ At(h, "check")
  /\ IF locked[handler[h].name] > 0 THEN Answer(h) ELSE Goto(h, "verify")
  /\ UNCHANGED <<users, failed, expiry, locked, registered, unsure, faults, since>>

(* The SELECT by username and bcrypt.checkpw; no such user is a failure too. *)
Verify(h) ==
  /\ At(h, "verify")
  /\ LET matches == users[handler[h].name] = handler[h].password
     IN  handler' = [handler EXCEPT ![h].pc = IF matches THEN "clear" ELSE "count",
                                    ![h].password = None]
  /\ UNCHANGED <<users, failed, expiry, locked, registered, unsure, faults, since>>

(* incr: a key that was not there begins at 1 and does not expire.           *)
Count(h) ==
  /\ At(h, "count")
  /\ LET n == handler[h].name
     IN  /\ failed' = [failed EXCEPT ![n] = @ + 1]
         /\ handler' = [handler EXCEPT ![h] =
              [@ EXCEPT !.pc = "expire", !.count = failed[n] + 1]]
  /\ UNCHANGED <<users, expiry, locked, registered, unsure, faults, since>>

(* expire: without effect if the key is gone. Only a count at or over the    *)
(* threshold goes on to lock the account.                                    *)
Expire(h) ==
  /\ At(h, "expire")
  /\ LET n == handler[h].name
     IN  expiry' = IF failed[n] > 0 THEN [expiry EXCEPT ![n] = AttemptTTL] ELSE expiry
  /\ IF handler[h].count >= Threshold THEN Goto(h, "lock") ELSE Answer(h)
  /\ UNCHANGED <<users, failed, locked, registered, unsure, faults, since>>

\* Defect: what is left of a lock that is there already is added to the new one.
LockAdds(h) ==
  /\ At(h, "lock")
  /\ locked' = [locked EXCEPT ![handler[h].name] = @ + LockTTL]
  /\ Answer(h)
  /\ UNCHANGED <<users, failed, expiry, registered, unsure, faults, since>>

(* setex of the lock key, and the answer 401.                                *)
Lock(h) ==
  /\ At(h, "lock")
  /\ locked' = [locked EXCEPT ![handler[h].name] = LockTTL]
  /\ Answer(h)
  /\ UNCHANGED <<users, failed, expiry, registered, unsure, faults, since>>

(* clear_failed_logins: one DEL of both keys, whoever set them.              *)
Clear(h) ==
  /\ At(h, "clear")
  /\ LET n == handler[h].name
     IN  /\ failed' = [failed EXCEPT ![n] = 0]
         /\ expiry' = [expiry EXCEPT ![n] = 0]
         /\ locked' = [locked EXCEPT ![n] = 0]
         /\ since' = [since EXCEPT ![n] = 0]
  /\ Answer(h)
  /\ UNCHANGED <<users, registered, unsure, faults>>

--------------------------------------------------------------------------------
(* A call of PostgreSQL or Redis raises, or its answer is lost, or the       *)
(* process dies: the client gets a 500 or nothing.                           *)
Fail(h) ==
  /\ ~At(h, "idle")
  /\ \/ At(h, "created") /\ unsure' = unsure \union {handler[h].name} /\ UNCHANGED faults
     \/ /\ handler[h].pc \in {"expire", "lock"}
        /\ faults < MaxFaults /\ faults' = faults + 1
        /\ UNCHANGED unsure
     \/ handler[h].pc \notin {"created", "expire", "lock"} /\ UNCHANGED <<unsure, faults>>
  /\ Answer(h)
  /\ UNCHANGED <<users, failed, expiry, locked, registered, since>>

Less(t) == IF t > 0 THEN t - 1 ELSE 0

\* The clock of the history stops one tick past what LockIsShort allows.
Longer(t) == IF t <= LockTTL + MaxAge THEN t + 1 ELSE t

(* Time: Redis expires the keys.                                             *)
Tick ==
  /\ \A h \in Handlers : ~At(h, "idle") => handler[h].age < MaxAge
  /\ handler' = [h \in Handlers |-> IF At(h, "idle") THEN handler[h]
                                    ELSE [handler[h] EXCEPT !.age = @ + 1]]
  /\ failed' = [n \in Names |-> IF expiry[n] = 1 THEN 0 ELSE failed[n]]
  /\ expiry' = [n \in Names |-> Less(expiry[n])]
  /\ locked' = [n \in Names |-> Less(locked[n])]
  /\ since' = [n \in Names |-> IF locked[n] > 1 THEN Longer(since[n]) ELSE 0]
  /\ UNCHANGED <<users, registered, unsure, faults>>

Step(h) ==
  \/ Lookup(h) \/ Insert(h) \/ Created(h)
  \/ Check(h) \/ Verify(h) \/ Count(h) \/ Expire(h) \/ Lock(h) \/ Clear(h)

Next ==
  \/ \E h \in Handlers, n \in Names, p \in Passwords : Register(h, n, p) \/ Login(h, n, p)
  \/ \E h \in Handlers : Step(h) \/ Fail(h)
  \/ Tick

\* Time passes, and every call of a handler returns.
Spec == Init /\ [][Next]_vars /\ WF_vars(Tick) /\ \A h \in Handlers : WF_vars(Step(h))

--------------------------------------------------------------------------------
(* Every variable has its type, no lock lasts longer than it was last set    *)
(* for, only a counter that is there expires, and a request in progress has  *)
(* a name.                                                                   *)
TypeOK ==
  /\ users \in [Names -> Passwords \union {None}]
  /\ failed \in [Names -> Nat]
  /\ expiry \in [Names -> 0..AttemptTTL]
  /\ locked \in [Names -> 0..LockTTL]
  /\ handler \in [Handlers -> Handler]
  /\ registered \in [Names -> Nat]
  /\ unsure \subseteq Names
  /\ faults \in 0..MaxFaults
  /\ since \in [Names -> 0..(LockTTL + MaxAge + 1)]
  /\ \A h \in Handlers : ~At(h, "idle") => handler[h].name \in Names
  /\ \A n \in Names : failed[n] = 0 => expiry[n] = 0

(* However logins interleave, the failures counted on an account stay within *)
(* the threshold and two rounds of all the handlers: those that were let in  *)
(* before the lock was set, and those let in after it has expired while an   *)
(* expire that came late still keeps the counter. Each login that breaks off *)
(* with its failure half recorded allows for one more round.                 *)
FailuresBounded ==
  \A n \in Names :
    failed[n] <= Threshold - 1 + (2 + faults) * Cardinality(Handlers)

(* The right password does not open a locked account: clear_failed_logins    *)
(* removes a lock only if it was set after this login had passed its check.  *)
LockOutlastsLogins ==
  [][\A n \in Names :
       locked[n] > 1 /\ locked'[n] = 0 =>
         \E h \in Handlers : /\ At(h, "clear") /\ handler[h].name = n
                             /\ handler[h].age + locked[n] >= LockTTL]_vars

(* "Try again in 15 minutes" (user_service.py:38): only logins that were let *)
(* in before the account was locked can set its lock again, so it is open    *)
(* again LockTTL after the last of them could, however often it is tried.    *)
LockIsShort == \A n \in Names : since[n] + locked[n] <= LockTTL + MaxAge

(* A name belongs to one registration: at most one is answered 201, and a    *)
(* name is taken without anybody having been told only while its handler is  *)
(* between commit and answer, or if it failed there.                         *)
RegisteredOnce ==
  \A n \in Names :
    /\ registered[n] <= 1
    /\ users[n] = None => registered[n] = 0
    /\ users[n] # None =>
         \/ registered[n] = 1
         \/ n \in unsure
         \/ \E h \in Handlers : At(h, "created") /\ handler[h].name = n

(* A lock ends, even if clients keep trying all along.                       *)
LockEnds == \A n \in Names : locked[n] > 0 ~> locked[n] = 0
================================================================================
