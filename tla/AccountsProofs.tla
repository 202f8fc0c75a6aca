----------------------------- MODULE AccountsProofs -----------------------------
(***************************************************************************)
(* Theorems about Accounts, for any number of names and requests at once,  *)
(* any threshold and any times to live.                                    *)
(***************************************************************************)
EXTENDS Accounts, FiniteSetTheorems, TLAPS

Labels == {"idle", "lookup", "insert", "created", "check", "verify",
           "clear", "count", "expire", "lock"}

LEMMA HandlerTyped ==
  ASSUME TypeOK, NEW h \in Handlers
  PROVE  /\ handler[h] \in Handler
         /\ handler[h].count \in Nat /\ handler[h].age \in 0..MaxAge
         /\ ~At(h, "idle") => handler[h].name \in Names
BY DEF TypeOK, Handler

\* Request h goes to another label, or is answered; the others stay.
Moved(h, label) ==
  /\ handler' \in [Handlers -> Handler]
  /\ handler'[h].pc = label
  /\ label # "idle" => /\ handler'[h].name = handler[h].name
                       /\ handler'[h].age = handler[h].age
  /\ \A g \in Handlers \ {h} : handler'[g] = handler[g]

LEMMA GotoMoves ==
  ASSUME TypeOK, NEW h \in Handlers, NEW label \in Labels, Goto(h, label)
  PROVE  Moved(h, label)
BY DEF TypeOK, Goto, Moved, Handler, Labels

LEMMA AnswerMoves ==
  ASSUME TypeOK, NEW h \in Handlers, Answer(h)
  PROVE  Moved(h, "idle")
<1>1. IdleHandler \in Handler /\ IdleHandler.pc = "idle"
  BY SizesAssumption DEF Handler, IdleHandler
<1> QED
  BY <1>1 DEF TypeOK, Answer, Moved

LEMMA BegunTyped ==
  ASSUME TypeOK, NEW h \in Handlers, NEW label \in Labels, NEW n \in Names,
         NEW p \in Passwords, handler' = [handler EXCEPT ![h] = Begun(label, n, p)]
  PROVE  /\ handler' \in [Handlers -> Handler]
         /\ handler'[h].pc = label /\ handler'[h].name = n
         /\ \A g \in Handlers \ {h} : handler'[g] = handler[g]
<1>1. Begun(label, n, p) \in Handler /\ Begun(label, n, p).pc = label
      /\ Begun(label, n, p).name = n
  BY SizesAssumption DEF Handler, Begun, Labels
<1> QED
  BY <1>1 DEF TypeOK

LEMMA VerifyMoves ==
  ASSUME TypeOK, NEW h \in Handlers, Verify(h)
  PROVE  \E label \in {"clear", "count"} : Moved(h, label)
<1>1. PICK label \in {"clear", "count"} :
        handler' = [handler EXCEPT ![h].pc = label, ![h].password = None]
  BY DEF Verify
<1> QED
  BY <1>1 DEF TypeOK, Moved, Handler

LEMMA CountMoves ==
  ASSUME TypeOK, NEW h \in Handlers, Count(h)
  PROVE  /\ Moved(h, "expire")
         /\ handler[h].name \in Names
         /\ handler'[h].count = failed[handler[h].name] + 1
<1>1. PICK n \in Names : n = handler[h].name
  BY HandlerTyped DEF Count, At
<1>2. failed[n] + 1 \in Nat
  BY DEF TypeOK
<1>3. handler' = [handler EXCEPT ![h] =
        [handler[h] EXCEPT !.pc = "expire", !.count = failed[n] + 1]]
  BY <1>1 DEF Count
<1>4. [handler[h] EXCEPT !.pc = "expire", !.count = failed[n] + 1] \in Handler
  BY <1>2 DEF TypeOK, Handler
<1> QED
  BY <1>1, <1>3, <1>4 DEF TypeOK, Moved, Handler

LEMMA TickHandlers ==
  ASSUME TypeOK, Tick, NEW h \in Handlers
  PROVE  /\ handler'[h] \in Handler
         /\ handler'[h].pc = handler[h].pc /\ handler'[h].name = handler[h].name
         /\ ~At(h, "idle") => handler'[h].age = handler[h].age + 1
<1>1. CASE At(h, "idle")
  BY <1>1 DEF Tick, TypeOK
<1>2. CASE ~At(h, "idle")
  <2>1. handler'[h] = [handler[h] EXCEPT !.age = @ + 1] /\ handler[h].age < MaxAge
    BY <1>2 DEF Tick
  <2>2. handler[h].age + 1 \in 0..MaxAge
    BY <2>1, HandlerTyped, SizesAssumption
  <2> QED
    BY <2>1, <2>2 DEF TypeOK, Handler
<1> QED
  BY <1>1, <1>2

--------------------------------------------------------------------------------
(* Types.                                                                    *)

LEMMA InitTypeOK == Init => TypeOK
<1> SUFFICES ASSUME Init PROVE TypeOK
  OBVIOUS
<1>1. IdleHandler \in Handler /\ IdleHandler.pc = "idle"
  BY SizesAssumption DEF Handler, IdleHandler
<1> QED
  BY <1>1, SizesAssumption DEF Init, TypeOK, At

\* The variables but handler have their types.
Stores ==
  /\ users \in [Names -> Passwords \union {None}]
  /\ failed \in [Names -> Nat]
  /\ expiry \in [Names -> 0..AttemptTTL]
  /\ locked \in [Names -> 0..LockTTL]
  /\ registered \in [Names -> Nat]
  /\ unsure \subseteq Names
  /\ faults \in 0..MaxFaults
  /\ since \in [Names -> 0..(LockTTL + MaxAge + 1)]
  /\ \A n \in Names : failed[n] = 0 => expiry[n] = 0

LEMMA MovedTyped ==
  ASSUME TypeOK, NEW h \in Handlers, NEW label, Moved(h, label), ~At(h, "idle"), Stores'
  PROVE  TypeOK'
BY DEF TypeOK, Moved, Stores, At

LEMMA StoresStay ==
  ASSUME TypeOK, UNCHANGED <<users, failed, expiry, locked, registered, unsure, faults, since>>
  PROVE  Stores'
BY DEF TypeOK, Stores

LEMMA BeginTyped ==
  ASSUME TypeOK, NEW h \in Handlers, NEW n \in Names, NEW p \in Passwords,
         Register(h, n, p) \/ Login(h, n, p)
  PROVE  TypeOK'
<1>1. PICK label \in {"lookup", "check"} :
        handler' = [handler EXCEPT ![h] = Begun(label, n, p)]
  BY DEF Register, Login
<1>2. label \in Labels
  BY DEF Labels
<1>3. /\ handler' \in [Handlers -> Handler]
      /\ handler'[h].name = n /\ \A g \in Handlers \ {h} : handler'[g] = handler[g]
  BY <1>1, <1>2, BegunTyped
<1> QED
  BY <1>3 DEF TypeOK, Register, Login, At

LEMMA StayTyped ==
  ASSUME TypeOK, NEW h \in Handlers, Lookup(h) \/ Check(h) \/ Verify(h)
  PROVE  TypeOK' /\ \E label \in Labels : Moved(h, label)
<1>1. ~At(h, "idle") /\ Stores'
  BY StoresStay DEF Lookup, Check, Verify, At
<1>2. CASE Lookup(h) \/ Check(h)
  <2>1. Answer(h) \/ \E label \in Labels : Goto(h, label)
    BY <1>2 DEF Lookup, Check, Labels
  <2>2. \E label \in Labels : Moved(h, label)
    BY <2>1, GotoMoves, AnswerMoves DEF Labels
  <2> QED
    BY <1>1, <2>2, MovedTyped
<1>3. CASE Verify(h)
  <2>1. \E label \in Labels : Moved(h, label)
    BY <1>3, VerifyMoves DEF Labels
  <2> QED
    BY <1>1, <2>1, MovedTyped
<1> QED
  BY <1>2, <1>3

LEMMA InsertTyped ==
  ASSUME TypeOK, NEW h \in Handlers, Insert(h)
  PROVE  TypeOK' /\ (Moved(h, "created") \/ Moved(h, "idle"))
<1>1. ~At(h, "idle") /\ handler[h] \in Handler
      /\ UNCHANGED <<failed, expiry, locked, registered, unsure, faults, since>>
  BY HandlerTyped DEF Insert, At
<1>2. PICK n \in Names : n = handler[h].name
  BY <1>1, HandlerTyped
<1>3. users' = users \/ users' = [users EXCEPT ![n] = handler[h].password]
  BY <1>2 DEF Insert
<1>4. Stores'
  BY <1>1, <1>3 DEF TypeOK, Stores, Handler
<1>5. Moved(h, "created") \/ Moved(h, "idle")
  BY GotoMoves, AnswerMoves DEF Insert, Labels
<1> QED
  BY <1>1, <1>4, <1>5, MovedTyped

LEMMA CreatedTyped ==
  ASSUME TypeOK, NEW h \in Handlers, Created(h)
  PROVE  TypeOK' /\ Moved(h, "idle")
<1>1. ~At(h, "idle") /\ Moved(h, "idle")
  BY AnswerMoves DEF Created, At
<1>2. PICK n \in Names : n = handler[h].name
  BY <1>1, HandlerTyped
<1>3. /\ registered' = [registered EXCEPT ![n] = @ + 1]
      /\ UNCHANGED <<users, failed, expiry, locked, unsure, faults, since>>
  BY <1>2, Zenon DEF Created
<1>4. registered' \in [Names -> Nat]
  BY <1>3 DEF TypeOK
<1>5. Stores'
  BY <1>3, <1>4 DEF TypeOK, Stores
<1> QED
  BY <1>1, <1>5, MovedTyped

LEMMA CountTyped ==
  ASSUME TypeOK, NEW h \in Handlers, Count(h)
  PROVE  TypeOK' /\ Moved(h, "expire")
<1>1. ~At(h, "idle") /\ Moved(h, "expire")
  BY CountMoves DEF Count, At
<1>2. PICK n \in Names : n = handler[h].name
  BY CountMoves
<1>3. failed' = [failed EXCEPT ![n] = @ + 1]
      /\ UNCHANGED <<users, expiry, locked, registered, unsure, faults, since>>
  BY <1>2 DEF Count
<1>4. /\ failed' \in [Names -> Nat]
      /\ \A m \in Names : failed'[m] = 0 => failed[m] = 0
  BY <1>3 DEF TypeOK
<1>5. Stores'
  BY <1>3, <1>4 DEF TypeOK, Stores
<1> QED
  BY <1>1, <1>5, MovedTyped

LEMMA ExpireTyped ==
  ASSUME TypeOK, NEW h \in Handlers, Expire(h)
  PROVE  TypeOK' /\ (Moved(h, "lock") \/ Moved(h, "idle"))
<1>1. ~At(h, "idle") /\ (Moved(h, "lock") \/ Moved(h, "idle"))
  BY GotoMoves, AnswerMoves DEF Expire, At, Labels
<1>2. PICK n \in Names : n = handler[h].name
  BY <1>1, HandlerTyped
<1>3. /\ expiry' = IF failed[n] > 0 THEN [expiry EXCEPT ![n] = AttemptTTL] ELSE expiry
      /\ UNCHANGED <<users, failed, locked, registered, unsure, faults, since>>
  BY <1>2, Zenon DEF Expire
<1>4. AttemptTTL \in 0..AttemptTTL
  BY SizesAssumption
<1>5. /\ expiry' \in [Names -> 0..AttemptTTL]
      /\ \A m \in Names : failed[m] = 0 => expiry'[m] = 0
  <2>1. CASE failed[n] > 0 /\ expiry' = [expiry EXCEPT ![n] = AttemptTTL]
    BY <1>4, <2>1 DEF TypeOK
  <2>2. CASE expiry' = expiry
    BY <2>2 DEF TypeOK
  <2> QED
    BY <1>3, <2>1, <2>2
<1>6. Stores'
  BY <1>3, <1>5 DEF TypeOK, Stores
<1> QED
  BY <1>1, <1>6, MovedTyped

LEMMA LockTyped ==
  ASSUME TypeOK, NEW h \in Handlers, Lock(h)
  PROVE  TypeOK' /\ Moved(h, "idle")
<1>1. ~At(h, "idle") /\ Moved(h, "idle")
  BY AnswerMoves DEF Lock, At
<1>2. PICK n \in Names : n = handler[h].name
  BY <1>1, HandlerTyped
<1>3. /\ locked' = [locked EXCEPT ![n] = LockTTL]
      /\ UNCHANGED <<users, failed, expiry, registered, unsure, faults, since>>
  BY <1>2, Zenon DEF Lock
<1>4. LockTTL \in 0..LockTTL
  BY SizesAssumption
<1>5. Stores'
  BY <1>3, <1>4 DEF TypeOK, Stores
<1> QED
  BY <1>1, <1>5, MovedTyped

LEMMA ClearTyped ==
  ASSUME TypeOK, NEW h \in Handlers, Clear(h)
  PROVE  TypeOK' /\ Moved(h, "idle")
<1>1. ~At(h, "idle") /\ Moved(h, "idle")
  BY AnswerMoves DEF Clear, At
<1>2. PICK n \in Names : n = handler[h].name
  BY <1>1, HandlerTyped
<1>3. /\ failed' = [failed EXCEPT ![n] = 0] /\ expiry' = [expiry EXCEPT ![n] = 0]
      /\ locked' = [locked EXCEPT ![n] = 0] /\ since' = [since EXCEPT ![n] = 0]
      /\ UNCHANGED <<users, registered, unsure, faults>>
  BY <1>2 DEF Clear
<1>4. Stores'
  BY <1>3, SizesAssumption DEF TypeOK, Stores
<1> QED
  BY <1>1, <1>4, MovedTyped

LEMMA FailTyped ==
  ASSUME TypeOK, NEW h \in Handlers, Fail(h)
  PROVE  TypeOK' /\ Moved(h, "idle")
<1>1. ~At(h, "idle") /\ Moved(h, "idle")
  BY AnswerMoves DEF Fail
<1>2. unsure' \subseteq Names /\ faults' \in 0..MaxFaults
  BY <1>1, HandlerTyped, SizesAssumption DEF Fail, TypeOK
<1>3. Stores'
  BY <1>2 DEF Fail, TypeOK, Stores
<1> QED
  BY <1>1, <1>3, MovedTyped

LEMMA TickTyped ==
  ASSUME TypeOK, Tick
  PROVE  TypeOK'
<1>1. handler' \in [Handlers -> Handler]
  BY TickHandlers DEF Tick
<1>2. /\ failed' \in [Names -> Nat]
      /\ \A n \in Names : failed'[n] \in {0, failed[n]} /\ (expiry[n] = 1 => failed'[n] = 0)
  BY DEF Tick, TypeOK
<1>3. /\ expiry' \in [Names -> 0..AttemptTTL] /\ locked' \in [Names -> 0..LockTTL]
      /\ \A n \in Names : expiry[n] \in {0, 1} => expiry'[n] = 0
  BY SizesAssumption DEF Tick, TypeOK, Less
<1>4. \A n \in Names : failed'[n] = 0 => expiry'[n] = 0
  BY <1>2, <1>3 DEF Tick, TypeOK
<1>5. \A h \in Handlers : ~At(h, "idle")' => handler'[h].name \in Names
  BY TickHandlers DEF TypeOK, At
<1>6. since' \in [Names -> 0..(LockTTL + MaxAge + 1)]
  BY SizesAssumption DEF Tick, TypeOK, Longer
<1> QED
  BY <1>1, <1>2, <1>3, <1>4, <1>5, <1>6 DEF Tick, TypeOK

LEMMA NextTypeOK == TypeOK /\ [Next]_vars => TypeOK'
<1> SUFFICES ASSUME TypeOK, [Next]_vars PROVE TypeOK'
  OBVIOUS
<1>1. CASE UNCHANGED vars
  BY <1>1 DEF vars, TypeOK, At
<1>2. CASE Next
  BY <1>2, BeginTyped, StayTyped, InsertTyped, CreatedTyped, CountTyped, ExpireTyped,
     LockTyped, ClearTyped, FailTyped, TickTyped DEF Next, Step
<1> QED
  BY <1>1, <1>2

(* Rows, counters, locks and requests keep their types, and only a counter  *)
(* that is there expires.                                                   *)
THEOREM TypeCorrect == Spec => []TypeOK
BY InitTypeOK, NextTypeOK, PTL DEF Spec

--------------------------------------------------------------------------------
(* A name that a registration has inserted and not answered yet is in the    *)
(* table, and nobody was told of it: the unique index lets no other get there. *)
Pending(h, n) == At(h, "created") /\ handler[h].name = n

Exclusive ==
  \A h \in Handlers, n \in Names : Pending(h, n) =>
    /\ users[n] # None /\ registered[n] = 0
    /\ \A g \in Handlers : Pending(g, n) => g = h

\* A registration on its way has the password of its row.
HavePasswords ==
  \A h \in Handlers : handler[h].pc \in {"lookup", "insert"} => handler[h].password \in Passwords

LEMMA NextHavePasswords == TypeOK /\ HavePasswords /\ [Next]_vars => HavePasswords'
<1> SUFFICES ASSUME TypeOK, HavePasswords, [Next]_vars PROVE HavePasswords'
  OBVIOUS
<1>1. ASSUME NEW h \in Handlers, NEW label, Moved(h, label), label \notin {"lookup", "insert"}
      PROVE  HavePasswords'
  BY <1>1 DEF Moved, HavePasswords
<1>2. ASSUME NEW h \in Handlers, NEW n \in Names, NEW p \in Passwords,
             Register(h, n, p) \/ Login(h, n, p)
      PROVE  HavePasswords'
  <2>1. PICK label \in {"lookup", "check"} :
          handler' = [handler EXCEPT ![h] = Begun(label, n, p)]
    BY <1>2 DEF Register, Login
  <2>2. handler'[h].password = p /\ \A g \in Handlers \ {h} : handler'[g] = handler[g]
    BY <2>1 DEF TypeOK, Begun
  <2> QED
    BY <2>2 DEF HavePasswords
<1>3. ASSUME NEW h \in Handlers, Lookup(h)
      PROVE  HavePasswords'
  <2>1. CASE Answer(h)
    BY <2>1, <1>1, AnswerMoves
  <2>2. CASE Goto(h, "insert")
    <3>1. /\ handler'[h].password = handler[h].password
          /\ \A g \in Handlers \ {h} : handler'[g] = handler[g]
      BY <2>2 DEF Goto, TypeOK, Handler
    <3> QED
      BY <1>3, <3>1 DEF HavePasswords, Lookup, At
  <2> QED
    BY <1>3, <2>1, <2>2 DEF Lookup
<1>4. ASSUME NEW h \in Handlers, Check(h)
      PROVE  HavePasswords'
  <2>1. Answer(h) \/ Goto(h, "verify")
    BY <1>4 DEF Check
  <2> QED
    BY <2>1, <1>1, AnswerMoves, GotoMoves DEF Labels
<1>5. ASSUME NEW h \in Handlers,
             \/ Verify(h) \/ Count(h) \/ Expire(h) \/ Lock(h) \/ Clear(h)
             \/ Insert(h) \/ Created(h) \/ Fail(h)
      PROVE  HavePasswords'
  BY <1>5, <1>1, VerifyMoves, CountMoves, ExpireTyped, LockTyped, ClearTyped, InsertTyped,
     CreatedTyped, FailTyped
<1>6. CASE Tick
  <2>1. \A h \in Handlers : handler'[h].password = handler[h].password
                          /\ handler'[h].pc = handler[h].pc
    BY <1>6 DEF Tick, TypeOK, Handler
  <2> QED
    BY <2>1 DEF HavePasswords
<1>7. CASE UNCHANGED vars
  BY <1>7 DEF vars, HavePasswords
<1> QED
  BY <1>2, <1>3, <1>4, <1>5, <1>6, <1>7 DEF Next, Step

LEMMA StillRegistered ==
  ASSUME RegisteredOnce, Exclusive, UNCHANGED <<users, registered, unsure>>,
         \A h \in Handlers, n \in Names : Pending(h, n)' <=> Pending(h, n)
  PROVE  RegisteredOnce' /\ Exclusive'
BY DEF RegisteredOnce, Exclusive, Pending

LEMMA MovedPending ==
  ASSUME TypeOK, NEW h \in Handlers, NEW label, Moved(h, label)
  PROVE  /\ \A g \in Handlers \ {h}, n \in Names : Pending(g, n)' <=> Pending(g, n)
         /\ label # "created" => \A n \in Names : ~Pending(h, n)'
         /\ label = "created" => \A n \in Names : Pending(h, n)' <=> handler[h].name = n
BY DEF Moved, Pending, At

LEMMA NextRegistered ==
  TypeOK /\ HavePasswords /\ RegisteredOnce /\ Exclusive /\ [Next]_vars =>
    RegisteredOnce' /\ Exclusive'
<1> SUFFICES ASSUME TypeOK, HavePasswords, RegisteredOnce, Exclusive, [Next]_vars
             PROVE  RegisteredOnce' /\ Exclusive'
  OBVIOUS
<1>1. ASSUME NEW h \in Handlers, NEW n \in Names, NEW p \in Passwords,
             Register(h, n, p) \/ Login(h, n, p)
      PROVE  RegisteredOnce' /\ Exclusive'
  <2>1. PICK label \in {"lookup", "check"} :
          handler' = [handler EXCEPT ![h] = Begun(label, n, p)]
    BY <1>1 DEF Register, Login
  <2>2. label \in Labels
    BY DEF Labels
  <2>3. handler'[h].pc = label /\ \A g \in Handlers \ {h} : handler'[g] = handler[g]
    BY <2>1, <2>2, BegunTyped
  <2>4. \A g \in Handlers, m \in Names : Pending(g, m)' <=> Pending(g, m)
    BY <1>1, <2>3 DEF Register, Login, Pending, At
  <2>5. UNCHANGED <<users, registered, unsure>>
    BY <1>1 DEF Register, Login
  <2> QED
    BY <2>4, <2>5, StillRegistered
<1>2. ASSUME NEW h \in Handlers, NEW label, Moved(h, label), label # "created",
             ~At(h, "created"), UNCHANGED <<users, registered, unsure>>
      PROVE  RegisteredOnce' /\ Exclusive'
  <2>1. \A g \in Handlers, m \in Names : Pending(g, m)' <=> Pending(g, m)
    BY <1>2, MovedPending DEF Pending
  <2> QED
    BY <1>2, <2>1, StillRegistered
<1>3. ASSUME NEW h \in Handlers,
             Lookup(h) \/ Check(h) \/ Verify(h) \/ Count(h) \/ Expire(h) \/ Lock(h) \/ Clear(h)
      PROVE  RegisteredOnce' /\ Exclusive'
  <2>1. PICK label : Moved(h, label) /\ label # "created"
    <3>1. CASE Lookup(h) \/ Check(h)
      <4>1. \/ Answer(h) \/ Goto(h, "insert") \/ Goto(h, "verify")
        BY <3>1 DEF Lookup, Check
      <4> QED
        BY <4>1, GotoMoves, AnswerMoves DEF Labels
    <3> QED
      BY <1>3, <3>1, VerifyMoves, CountMoves, ExpireTyped, LockTyped, ClearTyped
  <2>2. ~At(h, "created") /\ UNCHANGED <<users, registered, unsure>>
    BY <1>3 DEF Lookup, Check, Verify, Count, Expire, Lock, Clear, At
  <2> QED
    BY <1>2, <2>1, <2>2
<1>4. ASSUME NEW h \in Handlers, Insert(h)
      PROVE  RegisteredOnce' /\ Exclusive'
  <2>1. PICK n \in Names : n = handler[h].name
    BY <1>4, HandlerTyped DEF Insert, At
  <2>2. At(h, "insert") /\ UNCHANGED <<registered, unsure>> /\ handler[h] \in Handler
    BY <1>4, HandlerTyped DEF Insert
  <2>3. CASE users[n] # None /\ Answer(h) /\ UNCHANGED users
    BY <1>2, <2>2, <2>3, AnswerMoves DEF At
  <2>4. CASE /\ users[n] = None
             /\ users' = [users EXCEPT ![n] = handler[h].password]
             /\ Goto(h, "created")
    <3>1. Moved(h, "created")
      BY <2>4, GotoMoves DEF Labels
    <3>2. \A m \in Names \ {n} : users'[m] = users[m]
      BY <2>4 DEF TypeOK
    <3>3. registered[n] = 0 /\ \A g \in Handlers : ~Pending(g, n)
      BY <2>4 DEF RegisteredOnce, Exclusive
    <3>4. handler[h].password # None
      BY <2>2, NoneAssumption DEF HavePasswords, At
    <3>5. users'[n] # None
      BY <2>4, <3>4 DEF TypeOK
    <3>6. Pending(h, n)' /\ \A m \in Names \ {n} : ~Pending(h, m)'
      BY <2>1, <3>1, MovedPending
    <3>7. \A g \in Handlers \ {h}, m \in Names : Pending(g, m)' <=> Pending(g, m)
      BY <3>1, MovedPending
    <3>8. \A m \in Names : ~Pending(h, m)
      BY <2>2 DEF Pending, At
    <3> QED
      BY <2>2, <3>2, <3>3, <3>5, <3>6, <3>7, <3>8 DEF RegisteredOnce, Exclusive, Pending
  <2> QED
    BY <1>4, <2>1, <2>3, <2>4 DEF Insert
<1>5. ASSUME NEW h \in Handlers, Created(h)
      PROVE  RegisteredOnce' /\ Exclusive'
  <2>1. PICK n \in Names : n = handler[h].name
    BY <1>5, HandlerTyped DEF Created, At
  <2>2. /\ Pending(h, n) /\ UNCHANGED <<users, unsure>> /\ Moved(h, "idle")
        /\ registered' = [registered EXCEPT ![n] = @ + 1]
    BY <1>5, <2>1, CreatedTyped DEF Created, Pending
  <2>3. users[n] # None /\ registered[n] = 0 /\ \A g \in Handlers : Pending(g, n) => g = h
    BY <2>2 DEF Exclusive
  <2>4. registered'[n] = 1 /\ \A m \in Names \ {n} : registered'[m] = registered[m]
    BY <2>2, <2>3 DEF TypeOK
  <2>5. /\ \A g \in Handlers \ {h}, m \in Names : Pending(g, m)' <=> Pending(g, m)
        /\ \A m \in Names : ~Pending(h, m)'
        /\ \A m \in Names \ {n} : ~Pending(h, m)
    BY <2>1, <2>2, MovedPending DEF Pending
  <2> QED
    BY <2>2, <2>3, <2>4, <2>5 DEF RegisteredOnce, Exclusive, Pending
<1>6. ASSUME NEW h \in Handlers, Fail(h)
      PROVE  RegisteredOnce' /\ Exclusive'
  <2>1. PICK n \in Names : n = handler[h].name
    BY <1>6, HandlerTyped DEF Fail
  <2>2. /\ Moved(h, "idle") /\ UNCHANGED <<users, registered>> /\ unsure \subseteq unsure'
        /\ At(h, "created") => n \in unsure'
    BY <1>6, <2>1, FailTyped DEF Fail, At
  <2>3. /\ \A g \in Handlers \ {h}, m \in Names : Pending(g, m)' <=> Pending(g, m)
        /\ \A m \in Names : ~Pending(h, m)'
        /\ \A m \in Names : Pending(h, m) => m \in unsure'
    BY <2>1, <2>2, MovedPending DEF Pending
  <2> QED
    BY <2>2, <2>3 DEF RegisteredOnce, Exclusive, Pending
<1>7. CASE Tick
  <2>1. \A h \in Handlers, n \in Names : Pending(h, n)' <=> Pending(h, n)
    BY <1>7, TickHandlers DEF Pending, At
  <2>2. UNCHANGED <<users, registered, unsure>>
    BY <1>7 DEF Tick
  <2> QED
    BY <2>1, <2>2, StillRegistered
<1>8. CASE UNCHANGED vars
  BY <1>8, StillRegistered DEF vars, Pending, At
<1> QED
  BY <1>1, <1>3, <1>4, <1>5, <1>6, <1>7, <1>8 DEF Next, Step

LEMMA InitRegistered == Init => HavePasswords /\ RegisteredOnce /\ Exclusive
<1> SUFFICES ASSUME Init PROVE HavePasswords /\ RegisteredOnce /\ Exclusive
  OBVIOUS
<1>1. \A h \in Handlers : handler[h].pc = "idle"
  BY DEF Init, IdleHandler
<1> QED
  BY <1>1 DEF Init, HavePasswords, RegisteredOnce, Exclusive, Pending, At

(* However registrations of one name interleave or fail, at most one is      *)
(* answered 201, and no row appears that nobody answers for.                 *)
THEOREM NamesRegisteredOnce == Spec => []RegisteredOnce
<1>1. TypeOK /\ HavePasswords /\ RegisteredOnce /\ Exclusive /\ [Next]_vars =>
        (TypeOK /\ HavePasswords /\ RegisteredOnce /\ Exclusive)'
  BY NextTypeOK, NextHavePasswords, NextRegistered
<1> QED
  BY <1>1, InitTypeOK, InitRegistered, PTL DEF Spec

--------------------------------------------------------------------------------
(* A login that is let in finds no lock; one set since then lives on for at  *)
(* least LockTTL less the age of the login.                                  *)
LetInLabels == {"verify", "clear", "count", "expire", "lock"}

Older ==
  \A h \in Handlers : handler[h].pc \in LetInLabels =>
    \A n \in Names : handler[h].name = n /\ locked[n] > 0 => handler[h].age + locked[n] >= LockTTL

LEMMA InitOlder == Init => Older
<1> SUFFICES ASSUME Init PROVE Older
  OBVIOUS
<1>1. \A h \in Handlers : handler[h].pc = "idle"
  BY DEF Init, IdleHandler
<1> QED
  BY <1>1 DEF Older, LetInLabels

LEMMA NextOlder == TypeOK /\ Older /\ [Next]_vars => Older'
<1> SUFFICES ASSUME TypeOK, Older, [Next]_vars PROVE Older'
  OBVIOUS
<1>1. ASSUME NEW h \in Handlers, NEW label, Moved(h, label), label \notin LetInLabels,
             \A n \in Names : locked'[n] \in {0, locked[n], LockTTL}
      PROVE  Older'
  <2> SUFFICES ASSUME NEW g \in Handlers, handler'[g].pc \in LetInLabels, NEW n \in Names,
                      handler'[g].name = n, locked'[n] > 0
               PROVE  handler'[g].age + locked'[n] >= LockTTL
    BY DEF Older, LetInLabels
  <2>1. g # h /\ handler'[g] = handler[g]
    BY <1>1 DEF Moved, LetInLabels
  <2>2. handler[g].age \in Nat
    BY HandlerTyped, SizesAssumption
  <2>3. CASE locked'[n] = LockTTL
    BY <2>1, <2>2, <2>3, SizesAssumption
  <2>4. CASE locked'[n] = locked[n]
    BY <2>1, <2>4 DEF Older, LetInLabels
  <2> QED
    BY <1>1, <2>3, <2>4
<1>2. ASSUME NEW h \in Handlers, NEW n \in Names, NEW p \in Passwords,
             Register(h, n, p) \/ Login(h, n, p)
      PROVE  Older'
  <2>1. PICK label \in {"lookup", "check"} :
          handler' = [handler EXCEPT ![h] = Begun(label, n, p)]
    BY <1>2 DEF Register, Login
  <2>2. label \in Labels
    BY DEF Labels
  <2>3. handler'[h].pc = label /\ \A g \in Handlers \ {h} : handler'[g] = handler[g]
    BY <2>1, <2>2, BegunTyped
  <2>4. UNCHANGED locked
    BY <1>2 DEF Register, Login
  <2> QED
    BY <2>3, <2>4 DEF Older, LetInLabels
<1>3. ASSUME NEW h \in Handlers, Lookup(h) \/ Insert(h) \/ Created(h) \/ Fail(h)
      PROVE  Older'
  <2>1. PICK label : Moved(h, label) /\ label \notin LetInLabels
    <3>1. CASE Lookup(h)
      <4>1. Answer(h) \/ Goto(h, "insert")
        BY <3>1 DEF Lookup
      <4> QED
        BY <4>1, GotoMoves, AnswerMoves DEF Labels, LetInLabels
    <3> QED
      BY <1>3, <3>1, InsertTyped, CreatedTyped, FailTyped DEF LetInLabels
  <2>2. UNCHANGED locked
    BY <1>3 DEF Lookup, Insert, Created, Fail
  <2> QED
    BY <1>1, <2>1, <2>2
<1>4. ASSUME NEW h \in Handlers, Lock(h) \/ Clear(h)
      PROVE  Older'
  <2>1. Moved(h, "idle")
    BY <1>4, LockTyped, ClearTyped
  <2>2. PICK m \in Names : m = handler[h].name
    BY <1>4, HandlerTyped DEF Lock, Clear, At
  <2>3. locked' = [locked EXCEPT ![m] = LockTTL] \/ locked' = [locked EXCEPT ![m] = 0]
    BY <1>4, <2>2, Zenon DEF Lock, Clear
  <2>4. \A n \in Names : locked'[n] \in {0, locked[n], LockTTL}
    BY <2>3 DEF TypeOK
  <2> QED
    BY <1>1, <2>1, <2>4 DEF LetInLabels
<1>5. ASSUME NEW h \in Handlers, Check(h)
      PROVE  Older'
  <2>1. PICK n \in Names : n = handler[h].name
    BY <1>5, HandlerTyped DEF Check, At
  <2>2. UNCHANGED locked
    BY <1>5 DEF Check
  <2>3. CASE Answer(h)
    BY <1>1, <2>2, <2>3, AnswerMoves DEF LetInLabels
  <2>4. CASE ~(locked[n] > 0) /\ Goto(h, "verify")
    <3>1. Moved(h, "verify")
      BY <2>4, GotoMoves DEF Labels
    <3> QED
      BY <2>1, <2>2, <2>4, <3>1 DEF Older, Moved, LetInLabels
  <2> QED
    BY <1>5, <2>1, <2>3, <2>4 DEF Check
<1>6. ASSUME NEW h \in Handlers, Verify(h) \/ Count(h) \/ Expire(h)
      PROVE  Older'
  <2>1. PICK label : Moved(h, label)
    BY <1>6, VerifyMoves, CountMoves, ExpireTyped
  <2>2. UNCHANGED locked /\ handler[h].pc \in LetInLabels
    BY <1>6 DEF Verify, Count, Expire, At, LetInLabels
  <2>3. label \in LetInLabels => \A n \in Names : handler'[h].name = n /\ locked'[n] > 0 =>
                                   handler'[h].age + locked'[n] >= LockTTL
    BY <2>1, <2>2 DEF Older, Moved, LetInLabels
  <2> QED
    BY <2>1, <2>2, <2>3 DEF Older, Moved, LetInLabels
<1>7. CASE Tick
  <2> SUFFICES ASSUME NEW h \in Handlers, handler'[h].pc \in LetInLabels, NEW n \in Names,
                      handler'[h].name = n, locked'[n] > 0
               PROVE  handler'[h].age + locked'[n] >= LockTTL
    BY DEF Older, LetInLabels
  <2>1. /\ handler[h].pc \in LetInLabels /\ handler[h].name = n
        /\ handler'[h].age = handler[h].age + 1 /\ handler[h].age \in 0..MaxAge
    BY <1>7, TickHandlers, HandlerTyped DEF At, LetInLabels
  <2>2. locked[n] \in Nat /\ locked'[n] = Less(locked[n])
    BY <1>7 DEF Tick, TypeOK
  <2>3. locked[n] > 0 /\ locked'[n] = locked[n] - 1
    BY <2>2 DEF Less
  <2>4. handler[h].age + locked[n] >= LockTTL
    BY <2>1, <2>3 DEF Older, LetInLabels
  <2> QED
    BY <2>1, <2>2, <2>3, <2>4, SizesAssumption
<1>8. CASE UNCHANGED vars
  BY <1>8 DEF vars, Older, LetInLabels
<1> QED
  BY <1>2, <1>3, <1>4, <1>5, <1>6, <1>7, <1>8 DEF Next, Step

\* A lock that disappears before its time is removed by clear_failed_logins.
LEMMA OnlyClear ==
  ASSUME TypeOK, [Next]_vars, NEW n \in Names, locked[n] > 1, locked'[n] = 0
  PROVE  \E h \in Handlers : At(h, "clear") /\ handler[h].name = n
<1>1. locked'[n] # locked[n] /\ locked[n] \in Nat
  BY DEF TypeOK
<1>2. ASSUME NEW h \in Handlers, Lock(h) PROVE FALSE
  <2>1. locked' = [locked EXCEPT ![handler[h].name] = LockTTL]
    BY <1>2 DEF Lock
  <2>2. locked'[n] \in {locked[n], LockTTL}
    BY <2>1 DEF TypeOK
  <2> QED
    BY <1>1, <2>2, SizesAssumption
<1>3. ASSUME NEW h \in Handlers, Clear(h) PROVE At(h, "clear") /\ handler[h].name = n
  <2>1. locked' = [locked EXCEPT ![handler[h].name] = 0]
    BY <1>3 DEF Clear
  <2>2. handler[h].name = n
    BY <1>1, <2>1 DEF TypeOK
  <2> QED
    BY <1>3, <2>2 DEF Clear
<1>4. ~Tick
  <2>1. ASSUME Tick PROVE locked'[n] = locked[n] - 1
    BY <2>1, <1>1 DEF Tick, Less
  <2> QED
    BY <1>1, <2>1
<1>5. UNCHANGED locked => FALSE
  BY <1>1
<1>6. PICK h \in Handlers : Lock(h) \/ Clear(h)
  BY <1>4, <1>5 DEF Next, Step, vars, Register, Login, Lookup, Insert, Created, Check, Verify,
     Count, Expire, Fail
<1> QED
  BY <1>2, <1>3, <1>6

(* However many logins run at once, the right password removes a lock only   *)
(* if the login was let in before the lock was set.                          *)
THEOREM LocksOutlastLogins == Spec => LockOutlastsLogins
<1>1. TypeOK /\ Older /\ [Next]_vars =>
        [\A n \in Names : locked[n] > 1 /\ locked'[n] = 0 =>
           \E h \in Handlers : /\ At(h, "clear") /\ handler[h].name = n
                               /\ handler[h].age + locked[n] >= LockTTL]_vars
  <2> SUFFICES ASSUME TypeOK, Older, [Next]_vars, NEW n \in Names, locked[n] > 1, locked'[n] = 0
               PROVE  \E h \in Handlers : /\ At(h, "clear") /\ handler[h].name = n
                                          /\ handler[h].age + locked[n] >= LockTTL
    OBVIOUS
  <2>1. PICK h \in Handlers : At(h, "clear") /\ handler[h].name = n
    BY OnlyClear
  <2>2. locked[n] > 0
    BY DEF TypeOK
  <2> QED
    BY <2>1, <2>2 DEF Older, At, LetInLabels
<1>2. TypeOK /\ Older /\ [Next]_vars => (TypeOK /\ Older)'
  BY NextTypeOK, NextOlder
<1> QED
  BY <1>1, <1>2, InitTypeOK, InitOlder, PTL DEF Spec, LockOutlastsLogins

--------------------------------------------------------------------------------
(* How many failures an account can collect. A round of logins adds at most  *)
(* one failure for each handler: whoever counts one over the threshold goes  *)
(* on to set the lock, and nobody is let in while there is one. When a lock  *)
(* ends nobody who was let in is left, so the counter has ended before it,   *)
(* unless a login below the threshold has renewed it late; that can happen   *)
(* once, since from then on every failure is over the threshold. A login     *)
(* that breaks off before it has set the lock starts another round.          *)
Size == Cardinality(Handlers)
Room == faults * Size
One(b) == IF b THEN 1 ELSE 0

\* The state x of a request that may add a failure, that will set the lock,
\* that is about to, that will renew the counter without setting the lock.
Letting(x, n) == x.name = n /\ x.pc \in {"verify", "count"}
Closing(x, n) == x.name = n /\ (x.pc = "lock" \/ (x.pc = "expire" /\ x.count >= Threshold))
Locking(x, n) == x.name = n /\ x.pc = "lock"
Renewing(x, n) == x.name = n /\ x.pc = "expire" /\ x.count < Threshold

LetIn(n) == {h \in Handlers : Letting(handler[h], n)}
Closers(n) == {h \in Handlers : Closing(handler[h], n)}
SomeLocking(n) == \E h \in Handlers : Locking(handler[h], n)
NoneRenewing(n) == \A h \in Handlers : ~Renewing(handler[h], n)

Quiet(n) == failed[n] < Threshold
Open1(n) ==
  /\ locked[n] = 0
  /\ failed[n] <= Threshold - 1 + Cardinality(Closers(n)) + Room
Sealed1(n) ==
  /\ locked[n] > 0
  /\ failed[n] + Cardinality(LetIn(n)) <= Threshold - 1 + Size + Room
Open2(n) ==
  /\ locked[n] = 0 /\ NoneRenewing(n) /\ (SomeLocking(n) => expiry[n] > 0)
  /\ failed[n] <= Threshold - 1 + Size + Cardinality(Closers(n)) + Room
Sealed2(n) ==
  /\ locked[n] > 0 /\ NoneRenewing(n) /\ expiry[n] > 0
  /\ expiry[n] <= locked[n] \/ SomeLocking(n)
  /\ failed[n] + Cardinality(LetIn(n)) <= Threshold - 1 + Size + Size + Room

Mode(n) == Quiet(n) \/ Open1(n) \/ Sealed1(n) \/ Open2(n) \/ Sealed2(n)

LEMMA Numbers ==
  ASSUME TypeOK
  PROVE  /\ Size \in Nat /\ Room \in Nat /\ Threshold \in Nat \ {0}
         /\ \A n \in Names : /\ failed[n] \in Nat /\ expiry[n] \in 0..AttemptTTL
                             /\ locked[n] \in 0..LockTTL
<1>1. Size \in Nat
  BY SizesAssumption, FS_CardinalityType DEF Size
<1>2. faults \in Nat
  BY SizesAssumption DEF TypeOK
<1>3. \A a, b \in Nat : a * b \in Nat
  OBVIOUS
<1> QED
  BY <1>1, <1>2, <1>3, SizesAssumption DEF TypeOK, Room

LEMMA Finite ==
  ASSUME NEW n
  PROVE  /\ IsFiniteSet(LetIn(n)) /\ Cardinality(LetIn(n)) \in Nat
         /\ IsFiniteSet(Closers(n)) /\ Cardinality(Closers(n)) \in Nat
         /\ Cardinality(LetIn(n)) + Cardinality(Closers(n)) <= Size
<1>1. LetIn(n) \subseteq Handlers /\ Closers(n) \subseteq Handlers
      /\ LetIn(n) \union Closers(n) \subseteq Handlers
  BY DEF LetIn, Closers
<1>2. LetIn(n) \cap Closers(n) = {}
  BY DEF LetIn, Closers, Letting, Closing
<1>3. /\ IsFiniteSet(LetIn(n)) /\ IsFiniteSet(Closers(n))
      /\ Cardinality(LetIn(n) \union Closers(n)) <= Size
  BY <1>1, SizesAssumption, FS_Subset DEF Size
<1>4. Cardinality(LetIn(n) \cap Closers(n)) = 0
  BY <1>2, FS_EmptySet
<1>5. Cardinality(LetIn(n)) \in Nat /\ Cardinality(Closers(n)) \in Nat
  BY <1>3, FS_CardinalityType
<1>6. Cardinality(LetIn(n) \union Closers(n)) =
        Cardinality(LetIn(n)) + Cardinality(Closers(n)) - Cardinality(LetIn(n) \cap Closers(n))
  BY <1>3, FS_Union
<1> QED
  BY <1>3, <1>4, <1>5, <1>6

LEMMA CountOne ==
  ASSUME NEW S, IsFiniteSet(S), NEW r, NEW T, IsFiniteSet(T),
         \A q : q # r => (q \in T <=> q \in S)
  PROVE  Cardinality(T) = Cardinality(S) + One(r \in T) - One(r \in S)
<1>1. Cardinality(S) \in Nat /\ Cardinality(T) \in Nat
  BY FS_CardinalityType
<1>2. CASE (r \in S) = (r \in T)
  <2>1. S = T
    BY <1>2
  <2> QED
    BY <1>1, <1>2, <2>1 DEF One
<1>3. CASE r \in T /\ r \notin S
  <2>1. T = S \union {r}
    BY <1>3
  <2> QED
    BY <1>1, <1>3, <2>1, FS_AddElement DEF One
<1>4. CASE r \notin T /\ r \in S
  <2>1. T = S \ {r}
    BY <1>4
  <2> QED
    BY <1>1, <1>4, <2>1, FS_RemoveElement DEF One
<1> QED
  BY <1>2, <1>3, <1>4

\* What a step of request h does to the numbers of account n.
LEMMA Recount ==
  ASSUME NEW h \in Handlers, \A g \in Handlers \ {h} : handler'[g] = handler[g], NEW n
  PROVE  /\ Cardinality(LetIn(n)') = Cardinality(LetIn(n))
              + One(Letting(handler'[h], n)) - One(Letting(handler[h], n))
         /\ Cardinality(Closers(n)') = Cardinality(Closers(n))
              + One(Closing(handler'[h], n)) - One(Closing(handler[h], n))
         /\ Cardinality(LetIn(n)') \in Nat /\ Cardinality(Closers(n)') \in Nat
<1>1. PICK L, C : L = LetIn(n)' /\ C = Closers(n)'
  OBVIOUS
<1>2. /\ \A q : q # h => (q \in L <=> q \in LetIn(n))
      /\ h \in L <=> Letting(handler'[h], n)
      /\ h \in LetIn(n) <=> Letting(handler[h], n)
      /\ L \subseteq Handlers
  BY <1>1 DEF LetIn
<1>3. /\ \A q : q # h => (q \in C <=> q \in Closers(n))
      /\ h \in C <=> Closing(handler'[h], n)
      /\ h \in Closers(n) <=> Closing(handler[h], n)
      /\ C \subseteq Handlers
  BY <1>1 DEF Closers
<1>4. /\ IsFiniteSet(L) /\ IsFiniteSet(C) /\ Cardinality(L) \in Nat /\ Cardinality(C) \in Nat
  BY <1>2, <1>3, SizesAssumption, FS_Subset, FS_CardinalityType
<1>5. Cardinality(L) = Cardinality(LetIn(n)) + One(h \in L) - One(h \in LetIn(n))
  BY <1>2, <1>4, Finite, CountOne
<1>6. Cardinality(C) = Cardinality(Closers(n)) + One(h \in C) - One(h \in Closers(n))
  BY <1>3, <1>4, Finite, CountOne
<1> QED
  BY <1>1, <1>2, <1>3, <1>4, <1>5, <1>6 DEF One

LEMMA RoomGrows ==
  ASSUME TypeOK, faults' \in {faults, faults + 1}
  PROVE  /\ Room' \in Nat /\ Size' = Size
         /\ faults' = faults => Room' = Room
         /\ faults' = faults + 1 => Room' = Room + Size
<1>1. Size \in Nat /\ Room \in Nat /\ faults \in Nat
  BY Numbers, SizesAssumption DEF TypeOK
<1>2. \A a, b \in Nat : (a + 1) * b = a * b + b
  OBVIOUS
<1>3. (faults + 1) * Size = Room + Size
  BY <1>1, <1>2 DEF Room
<1> QED
  BY <1>1, <1>3 DEF Room, Size

\* A step that changes nothing about account n but who may add a failure to it,
\* and that only while there is no lock.
LEMMA Still ==
  ASSUME TypeOK, NEW n \in Names, Mode(n), NEW h \in Handlers,
         \A g \in Handlers \ {h} : handler'[g] = handler[g],
         failed'[n] = failed[n], expiry'[n] = expiry[n], locked'[n] = locked[n],
         faults' \in {faults, faults + 1},
         Closing(handler'[h], n) <=> Closing(handler[h], n),
         Locking(handler'[h], n) <=> Locking(handler[h], n),
         Renewing(handler'[h], n) => Renewing(handler[h], n),
         Letting(handler'[h], n) => Letting(handler[h], n) \/ locked[n] = 0
  PROVE  Mode(n)'
<1>1. /\ Cardinality(LetIn(n)) \in Nat /\ Cardinality(LetIn(n)') \in Nat
      /\ Cardinality(Closers(n)) \in Nat /\ Cardinality(Closers(n)') = Cardinality(Closers(n))
      /\ locked[n] > 0 => Cardinality(LetIn(n)') <= Cardinality(LetIn(n))
  BY Finite, Recount, Numbers DEF One
<1>2. /\ Room \in Nat /\ Room' \in Nat /\ Room <= Room' /\ Size' = Size /\ Size \in Nat
      /\ failed[n] \in Nat /\ Threshold \in Nat
  BY Numbers, RoomGrows
<1>3. /\ SomeLocking(n)' <=> SomeLocking(n)
      /\ NoneRenewing(n) => NoneRenewing(n)'
  BY DEF SomeLocking, NoneRenewing
<1>4. CASE Quiet(n)
  BY <1>4 DEF Mode, Quiet
<1>5. CASE Open1(n)
  <2>1. Open1(n)'
    BY <1>1, <1>2, <1>5 DEF Open1
  <2> QED
    BY <2>1 DEF Mode
<1>6. CASE Sealed1(n)
  <2>1. Sealed1(n)'
    BY <1>1, <1>2, <1>6 DEF Sealed1
  <2> QED
    BY <2>1 DEF Mode
<1>7. CASE Open2(n)
  <2>1. Open2(n)'
    BY <1>1, <1>2, <1>3, <1>7 DEF Open2
  <2> QED
    BY <2>1 DEF Mode
<1>8. CASE Sealed2(n)
  <2>1. Sealed2(n)'
    BY <1>1, <1>2, <1>3, <1>8 DEF Sealed2
  <2> QED
    BY <2>1 DEF Mode
<1> QED
  BY <1>4, <1>5, <1>6, <1>7, <1>8 DEF Mode

LEMMA CountMode ==
  ASSUME TypeOK, NEW h \in Handlers, Count(h), NEW n \in Names, handler[h].name = n, Mode(n)
  PROVE  Mode(n)'
<1>1. /\ Moved(h, "expire") /\ handler'[h].count = failed[n] + 1
      /\ handler[h].pc = "count"
  BY CountMoves DEF Count, At
<1>2. /\ failed'[n] = failed[n] + 1 /\ UNCHANGED <<expiry, locked, faults>>
  BY DEF Count, TypeOK
<1>3. /\ Room' = Room /\ Size' = Size /\ Room \in Nat /\ Size \in Nat /\ failed[n] \in Nat
      /\ Threshold \in Nat \ {0} /\ locked[n] \in Nat
  BY <1>2, Numbers, RoomGrows
<1>4. /\ Letting(handler[h], n) /\ ~Letting(handler'[h], n) /\ ~Closing(handler[h], n)
      /\ failed'[n] >= Threshold => Closing(handler'[h], n) /\ ~Renewing(handler'[h], n)
      /\ ~Locking(handler[h], n) /\ ~Locking(handler'[h], n)
  BY <1>1, <1>2, <1>3 DEF Letting, Closing, Locking, Renewing, Moved
<1>5. /\ Cardinality(LetIn(n)) \in Nat /\ Cardinality(Closers(n)) \in Nat
      /\ Cardinality(LetIn(n)') = Cardinality(LetIn(n)) - 1
      /\ failed'[n] >= Threshold => Cardinality(Closers(n)') = Cardinality(Closers(n)) + 1
      /\ Cardinality(LetIn(n)) <= Size
  <2>1. /\ Cardinality(LetIn(n)) \in Nat /\ Cardinality(Closers(n)) \in Nat
        /\ Cardinality(LetIn(n)) + Cardinality(Closers(n)) <= Size
    BY Finite
  <2>2. \A g \in Handlers \ {h} : handler'[g] = handler[g]
    BY <1>1 DEF Moved
  <2>3. /\ Cardinality(LetIn(n)') = Cardinality(LetIn(n))
             + One(Letting(handler'[h], n)) - One(Letting(handler[h], n))
        /\ Cardinality(Closers(n)') = Cardinality(Closers(n))
             + One(Closing(handler'[h], n)) - One(Closing(handler[h], n))
    BY <2>2, Recount
  <2> QED
    BY <1>3, <1>4, <2>1, <2>3 DEF One
<1>6. /\ SomeLocking(n)' <=> SomeLocking(n)
      /\ failed'[n] >= Threshold /\ NoneRenewing(n) => NoneRenewing(n)'
  BY <1>1, <1>4 DEF SomeLocking, NoneRenewing, Moved
<1>7. CASE failed'[n] < Threshold
  BY <1>7 DEF Mode, Quiet
<1>8. CASE failed'[n] >= Threshold
  <2>1. CASE Quiet(n)
    <3>1. Open1(n)' \/ Sealed1(n)'
      BY <1>2, <1>3, <1>5, <1>8, <2>1 DEF Quiet, Open1, Sealed1
    <3> QED
      BY <3>1 DEF Mode
  <2>2. CASE Open1(n)
    <3>1. Open1(n)'
      BY <1>2, <1>3, <1>5, <1>8, <2>2 DEF Open1
    <3> QED
      BY <3>1 DEF Mode
  <2>3. CASE Sealed1(n)
    <3>1. Sealed1(n)'
      BY <1>2, <1>3, <1>5, <1>8, <2>3 DEF Sealed1
    <3> QED
      BY <3>1 DEF Mode
  <2>4. CASE Open2(n)
    <3>1. Open2(n)'
      BY <1>2, <1>3, <1>5, <1>6, <1>8, <2>4 DEF Open2
    <3> QED
      BY <3>1 DEF Mode
  <2>5. CASE Sealed2(n)
    <3>1. Sealed2(n)'
      BY <1>2, <1>3, <1>5, <1>6, <1>8, <2>5 DEF Sealed2
    <3> QED
      BY <3>1 DEF Mode
  <2> QED
    BY <2>1, <2>2, <2>3, <2>4, <2>5 DEF Mode
<1> QED
  BY <1>2, <1>3, <1>7, <1>8

LEMMA ExpireMode ==
  ASSUME TypeOK, NEW h \in Handlers, Expire(h), NEW n \in Names, handler[h].name = n, Mode(n)
  PROVE  Mode(n)'
<1>1. /\ handler[h].pc = "expire" /\ handler[h].count \in Nat /\ Threshold \in Nat
      /\ UNCHANGED <<failed, locked, faults>>
  BY HandlerTyped, Numbers DEF Expire, At
<1>2. CASE handler[h].count >= Threshold /\ Goto(h, "lock")
  <2>1. Moved(h, "lock")
    BY <1>2, GotoMoves DEF Labels
  <2>2. /\ Closing(handler[h], n) /\ Closing(handler'[h], n)
        /\ ~Letting(handler[h], n) /\ ~Letting(handler'[h], n)
        /\ Locking(handler'[h], n) /\ ~Renewing(handler'[h], n)
    <3>1. handler'[h].pc = "lock" /\ handler'[h].name = n
      BY <2>1 DEF Moved
    <3>2. handler[h].pc = "expire" /\ handler[h].count >= Threshold
      BY <1>1, <1>2
    <3> QED
      BY <3>1, <3>2 DEF Closing, Letting, Locking, Renewing
  <2>3. \A g \in Handlers \ {h} : handler'[g] = handler[g]
    BY <2>1 DEF Moved
  <2>4. /\ Cardinality(LetIn(n)') = Cardinality(LetIn(n))
        /\ Cardinality(Closers(n)') = Cardinality(Closers(n))
        /\ Cardinality(LetIn(n)) \in Nat /\ Cardinality(Closers(n)) \in Nat
    BY <2>2, <2>3, Recount, Finite DEF One
  <2>5. SomeLocking(n)' /\ (NoneRenewing(n) => NoneRenewing(n)')
    BY <2>2, <2>3 DEF SomeLocking, NoneRenewing
  <2>6. Room' = Room /\ Size' = Size
    BY <1>1, RoomGrows
  <2>7. failed[n] > 0 => expiry'[n] > 0
    BY <1>1, SizesAssumption DEF Expire, TypeOK
  <2>8. failed[n] \in Nat /\ Threshold \in Nat \ {0}
    BY Numbers
  <2>9. CASE Quiet(n)
    BY <1>1, <2>9 DEF Mode, Quiet
  <2>10. CASE ~Quiet(n)
    <3>1. expiry'[n] > 0
      BY <2>7, <2>8, <2>10 DEF Quiet
    <3>2. Open1(n) => Open1(n)'
      BY <1>1, <2>4, <2>6 DEF Open1
    <3>3. Sealed1(n) => Sealed1(n)'
      BY <1>1, <2>4, <2>6 DEF Sealed1
    <3>4. Open2(n) => Open2(n)'
      BY <1>1, <2>4, <2>5, <2>6, <3>1 DEF Open2
    <3>5. Sealed2(n) => Sealed2(n)'
      BY <1>1, <2>4, <2>5, <2>6, <3>1 DEF Sealed2
    <3> QED
      BY <2>10, <3>2, <3>3, <3>4, <3>5 DEF Mode
  <2> QED
    BY <2>9, <2>10
<1>3. CASE handler[h].count < Threshold /\ Answer(h)
  <2>1. Moved(h, "idle")
    BY <1>3, AnswerMoves
  <2>2. /\ ~Closing(handler[h], n) /\ ~Closing(handler'[h], n) /\ Renewing(handler[h], n)
        /\ ~Letting(handler[h], n) /\ ~Letting(handler'[h], n)
    BY <1>1, <1>3, <2>1 DEF Closing, Letting, Renewing, Moved
  <2>3. \A g \in Handlers \ {h} : handler'[g] = handler[g]
    BY <2>1 DEF Moved
  <2>4. /\ Cardinality(LetIn(n)') = Cardinality(LetIn(n))
        /\ Cardinality(Closers(n)') = Cardinality(Closers(n))
        /\ Cardinality(LetIn(n)) \in Nat /\ Cardinality(Closers(n)) \in Nat
    BY <2>2, <2>3, Recount, Finite DEF One
  <2>5. Room' = Room /\ Size' = Size
    BY <1>1, RoomGrows
  <2>6. ~Open2(n) /\ ~Sealed2(n)
    BY <2>2 DEF Open2, Sealed2, NoneRenewing
  <2>7. Quiet(n) => Quiet(n)'
    BY <1>1 DEF Quiet
  <2>8. Open1(n) => Open1(n)'
    BY <1>1, <2>4, <2>5 DEF Open1
  <2>9. Sealed1(n) => Sealed1(n)'
    BY <1>1, <2>4, <2>5 DEF Sealed1
  <2> QED
    BY <2>6, <2>7, <2>8, <2>9 DEF Mode
<1> QED
  BY <1>1, <1>2, <1>3 DEF Expire

LEMMA LockMode ==
  ASSUME TypeOK, NEW h \in Handlers, Lock(h), NEW n \in Names, handler[h].name = n, Mode(n)
  PROVE  Mode(n)'
<1>1. /\ handler[h].pc = "lock" /\ Moved(h, "idle")
      /\ UNCHANGED <<failed, expiry, faults>> /\ locked'[n] = LockTTL
  <2>1. locked' = [locked EXCEPT ![n] = LockTTL]
    BY DEF Lock
  <2>2. locked'[n] = LockTTL
    BY <2>1 DEF TypeOK
  <2> QED
    BY <2>2, LockTyped DEF Lock, At
<1>2. /\ Closing(handler[h], n) /\ Locking(handler[h], n)
      /\ ~Letting(handler[h], n) /\ ~Letting(handler'[h], n) /\ ~Renewing(handler'[h], n)
  BY <1>1 DEF Closing, Letting, Locking, Renewing, Moved
<1>3. \A g \in Handlers \ {h} : handler'[g] = handler[g]
  BY <1>1 DEF Moved
<1>4. /\ Cardinality(LetIn(n)') = Cardinality(LetIn(n))
      /\ Cardinality(LetIn(n)) \in Nat /\ Cardinality(Closers(n)) \in Nat
      /\ Cardinality(LetIn(n)) + Cardinality(Closers(n)) <= Size
  BY <1>2, <1>3, Recount, Finite DEF One
<1>5. SomeLocking(n) /\ (NoneRenewing(n) => NoneRenewing(n)')
  BY <1>2, <1>3 DEF SomeLocking, NoneRenewing
<1>6. /\ Room' = Room /\ Size' = Size /\ Room \in Nat /\ Size \in Nat
      /\ failed[n] \in Nat /\ Threshold \in Nat /\ locked[n] \in Nat
      /\ expiry[n] \in 0..AttemptTTL
  BY <1>1, Numbers, RoomGrows
<1>7. locked'[n] > 0 /\ expiry'[n] <= locked'[n]
  BY <1>1, <1>6, SizesAssumption, TimesAssumption
<1>8. Quiet(n) => Quiet(n)'
  BY <1>1 DEF Quiet
<1>9. Open1(n) \/ Sealed1(n) => Sealed1(n)'
  BY <1>1, <1>4, <1>6, <1>7 DEF Open1, Sealed1
<1>10. Open2(n) \/ Sealed2(n) => Sealed2(n)'
  BY <1>1, <1>4, <1>5, <1>6, <1>7 DEF Open2, Sealed2
<1> QED
  BY <1>8, <1>9, <1>10 DEF Mode

\* A login that breaks off before it has set its lock.
LEMMA FaultMode ==
  ASSUME TypeOK, NEW h \in Handlers, Fail(h), handler[h].pc \in {"expire", "lock"},
         NEW n \in Names, handler[h].name = n, Mode(n)
  PROVE  Mode(n)'
<1>1. /\ Moved(h, "idle") /\ UNCHANGED <<failed, expiry, locked>> /\ faults' = faults + 1
  BY FailTyped DEF Fail, At
<1>2. ~Letting(handler[h], n) /\ ~Letting(handler'[h], n) /\ ~Closing(handler'[h], n)
      /\ ~Renewing(handler'[h], n) /\ ~Locking(handler'[h], n)
  BY <1>1 DEF Closing, Letting, Renewing, Locking, Moved
<1>3. \A g \in Handlers \ {h} : handler'[g] = handler[g]
  BY <1>1 DEF Moved
<1>4. /\ Cardinality(LetIn(n)') = Cardinality(LetIn(n))
      /\ Cardinality(LetIn(n)) \in Nat /\ Cardinality(Closers(n)) \in Nat
      /\ Cardinality(Closers(n)') >= Cardinality(Closers(n)) - 1
      /\ Cardinality(Closers(n)') \in Nat
  BY <1>2, <1>3, Recount, Finite DEF One
<1>5. /\ SomeLocking(n)' => SomeLocking(n)
      /\ NoneRenewing(n) => NoneRenewing(n)'
  BY <1>2, <1>3 DEF SomeLocking, NoneRenewing
<1>6. /\ Room' = Room + Size /\ Size' = Size /\ Room \in Nat /\ Size \in Nat
      /\ failed[n] \in Nat /\ Threshold \in Nat
  BY <1>1, Numbers, RoomGrows
<1>7. Size >= 1
  <2>1. Size # 0
    BY SizesAssumption, FS_EmptySet DEF Size
  <2> QED
    BY <1>6, <2>1
<1>8. Quiet(n) => Quiet(n)'
  BY <1>1 DEF Quiet
<1>9. Open1(n) => Open1(n)'
  BY <1>1, <1>4, <1>6, <1>7 DEF Open1
<1>10. Sealed1(n) \/ Sealed2(n) => Sealed1(n)'
  BY <1>1, <1>4, <1>6, <1>7 DEF Sealed1, Sealed2
<1>11. Open2(n) => Open2(n)'
  BY <1>1, <1>4, <1>5, <1>6, <1>7 DEF Open2
<1> QED
  BY <1>8, <1>9, <1>10, <1>11 DEF Mode

\* When a lock ends nobody is left who was let in before it was set.
LEMMA LockEndsEmpty ==
  ASSUME TypeOK, Older, Tick, NEW n \in Names, locked[n] = 1
  PROVE  /\ Cardinality(LetIn(n)') = 0 /\ Cardinality(Closers(n)') = 0
         /\ ~SomeLocking(n) /\ ~SomeLocking(n)' /\ NoneRenewing(n)'
<1>1. ASSUME NEW h \in Handlers, handler[h].name = n, handler[h].pc \in LetInLabels
      PROVE  FALSE
  <2>1. ~At(h, "idle") /\ handler[h].age \in Nat
    BY <1>1, HandlerTyped, SizesAssumption DEF At, LetInLabels
  <2>2. handler[h].age < MaxAge
    BY <2>1 DEF Tick
  <2>3. handler[h].age + 1 >= LockTTL
    BY <1>1 DEF Older
  <2> QED
    BY <2>1, <2>2, <2>3, SizesAssumption, TimesAssumption
<1>2. \A h \in Handlers : handler'[h].pc = handler[h].pc /\ handler'[h].name = handler[h].name
  BY TickHandlers
<1>3. LetIn(n)' = {} /\ Closers(n)' = {}
  BY <1>1, <1>2 DEF LetIn, Closers, Letting, Closing, LetInLabels
<1>4. ~SomeLocking(n) /\ ~SomeLocking(n)' /\ NoneRenewing(n)'
  BY <1>1, <1>2 DEF SomeLocking, NoneRenewing, Locking, Renewing, LetInLabels
<1>5. Cardinality({}) = 0
  BY FS_EmptySet
<1> QED
  BY <1>3, <1>4, <1>5

LEMMA TickMode ==
  ASSUME TypeOK, Older, Tick, NEW n \in Names, Mode(n)
  PROVE  Mode(n)'
<1>1. /\ failed'[n] = IF expiry[n] = 1 THEN 0 ELSE failed[n]
      /\ expiry'[n] = Less(expiry[n]) /\ locked'[n] = Less(locked[n]) /\ faults' = faults
  BY DEF Tick
<1>2. /\ Room' = Room /\ Size' = Size /\ Room \in Nat /\ Size \in Nat /\ Threshold \in Nat \ {0}
      /\ failed[n] \in Nat /\ expiry[n] \in Nat /\ locked[n] \in Nat
  BY <1>1, Numbers, RoomGrows
<1>3. CASE failed'[n] < Threshold
  BY <1>3 DEF Mode, Quiet
<1>4. CASE failed'[n] >= Threshold
  <2>1. failed'[n] = failed[n] /\ expiry[n] # 1 /\ ~Quiet(n)
    BY <1>1, <1>2, <1>4 DEF Quiet
  <2>2. expiry[n] > 0 => expiry'[n] = expiry[n] - 1 /\ expiry'[n] > 0
    BY <1>1, <1>2, <2>1 DEF Less
  <2>3. CASE locked[n] = 1
    <3>1. /\ Cardinality(LetIn(n)') = 0 /\ Cardinality(Closers(n)') = 0
          /\ ~SomeLocking(n) /\ ~SomeLocking(n)' /\ NoneRenewing(n)'
      BY <2>3, LockEndsEmpty
    <3>2. locked'[n] = 0
      BY <1>1, <2>3 DEF Less
    <3>3. ~Sealed2(n)
      BY <1>2, <2>1, <2>3, <3>1 DEF Sealed2
    <3>4. Sealed1(n) => Open2(n)'
      <4>1. Cardinality(LetIn(n)) \in Nat
        BY Finite
      <4> QED
        BY <1>2, <2>1, <3>1, <3>2, <4>1 DEF Sealed1, Open2
    <3> QED
      BY <2>1, <2>3, <3>3, <3>4 DEF Mode, Open1, Open2
  <2>4. CASE locked[n] # 1
    <3>1. \A h \in Handlers :
            /\ Letting(handler'[h], n) <=> Letting(handler[h], n)
            /\ Closing(handler'[h], n) <=> Closing(handler[h], n)
            /\ Locking(handler'[h], n) <=> Locking(handler[h], n)
            /\ Renewing(handler'[h], n) <=> Renewing(handler[h], n)
      <4>1. \A h \in Handlers : /\ handler'[h].pc = handler[h].pc
                                /\ handler'[h].name = handler[h].name
                                /\ handler'[h].count = handler[h].count
        BY DEF Tick, TypeOK, Handler
      <4> QED
        BY <4>1 DEF Letting, Closing, Locking, Renewing
    <3>2. LetIn(n)' = LetIn(n) /\ Closers(n)' = Closers(n)
      BY <3>1 DEF LetIn, Closers
    <3>3. (SomeLocking(n)' <=> SomeLocking(n)) /\ (NoneRenewing(n)' <=> NoneRenewing(n))
      BY <3>1 DEF SomeLocking, NoneRenewing
    <3>4. /\ locked[n] = 0 => locked'[n] = 0
          /\ locked[n] > 0 => locked'[n] = locked[n] - 1 /\ locked'[n] > 0
      BY <1>1, <1>2, <2>4 DEF Less
    <3>5. Open1(n) => Open1(n)'
      BY <1>2, <2>1, <3>2, <3>4 DEF Open1
    <3>6. Sealed1(n) => Sealed1(n)'
      BY <1>2, <2>1, <3>2, <3>4 DEF Sealed1
    <3>7. Open2(n) => Open2(n)'
      BY <1>2, <2>1, <2>2, <3>2, <3>3, <3>4 DEF Open2
    <3>8. Sealed2(n) => Sealed2(n)'
      BY <1>2, <2>1, <2>2, <3>2, <3>3, <3>4 DEF Sealed2
    <3> QED
      BY <2>1, <3>5, <3>6, <3>7, <3>8 DEF Mode
  <2> QED
    BY <2>3, <2>4
<1> QED
  BY <1>1, <1>2, <1>3, <1>4

\* No step takes an account out of its mode; only those of a login of its own
\* that count, renew, lock or break off change anything about it.
LEMMA NextMode ==
  ASSUME TypeOK, Older, Next, NEW n \in Names, Mode(n)
  PROVE  Mode(n)'
<1>1. ASSUME NEW h \in Handlers, NEW m \in Names, NEW p \in Passwords,
             Register(h, m, p) \/ Login(h, m, p)
      PROVE  Mode(n)'
  <2>1. PICK label \in {"lookup", "check"} :
          handler' = [handler EXCEPT ![h] = Begun(label, m, p)]
    BY <1>1 DEF Register, Login
  <2>2. label \in Labels
    BY DEF Labels
  <2>3. handler'[h].pc = label /\ \A g \in Handlers \ {h} : handler'[g] = handler[g]
    BY <2>1, <2>2, BegunTyped
  <2>4. handler[h].pc = "idle" /\ UNCHANGED <<failed, expiry, locked, faults>>
    BY <1>1 DEF Register, Login, At
  <2>5. /\ Closing(handler'[h], n) <=> Closing(handler[h], n)
        /\ Locking(handler'[h], n) <=> Locking(handler[h], n)
        /\ ~Renewing(handler'[h], n) /\ ~Letting(handler'[h], n)
    BY <2>3, <2>4 DEF Closing, Locking, Renewing, Letting
  <2> QED
    BY <2>3, <2>4, <2>5, Still
\* A request for another account, or at a label that has to do with neither
\* the counter nor the lock.
<1>2. ASSUME NEW h \in Handlers, NEW label, Moved(h, label),
             failed'[n] = failed[n], expiry'[n] = expiry[n], locked'[n] = locked[n],
             faults' \in {faults, faults + 1},
             handler[h].name = n =>
               /\ handler[h].pc \notin {"expire", "lock"} /\ label \notin {"expire", "lock"}
               /\ handler[h].pc \in {"verify", "count"} \/ label \notin {"verify", "count"}
                    \/ locked[n] = 0
      PROVE  Mode(n)'
  <2>1. \A g \in Handlers \ {h} : handler'[g] = handler[g]
    BY <1>2 DEF Moved
  <2>2. label # "idle" => handler'[h].name = handler[h].name
    BY <1>2 DEF Moved
  <2>3. handler'[h].pc = label
    BY <1>2 DEF Moved
  <2>4. /\ Closing(handler'[h], n) <=> Closing(handler[h], n)
        /\ Locking(handler'[h], n) <=> Locking(handler[h], n)
        /\ Renewing(handler'[h], n) => Renewing(handler[h], n)
        /\ Letting(handler'[h], n) => Letting(handler[h], n) \/ locked[n] = 0
    <3>1. CASE handler[h].name = n
      BY <1>2, <2>2, <2>3, <3>1 DEF Closing, Locking, Renewing, Letting
    <3>2. CASE handler[h].name # n
      BY <2>2, <2>3, <3>2 DEF Closing, Locking, Renewing, Letting
    <3> QED
      BY <3>1, <3>2
  <2> QED
    BY <1>2, <2>1, <2>4, Still
<1>3. ASSUME NEW h \in Handlers, Lookup(h) \/ Insert(h) \/ Created(h) \/ Check(h) \/ Verify(h)
      PROVE  Mode(n)'
  <2>1. UNCHANGED <<failed, expiry, locked, faults>>
    BY <1>3 DEF Lookup, Insert, Created, Check, Verify
  <2>2. PICK label : /\ Moved(h, label) /\ label \notin {"expire", "lock"}
                     /\ \/ label \notin {"verify", "count"} \/ handler[h].pc \in {"verify", "count"}
                        \/ handler[h].name = n => locked[n] = 0
    <3>1. CASE Lookup(h)
      <4>1. Answer(h) \/ Goto(h, "insert")
        BY <3>1 DEF Lookup
      <4> QED
        BY <4>1, GotoMoves, AnswerMoves DEF Labels
    <3>2. CASE Insert(h) \/ Created(h)
      BY <3>2, InsertTyped, CreatedTyped
    <3>3. CASE Check(h)
      <4>1. Answer(h) \/ (Goto(h, "verify") /\ ~(locked[handler[h].name] > 0))
        BY <3>3 DEF Check
      <4>2. CASE Answer(h)
        BY <4>2, AnswerMoves
      <4>3. CASE Goto(h, "verify") /\ ~(locked[handler[h].name] > 0)
        <5>1. Moved(h, "verify")
          BY <4>3, GotoMoves DEF Labels
        <5>2. handler[h].name = n => locked[n] = 0
          BY <4>3, Numbers
        <5> QED
          BY <5>1, <5>2
      <4> QED
        BY <4>1, <4>2, <4>3
    <3>4. CASE Verify(h)
      <4>1. handler[h].pc = "verify"
        BY <3>4 DEF Verify, At
      <4> QED
        BY <3>4, <4>1, VerifyMoves
    <3> QED
      BY <1>3, <3>1, <3>2, <3>3, <3>4
  <2>3. handler[h].pc \notin {"expire", "lock"}
    BY <1>3 DEF Lookup, Insert, Created, Check, Verify, At
  <2> QED
    BY <1>2, <2>1, <2>2, <2>3
<1>4. ASSUME NEW h \in Handlers, Count(h) \/ Expire(h) \/ Lock(h) \/ Clear(h)
      PROVE  Mode(n)'
  <2>1. PICK m \in Names : m = handler[h].name
    BY <1>4, HandlerTyped DEF Count, Expire, Lock, Clear, At
  <2>2. CASE m # n
    <3>1. /\ failed' = failed \/ \E i : failed' = [failed EXCEPT ![m] = i]
          /\ expiry' = expiry \/ \E i : expiry' = [expiry EXCEPT ![m] = i]
          /\ locked' = locked \/ \E i : locked' = [locked EXCEPT ![m] = i]
      BY <1>4, <2>1, Zenon DEF Count, Expire, Lock, Clear
    <3>2. failed'[n] = failed[n] /\ expiry'[n] = expiry[n] /\ locked'[n] = locked[n]
      BY <2>2, <3>1 DEF TypeOK
    <3>3. faults' = faults /\ \E label : Moved(h, label)
      BY <1>4, CountTyped, ExpireTyped, LockTyped, ClearTyped DEF Count, Expire, Lock, Clear
    <3> QED
      BY <1>2, <2>1, <2>2, <3>2, <3>3
  <2>3. CASE m = n
    <3>1. CASE Clear(h)
      <4>1. failed'[n] = 0
        BY <2>1, <2>3, <3>1 DEF Clear, TypeOK
      <4> QED
        BY <4>1, SizesAssumption DEF Mode, Quiet
    <3> QED
      BY <1>4, <2>1, <2>3, <3>1, CountMode, ExpireMode, LockMode
  <2> QED
    BY <2>2, <2>3
<1>5. ASSUME NEW h \in Handlers, Fail(h)
      PROVE  Mode(n)'
  <2>1. /\ Moved(h, "idle") /\ UNCHANGED <<failed, expiry, locked>>
        /\ faults' \in {faults, faults + 1}
    BY <1>5, FailTyped DEF Fail
  <2>2. CASE handler[h].name = n /\ handler[h].pc \in {"expire", "lock"}
    BY <1>5, <2>2, FaultMode
  <2>3. CASE ~(handler[h].name = n /\ handler[h].pc \in {"expire", "lock"})
    BY <1>2, <2>1, <2>3
  <2> QED
    BY <2>2, <2>3
<1>6. CASE Tick
  BY <1>6, TickMode
<1> QED
  BY <1>1, <1>3, <1>4, <1>5, <1>6 DEF Next, Step

LEMMA StutterMode ==
  ASSUME NEW n \in Names, Mode(n), UNCHANGED vars
  PROVE  Mode(n)'
BY DEF vars, Mode, Quiet, Open1, Sealed1, Open2, Sealed2, NoneRenewing, SomeLocking, LetIn,
       Closers, Room, Size

LEMMA InitMode == Init => \A n \in Names : Mode(n)
BY SizesAssumption DEF Init, Mode, Quiet

LEMMA ModeBounds == TypeOK /\ (\A n \in Names : Mode(n)) => FailuresBounded
<1> SUFFICES ASSUME TypeOK, NEW n \in Names, Mode(n)
             PROVE  failed[n] <= Threshold - 1 + (2 + faults) * Cardinality(Handlers)
  BY DEF FailuresBounded
<1>1. /\ Size \in Nat /\ Room \in Nat /\ failed[n] \in Nat /\ faults \in Nat /\ Threshold \in Nat
      /\ Cardinality(LetIn(n)) \in Nat /\ Cardinality(Closers(n)) \in Nat
      /\ Cardinality(LetIn(n)) + Cardinality(Closers(n)) <= Size
  BY Numbers, Finite, SizesAssumption DEF TypeOK
<1>2. \A a, b \in Nat : (2 + a) * b = b + b + a * b
  OBVIOUS
<1>3. (2 + faults) * Size = Size + Size + Room
  BY <1>1, <1>2 DEF Room
<1>4. failed[n] <= Threshold - 1 + Size + Size + Room
  BY <1>1 DEF Mode, Quiet, Open1, Sealed1, Open2, Sealed2
<1>5. PICK room : room = (2 + faults) * Cardinality(Handlers)
  OBVIOUS
<1>6. room = Size + Size + Room
  BY <1>3, <1>5 DEF Size
<1>7. failed[n] <= Threshold - 1 + room
  BY <1>1, <1>4, <1>6
<1> QED
  BY <1>5, <1>7

(* However logins interleave and break off, and however late a counter is    *)
(* renewed, the failures counted on an account stay bounded.                 *)
THEOREM FailuresStayBounded == Spec => []FailuresBounded
<1> DEFINE Modes == \A n \in Names : Mode(n)
<1>1. TypeOK /\ Older /\ Modes /\ [Next]_vars => (TypeOK /\ Older)' /\ Modes'
  BY NextTypeOK, NextOlder, NextMode, StutterMode
<1>2. TypeOK /\ Modes => FailuresBounded
  BY ModeBounds
<1>3. Init => TypeOK /\ Older /\ Modes
  BY InitTypeOK, InitOlder, InitMode
<1> HIDE DEF Modes
<1> QED
  BY <1>1, <1>2, <1>3, PTL DEF Spec

--------------------------------------------------------------------------------
(* How long a lock lasts. A login that can still set the lock was let in    *)
(* when the account was open, so it is at least as old as the lock; and it  *)
(* lives for MaxAge ticks at most.                                          *)
LetInBefore ==
  \A h \in Handlers :
    handler[h].pc \in LetInLabels => since[handler[h].name] <= handler[h].age

Brief == LockIsShort /\ \A n \in Names : locked[n] = 0 => since[n] = 0

LEMMA InitBrief == Init => Brief /\ LetInBefore
<1> SUFFICES ASSUME Init PROVE Brief /\ LetInBefore
  OBVIOUS
<1>1. \A h \in Handlers : handler[h].pc = "idle"
  BY DEF Init, IdleHandler
<1> QED
  BY <1>1, SizesAssumption DEF Init, Brief, LockIsShort, LetInBefore, LetInLabels

(* A call that leaves the lock alone lets nobody in who could set it late.  *)
LEMMA MovedBrief ==
  ASSUME TypeOK, Brief, LetInBefore, NEW h \in Handlers, NEW label, Moved(h, label),
         UNCHANGED <<locked, since>>,
         label \in LetInLabels =>
           handler[h].pc \in LetInLabels \/ locked[handler[h].name] = 0,
         ~At(h, "idle")
  PROVE  (Brief /\ LetInBefore)'
<1>1. Brief'
  BY DEF Brief, LockIsShort
<1>2. LetInBefore'
  <2> SUFFICES ASSUME NEW g \in Handlers, handler'[g].pc \in LetInLabels
               PROVE  since[handler'[g].name] <= handler'[g].age
    BY DEF LetInBefore
  <2>1. CASE g # h
    BY <2>1 DEF Moved, LetInBefore
  <2>2. CASE g = h
    <3>1. /\ handler'[h].name = handler[h].name /\ handler'[h].age = handler[h].age
          /\ handler[h].name \in Names /\ handler[h].age \in Nat
      BY <2>2, HandlerTyped DEF Moved, LetInLabels
    <3> QED
      BY <2>2, <3>1 DEF Moved, LetInBefore, Brief
  <2> QED
    BY <2>1, <2>2
<1> QED
  BY <1>1, <1>2

LEMMA BeginBrief ==
  ASSUME TypeOK, Brief, LetInBefore, NEW h \in Handlers, NEW n \in Names,
         NEW p \in Passwords, Register(h, n, p) \/ Login(h, n, p)
  PROVE  (Brief /\ LetInBefore)'
<1>1. PICK label \in {"lookup", "check"} :
        handler' = [handler EXCEPT ![h] = Begun(label, n, p)]
  BY DEF Register, Login
<1>2. label \in Labels
  BY DEF Labels
<1>3. handler'[h].pc = label /\ \A g \in Handlers \ {h} : handler'[g] = handler[g]
  BY <1>1, <1>2, BegunTyped
<1>4. UNCHANGED <<locked, since>>
  BY DEF Register, Login
<1> QED
  BY <1>3, <1>4 DEF Brief, LockIsShort, LetInBefore, LetInLabels

(* The calls of a handler other than Lock and Clear.                        *)
LEMMA CallBrief ==
  ASSUME TypeOK, Brief, LetInBefore, NEW h \in Handlers,
         \/ Lookup(h) \/ Insert(h) \/ Created(h) \/ Check(h) \/ Verify(h)
         \/ Count(h) \/ Expire(h) \/ Fail(h)
  PROVE  (Brief /\ LetInBefore)'
<1>1. UNCHANGED <<locked, since>> /\ ~At(h, "idle")
  BY DEF Lookup, Insert, Created, Check, Verify, Count, Expire, Fail, At
<1>2. \E label : /\ Moved(h, label)
                 /\ label \in LetInLabels =>
                      handler[h].pc \in LetInLabels \/ locked[handler[h].name] = 0
  <2>1. CASE Lookup(h) \/ Insert(h) \/ Created(h) \/ Fail(h)
    <3>1. CASE Lookup(h)
      <4>1. Answer(h) \/ Goto(h, "insert")
        BY <3>1 DEF Lookup
      <4>2. Moved(h, "idle") \/ Moved(h, "insert")
        BY <4>1, GotoMoves, AnswerMoves DEF Labels
      <4> QED
        BY <4>2 DEF LetInLabels
    <3>2. CASE Insert(h)
      <4>1. Answer(h) \/ Goto(h, "created")
        BY <3>2 DEF Insert
      <4>2. Moved(h, "idle") \/ Moved(h, "created")
        BY <4>1, GotoMoves, AnswerMoves DEF Labels
      <4> QED
        BY <4>2 DEF LetInLabels
    <3>3. CASE Created(h) \/ Fail(h)
      <4>1. Moved(h, "idle")
        BY <3>3, AnswerMoves DEF Created, Fail
      <4> QED
        BY <4>1 DEF LetInLabels
    <3> QED
      BY <2>1, <3>1, <3>2, <3>3
  <2>2. CASE Check(h)
    <3>1. CASE Answer(h)
      <4>1. Moved(h, "idle")
        BY <3>1, AnswerMoves
      <4> QED
        BY <4>1 DEF LetInLabels
    <3>2. CASE Goto(h, "verify") /\ ~(locked[handler[h].name] > 0)
      <4>1. Moved(h, "verify")
        BY <3>2, GotoMoves DEF Labels
      <4>2. locked[handler[h].name] \in Nat
        BY <1>1, HandlerTyped DEF TypeOK
      <4> QED
        BY <3>2, <4>1, <4>2
    <3> QED
      BY <2>2, <3>1, <3>2 DEF Check
  <2>3. CASE Verify(h) \/ Count(h) \/ Expire(h)
    <3>1. \E label : Moved(h, label)
      <4>1. CASE Verify(h)
        BY <4>1, VerifyMoves
      <4>2. CASE Count(h)
        BY <4>2, CountMoves
      <4>3. CASE Expire(h)
        BY <4>3, GotoMoves, AnswerMoves DEF Expire, Labels
      <4> QED
        BY <2>3, <4>1, <4>2, <4>3
    <3>2. handler[h].pc \in LetInLabels
      BY <2>3 DEF Verify, Count, Expire, At, LetInLabels
    <3> QED
      BY <3>1, <3>2
  <2> QED
    BY <2>1, <2>2, <2>3
<1> QED
  BY <1>1, <1>2, MovedBrief

(* A lock set again is at most as old as the login that sets it.            *)
LEMMA LockBrief ==
  ASSUME TypeOK, Brief, LetInBefore, NEW h \in Handlers, Lock(h)
  PROVE  (Brief /\ LetInBefore)'
<1> PICK n \in Names : n = handler[h].name
  BY HandlerTyped DEF Lock, At
<1>1. /\ Moved(h, "idle") /\ UNCHANGED since
      /\ locked' = [locked EXCEPT ![n] = LockTTL]
  BY AnswerMoves DEF Lock
<1>2. since[n] <= handler[h].age /\ handler[h].age \in 0..MaxAge
  BY HandlerTyped DEF LetInBefore, LetInLabels, Lock, At
<1>3. since[n] \in Nat /\ LockTTL \in Nat \ {0} /\ MaxAge \in Nat
  BY SizesAssumption DEF TypeOK
<1>4. locked'[n] = LockTTL /\ \A m \in Names : m # n => locked'[m] = locked[m]
  BY <1>1 DEF TypeOK
<1>5. Brief'
  BY <1>1, <1>2, <1>3, <1>4 DEF Brief, LockIsShort
<1>6. LetInBefore'
  BY <1>1 DEF Moved, LetInBefore, LetInLabels
<1> QED
  BY <1>5, <1>6

LEMMA ClearBrief ==
  ASSUME TypeOK, Brief, LetInBefore, NEW h \in Handlers, Clear(h)
  PROVE  (Brief /\ LetInBefore)'
<1> PICK n \in Names : n = handler[h].name
  BY HandlerTyped DEF Clear, At
<1>1. /\ Moved(h, "idle")
      /\ locked' = [locked EXCEPT ![n] = 0] /\ since' = [since EXCEPT ![n] = 0]
  BY AnswerMoves DEF Clear
<1>2. /\ locked'[n] = 0 /\ since'[n] = 0
      /\ \A m \in Names : m # n => locked'[m] = locked[m] /\ since'[m] = since[m]
  BY <1>1 DEF TypeOK
<1>3. Brief'
  BY <1>2, SizesAssumption DEF Brief, LockIsShort
<1>4. LetInBefore'
  <2> SUFFICES ASSUME NEW g \in Handlers, handler'[g].pc \in LetInLabels
               PROVE  since'[handler'[g].name] <= handler'[g].age
    BY DEF LetInBefore
  <2>1. g # h /\ handler'[g] = handler[g]
    BY <1>1 DEF Moved, LetInLabels
  <2>2. handler[g].name \in Names /\ handler[g].age \in Nat
    BY <2>1, HandlerTyped DEF At, LetInLabels
  <2>3. since[handler[g].name] <= handler[g].age
    BY <2>1 DEF LetInBefore
  <2> QED
    BY <1>2, <2>1, <2>2, <2>3
<1> QED
  BY <1>3, <1>4

(* A tick makes the lock shorter and everybody older by one.                *)
LEMMA TickBrief ==
  ASSUME TypeOK, Brief, LetInBefore, Tick
  PROVE  (Brief /\ LetInBefore)'
<1>1. ASSUME NEW n \in Names
      PROVE  /\ locked[n] \in Nat /\ since[n] \in Nat
             /\ since[n] + locked[n] <= LockTTL + MaxAge
             /\ locked[n] > 1 => locked'[n] = locked[n] - 1 /\ since'[n] = since[n] + 1
             /\ locked[n] <= 1 => locked'[n] = 0 /\ since'[n] = 0
  <2>1. locked[n] \in Nat /\ since[n] \in Nat /\ since[n] + locked[n] <= LockTTL + MaxAge
    BY DEF TypeOK, Brief, LockIsShort
  <2>2. /\ locked'[n] = Less(locked[n])
        /\ since'[n] = IF locked[n] > 1 THEN Longer(since[n]) ELSE 0
    BY DEF Tick
  <2>3. since[n] <= LockTTL + MaxAge
    BY <2>1, SizesAssumption
  <2> QED
    BY <2>1, <2>2, <2>3 DEF Less, Longer
<1>2. Brief'
  <2> SUFFICES ASSUME NEW n \in Names
               PROVE  /\ since'[n] + locked'[n] <= LockTTL + MaxAge
                      /\ locked'[n] = 0 => since'[n] = 0
    BY DEF Brief, LockIsShort
  <2> QED
    BY <1>1, SizesAssumption
<1>3. LetInBefore'
  <2> SUFFICES ASSUME NEW h \in Handlers, handler'[h].pc \in LetInLabels
               PROVE  since'[handler'[h].name] <= handler'[h].age
    BY DEF LetInBefore
  <2>1. /\ handler'[h].pc = handler[h].pc /\ handler'[h].name = handler[h].name
        /\ handler'[h].age = handler[h].age + 1
    BY TickHandlers DEF At, LetInLabels
  <2>2. handler[h].name \in Names /\ handler[h].age \in Nat
    BY <2>1, HandlerTyped DEF At, LetInLabels
  <2>3. since[handler[h].name] <= handler[h].age
    BY <2>1 DEF LetInBefore
  <2> QED
    BY <1>1, <2>1, <2>2, <2>3
<1> QED
  BY <1>2, <1>3

LEMMA NextBrief ==
  TypeOK /\ Brief /\ LetInBefore /\ [Next]_vars => (Brief /\ LetInBefore)'
<1> SUFFICES ASSUME TypeOK, Brief, LetInBefore, [Next]_vars PROVE (Brief /\ LetInBefore)'
  OBVIOUS
<1>1. ASSUME NEW h \in Handlers, NEW n \in Names, NEW p \in Passwords,
             Register(h, n, p) \/ Login(h, n, p)
      PROVE  (Brief /\ LetInBefore)'
  BY <1>1, BeginBrief
<1>2. ASSUME NEW h \in Handlers, Step(h) \/ Fail(h)
      PROVE  (Brief /\ LetInBefore)'
  BY <1>2, CallBrief, LockBrief, ClearBrief DEF Step
<1>3. CASE Tick
  BY <1>3, TickBrief
<1>4. CASE UNCHANGED vars
  BY <1>4 DEF vars, Brief, LockIsShort, LetInBefore
<1> QED
  BY <1>1, <1>2, <1>3, <1>4 DEF Next

(* No account stays locked for more than LockTTL and the longest life of a  *)
(* login without a break, however many attempts are made on it.             *)
THEOREM LocksAreShort == Spec => []LockIsShort
<1>1. TypeOK /\ Brief /\ LetInBefore /\ [Next]_vars
        => TypeOK' /\ (Brief /\ LetInBefore)'
  BY NextTypeOK, NextBrief
<1>2. Init => TypeOK /\ Brief /\ LetInBefore
  BY InitTypeOK, InitBrief
<1>3. Brief => LockIsShort
  BY DEF Brief
<1> QED
  BY <1>1, <1>2, <1>3, PTL DEF Spec

================================================================================
