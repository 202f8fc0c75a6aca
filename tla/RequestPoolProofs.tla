---------------------------- MODULE RequestPoolProofs ----------------------------
(***************************************************************************)
(* Theorems about RequestPool, for any number of clients, requests,        *)
(* threads and connections.                                                *)
(***************************************************************************)
EXTENDS RequestPool, FiniteSetTheorems, TLAPS

LEMMA RequestsFinite == IsFiniteSet(Requests)
<1>1. IsFiniteSet(Clients) /\ IsFiniteSet(1..MaxTries)
  BY SizesAssumption, FS_Interval
<1> QED
  BY <1>1, FS_Product DEF Requests

One(b) == IF b THEN 1 ELSE 0

\* A request in state x holds a thread, a connection; its client is about to be
\* told of its job; it was answered 504 and may still enqueue its job.
HasThread(x) == x # None /\ x.pc \in {"connect", "select", "reconnect", "handler"}
HasConnection(x) == x # None /\ x.pc \in {"select", "toHandler", "handler", "toReply"}
Tells(x) == x # None /\ x.pc = "toReply" /\ ~x.answered
IsLate(x) == x # None /\ x.pc # "toReply" /\ x.answered

Late(c) == {r \in Requests : r[1] = c /\ IsLate(run[r])}

LEMMA CountOne ==
  ASSUME NEW S, IsFiniteSet(S), NEW r, NEW T, IsFiniteSet(T),
         \A q : q # r => (q \in T <=> q \in S)
  PROVE  /\ Cardinality(S) \in Nat /\ Cardinality(T) \in Nat
         /\ Cardinality(T) = Cardinality(S) + One(r \in T) - One(r \in S)
<1>1. Cardinality(S) \in Nat /\ Cardinality(T) \in Nat
  BY FS_CardinalityType
<1>2. CASE (r \in S) = (r \in T)
  <2>1. S = T
    BY <1>2
  <2> QED
    BY <1>1, <1>2, <2>1 DEF One
<1>3. CASE r \in T /\ r \notin S
  <2>1. T = S \union {r}
    BY <1>3
  <2> QED
    BY <1>1, <1>3, <2>1, FS_AddElement DEF One
<1>4. CASE r \notin T /\ r \in S
  <2>1. T = S \ {r}
    BY <1>4
  <2> QED
    BY <1>1, <1>4, <2>1, FS_RemoveElement DEF One
<1> QED
  BY <1>2, <1>3, <1>4

(* What a step of one request does to the numbers that matter.              *)
LEMMA Counts ==
  ASSUME TypeOK, NEW r \in Requests, NEW x \in Run \union {None},
         run' = [run EXCEPT ![r] = x]
  PROVE  /\ run' \in [Requests -> Run \union {None}]
         /\ run'[r] = x /\ \A q \in Requests \ {r} : run'[q] = run[q]
         /\ Cardinality(InThread)'
              = Cardinality(InThread) + One(HasThread(x)) - One(HasThread(run[r]))
         /\ Cardinality(Connected)'
              = Cardinality(Connected) + One(HasConnection(x)) - One(HasConnection(run[r]))
         /\ \A c \in Clients :
              /\ Cardinality(ToTell(c))' = Cardinality(ToTell(c))
                   + One(r[1] = c /\ Tells(x)) - One(r[1] = c /\ Tells(run[r]))
              /\ Cardinality(Late(c))' = Cardinality(Late(c))
                   + One(r[1] = c /\ IsLate(x)) - One(r[1] = c /\ IsLate(run[r]))
<1>1. /\ run' \in [Requests -> Run \union {None}]
      /\ run'[r] = x /\ \A q \in Requests \ {r} : run'[q] = run[q]
  BY DEF TypeOK
<1>2. \A S : S \subseteq Requests => IsFiniteSet(S)
  BY RequestsFinite, FS_Subset
<1>3. Cardinality(InThread)'
        = Cardinality(InThread) + One(HasThread(x)) - One(HasThread(run[r]))
  <2>1. /\ \A q : q # r => (q \in InThread' <=> q \in InThread)
        /\ r \in InThread' <=> HasThread(x)
        /\ r \in InThread <=> HasThread(run[r])
        /\ InThread \subseteq Requests /\ InThread' \subseteq Requests
    BY <1>1 DEF InThread, At, HasThread
  <2>2. IsFiniteSet(InThread) /\ IsFiniteSet(InThread')
    BY <1>2, <2>1
  <2>3. PICK T : T = InThread'
    OBVIOUS
  <2>4. Cardinality(T) = Cardinality(InThread) + One(r \in T) - One(r \in InThread)
    BY <2>1, <2>2, <2>3, CountOne
  <2> QED
    BY <2>1, <2>3, <2>4 DEF One
<1>4. Cardinality(Connected)'
        = Cardinality(Connected) + One(HasConnection(x)) - One(HasConnection(run[r]))
  <2>1. /\ \A q : q # r => (q \in Connected' <=> q \in Connected)
        /\ r \in Connected' <=> HasConnection(x)
        /\ r \in Connected <=> HasConnection(run[r])
        /\ Connected \subseteq Requests /\ Connected' \subseteq Requests
    BY <1>1 DEF Connected, At, HasConnection
  <2>2. IsFiniteSet(Connected) /\ IsFiniteSet(Connected')
    BY <1>2, <2>1
  <2>3. PICK T : T = Connected'
    OBVIOUS
  <2>4. Cardinality(T) = Cardinality(Connected) + One(r \in T) - One(r \in Connected)
    BY <2>1, <2>2, <2>3, CountOne
  <2> QED
    BY <2>1, <2>3, <2>4 DEF One
<1>5. ASSUME NEW c \in Clients
      PROVE  Cardinality(ToTell(c))' = Cardinality(ToTell(c))
               + One(r[1] = c /\ Tells(x)) - One(r[1] = c /\ Tells(run[r]))
  <2>1. /\ \A q : q # r => (q \in ToTell(c)' <=> q \in ToTell(c))
        /\ r \in ToTell(c)' <=> r[1] = c /\ Tells(x)
        /\ r \in ToTell(c) <=> r[1] = c /\ Tells(run[r])
        /\ ToTell(c) \subseteq Requests /\ ToTell(c)' \subseteq Requests
    BY <1>1 DEF ToTell, At, Tells
  <2>2. IsFiniteSet(ToTell(c)) /\ IsFiniteSet(ToTell(c)')
    BY <1>2, <2>1
  <2>3. PICK T : T = ToTell(c)'
    OBVIOUS
  <2>4. Cardinality(T) = Cardinality(ToTell(c)) + One(r \in T) - One(r \in ToTell(c))
    BY <2>1, <2>2, <2>3, CountOne
  <2> QED
    BY <2>1, <2>3, <2>4 DEF One
<1>6. ASSUME NEW c \in Clients
      PROVE  Cardinality(Late(c))' = Cardinality(Late(c))
               + One(r[1] = c /\ IsLate(x)) - One(r[1] = c /\ IsLate(run[r]))
  <2>1. /\ \A q : q # r => (q \in Late(c)' <=> q \in Late(c))
        /\ r \in Late(c)' <=> r[1] = c /\ IsLate(x)
        /\ r \in Late(c) <=> r[1] = c /\ IsLate(run[r])
        /\ Late(c) \subseteq Requests /\ Late(c)' \subseteq Requests
    BY <1>1 DEF Late, IsLate
  <2>2. IsFiniteSet(Late(c)) /\ IsFiniteSet(Late(c)')
    BY <1>2, <2>1
  <2>3. PICK T : T = Late(c)'
    OBVIOUS
  <2>4. Cardinality(T) = Cardinality(Late(c)) + One(r \in T) - One(r \in Late(c))
    BY <2>1, <2>2, <2>3, CountOne
  <2> QED
    BY <2>1, <2>3, <2>4 DEF One
<1> QED
  BY <1>1, <1>3, <1>4, <1>5, <1>6

LEMMA CountsTyped ==
  /\ Cardinality(InThread) \in Nat /\ Cardinality(Connected) \in Nat
  /\ \A c \in Clients : Cardinality(ToTell(c)) \in Nat /\ Cardinality(Late(c)) \in Nat
<1>1. \A S : S \subseteq Requests => Cardinality(S) \in Nat
  BY RequestsFinite, FS_Subset, FS_CardinalityType
<1> QED
  BY <1>1 DEF InThread, Connected, ToTell, Late

--------------------------------------------------------------------------------
(* What was told, what is about to be told, and what was left open, against  *)
(* what was enqueued or may still be after a 504.                            *)
Balanced ==
  \A c \in Writers :
    LET told == accepted[c] + Cardinality(ToTell(c))
    IN  /\ told <= enqueued[c]
        /\ enqueued[c] + Cardinality(Late(c)) <= told + unsure[c] + resent[c]

(* One step of the request r, from its state run[r] to x. It adds no more    *)
(* than a to the 202s, e to the queue, u to the answers left open and s to    *)
(* the repeated publications.                                                *)
StepTo(r, x, a, e, u, s) ==
  /\ run' = [run EXCEPT ![r] = x]
  /\ accepted' = [accepted EXCEPT ![r[1]] = @ + a]
  /\ enqueued' = [enqueued EXCEPT ![r[1]] = @ + e]
  /\ unsure' = [unsure EXCEPT ![r[1]] = @ + u]
  /\ resent' = [resent EXCEPT ![r[1]] = @ + s]
  /\ sent' \in [Clients -> 0..MaxTries] /\ \A c \in Clients : sent[c] <= sent'[c]
  /\ x # None => r[2] <= sent'[r[1]]
  /\ HasThread(x) => HasThread(run[r]) \/ ThreadFree
  /\ HasConnection(x) => HasConnection(run[r]) \/ ConnectionFree
  /\ r[1] \in Writers =>
       /\ a + One(Tells(x)) - One(Tells(run[r])) <= e
       /\ e + One(IsLate(x)) - One(IsLate(run[r]))
            <= a + One(Tells(x)) - One(Tells(run[r])) + u + s

LEMMA StepTyped ==
  ASSUME TypeOK, NEW r \in Requests, NEW x \in Run \union {None},
         NEW a \in Nat, NEW e \in Nat, NEW u \in Nat, NEW s \in Nat,
         StepTo(r, x, a, e, u, s)
  PROVE  TypeOK'
<1>1. /\ run' \in [Requests -> Run \union {None}]
      /\ run'[r] = x /\ \A q \in Requests \ {r} : run'[q] = run[q]
      /\ Cardinality(InThread)'
           = Cardinality(InThread) + One(HasThread(x)) - One(HasThread(run[r]))
      /\ Cardinality(Connected)'
           = Cardinality(Connected) + One(HasConnection(x)) - One(HasConnection(run[r]))
  BY Counts DEF StepTo
<1>2. r[1] \in Clients /\ \A q \in Requests : q[1] \in Clients /\ q[2] \in 1..MaxTries
  BY DEF Requests
<1>3. Cardinality(InThread)' <= Threads /\ Cardinality(Connected)' <= Connections
  BY <1>1, CountsTyped, SizesAssumption
  DEF StepTo, TypeOK, ThreadFree, ConnectionFree, One
<1>4. \A q \in Requests : run'[q] # None => q[2] <= sent'[q[1]]
  <2>1. \A q \in Requests \ {r} : run[q] # None => q[2] <= sent[q[1]]
    BY DEF TypeOK
  <2>2. \A c \in Clients : sent[c] \in Nat /\ sent'[c] \in Nat /\ sent[c] <= sent'[c]
    BY SizesAssumption DEF TypeOK, StepTo
  <2>3. \A q \in Requests \ {r} : run'[q] # None => q[2] <= sent'[q[1]]
    BY <1>1, <1>2, <2>1, <2>2
  <2> QED
    BY <1>1, <2>3 DEF StepTo
<1>5. /\ enqueued' \in [Clients -> Nat] /\ accepted' \in [Clients -> Nat]
      /\ unsure' \in [Clients -> Nat] /\ resent' \in [Clients -> Nat]
  BY <1>2 DEF StepTo, TypeOK
<1> QED
  BY <1>1, <1>3, <1>4, <1>5 DEF TypeOK, StepTo

LEMMA StepBalanced ==
  ASSUME TypeOK, Balanced, NEW r \in Requests, NEW x \in Run \union {None},
         NEW a \in Nat, NEW e \in Nat, NEW u \in Nat, NEW s \in Nat,
         StepTo(r, x, a, e, u, s)
  PROVE  Balanced'
<1> SUFFICES ASSUME NEW c \in Writers
             PROVE  /\ accepted'[c] + Cardinality(ToTell(c))' <= enqueued'[c]
                    /\ enqueued'[c] + Cardinality(Late(c))'
                         <= accepted'[c] + Cardinality(ToTell(c))' + unsure'[c]
                              + resent'[c]
  BY DEF Balanced
<1> c \in Clients
  BY DEF Writers
<1>1. /\ Cardinality(ToTell(c))' = Cardinality(ToTell(c))
           + One(r[1] = c /\ Tells(x)) - One(r[1] = c /\ Tells(run[r]))
      /\ Cardinality(Late(c))' = Cardinality(Late(c))
           + One(r[1] = c /\ IsLate(x)) - One(r[1] = c /\ IsLate(run[r]))
  BY Counts DEF StepTo
<1>2. /\ accepted[c] + Cardinality(ToTell(c)) <= enqueued[c]
      /\ enqueued[c] + Cardinality(Late(c))
           <= accepted[c] + Cardinality(ToTell(c)) + unsure[c] + resent[c]
  BY DEF Balanced
<1>3. /\ Cardinality(ToTell(c)) \in Nat /\ Cardinality(Late(c)) \in Nat
      /\ accepted[c] \in Nat /\ enqueued[c] \in Nat /\ unsure[c] \in Nat /\ resent[c] \in Nat
  BY CountsTyped DEF TypeOK
<1>4. CASE r[1] = c
  <2>1. /\ accepted'[c] = accepted[c] + a /\ enqueued'[c] = enqueued[c] + e
        /\ unsure'[c] = unsure[c] + u /\ resent'[c] = resent[c] + s
    BY <1>4 DEF StepTo, TypeOK
  <2>2. /\ a + One(Tells(x)) - One(Tells(run[r])) <= e
        /\ e + One(IsLate(x)) - One(IsLate(run[r]))
             <= a + One(Tells(x)) - One(Tells(run[r])) + u + s
    BY <1>4 DEF StepTo
  <2> QED
    BY <1>1, <1>2, <1>3, <1>4, <2>1, <2>2 DEF One
<1>5. CASE r[1] # c
  <2>1. /\ accepted'[c] = accepted[c] /\ enqueued'[c] = enqueued[c] /\ unsure'[c] = unsure[c]
        /\ resent'[c] = resent[c]
    BY <1>5 DEF StepTo, TypeOK
  <2> QED
    BY <1>1, <1>2, <1>3, <1>5, <2>1 DEF One
<1> QED
  BY <1>4, <1>5

--------------------------------------------------------------------------------
(* Every action but Idle is such a step.                                     *)
Steps ==
  \E r \in Requests, x \in Run \union {None}, a, e, u, s \in Nat : StepTo(r, x, a, e, u, s)

LEMMA Nothing ==
  ASSUME TypeOK, NEW c \in Clients
  PROVE  /\ accepted = [accepted EXCEPT ![c] = @ + 0]
         /\ enqueued = [enqueued EXCEPT ![c] = @ + 0]
         /\ unsure = [unsure EXCEPT ![c] = @ + 0]
         /\ resent = [resent EXCEPT ![c] = @ + 0]
         /\ sent \in [Clients -> 0..MaxTries] /\ \A k \in Clients : sent[k] <= sent[k]
BY SizesAssumption DEF TypeOK

LEMMA RequestTyped ==
  ASSUME TypeOK, NEW r \in Requests, run[r] # None
  PROVE  /\ run[r] \in Run /\ r[1] \in Clients /\ r[2] <= sent[r[1]]
         /\ \A l \in Labels : [run[r] EXCEPT !.pc = l] \in Run
BY DEF TypeOK, Requests, Run

LEMMA SendSteps ==
  ASSUME TypeOK, NEW c \in Clients, Send(c)
  PROVE  Steps
<1>0. PICK l \in {"toAuth", "toLogin"} :
        run' = [run EXCEPT ![<<c, sent[c] + 1>>] = [pc |-> l, answered |-> FALSE]]
  BY DEF Send
<1> DEFINE r == <<c, sent[c] + 1>>
           x == [pc |-> l, answered |-> FALSE]
<1>1. sent[c] \in Nat /\ sent[c] < MaxTries /\ sent[c] + 1 \in 1..MaxTries
  <2>1. sent[c] \in 0..MaxTries /\ Tries[c] \in 0..MaxTries /\ sent[c] < Tries[c]
    BY SizesAssumption DEF TypeOK, Send
  <2> QED
    BY <2>1, SizesAssumption
<1>2. r \in Requests /\ r[1] = c /\ r[2] = sent[c] + 1
  BY <1>1 DEF Requests
<1>3. run[r] = None
  BY <1>1, <1>2 DEF TypeOK
<1>4. x \in Run /\ x # None
  <2>1. x \in Run
    BY DEF Run, Labels
  <2> QED
    BY <2>1, NoneAssumption, Zenon
<1>5. /\ sent' \in [Clients -> 0..MaxTries] /\ sent'[c] = sent[c] + 1
      /\ \A k \in Clients : sent[k] <= sent'[k]
  BY <1>1, SizesAssumption DEF Send, TypeOK
<1>6. /\ run' = [run EXCEPT ![r] = x]
      /\ UNCHANGED <<enqueued, accepted, unsure, resent>>
  BY <1>0 DEF Send
<1>7. /\ ~HasThread(x) /\ ~HasConnection(x) /\ ~Tells(x) /\ ~IsLate(x)
      /\ ~Tells(run[r]) /\ ~IsLate(run[r])
  BY <1>3 DEF HasThread, HasConnection, Tells, IsLate
<1> HIDE DEF r, x
<1>8. StepTo(r, x, 0, 0, 0, 0)
  BY <1>1, <1>2, <1>5, <1>6, <1>7, Nothing DEF StepTo, One
<1> QED
  BY <1>2, <1>4, <1>8 DEF Steps

(* A step that only moves a request on, with a free thread or connection if  *)
(* it needs one.                                                             *)
LEMMA MoveSteps ==
  ASSUME TypeOK, NEW r \in Requests,
         TakeThread(r) \/ Connect(r) \/ Select(r) \/ CommitUser(r)
  PROVE  Steps
<1>1. /\ run[r] # None /\ UNCHANGED <<sent, enqueued, accepted, unsure, resent>>
  BY DEF TakeThread, Connect, Select, CommitUser, At
<1>2. PICK l \in Labels \ {"toReply"} :
        /\ Goto(r, l)
        /\ run[r].pc # "toReply"
        /\ \/ ThreadFree /\ l = "connect"
           \/ run[r].pc = "toHandler" /\ ThreadFree /\ l = "handler"
           \/ run[r].pc \in {"connect", "reconnect"} /\ ConnectionFree
                /\ l \in {"select", "handler"}
           \/ run[r].pc = "select" /\ l \in {"toHandler", "reconnect"}
  <2>1. CASE TakeThread(r)
    BY <2>1 DEF TakeThread, At, Labels
  <2>2. CASE Connect(r)
    BY <2>2 DEF Connect, At, Labels
  <2>3. CASE Select(r) \/ CommitUser(r)
    BY <2>3 DEF Select, CommitUser, At, Labels
  <2> QED
    BY <2>1, <2>2, <2>3
<1>3. PICK x : x = [run[r] EXCEPT !.pc = l]
  OBVIOUS
<1>4. x \in Run /\ x # None /\ x.pc = l /\ x.answered = run[r].answered
  <2>1. run[r] \in Run /\ x \in Run
    BY <1>1, <1>2, <1>3, RequestTyped
  <2>2. x.pc = l /\ x.answered = run[r].answered
    BY <1>3, <2>1 DEF Run
  <2> QED
    BY <2>1, <2>2, NoneAssumption, Zenon
<1>5. run' = [run EXCEPT ![r] = x]
  BY <1>2, <1>3 DEF Goto
<1>6. /\ ~Tells(x) /\ ~Tells(run[r]) /\ IsLate(x) = IsLate(run[r])
      /\ HasThread(x) => HasThread(run[r]) \/ ThreadFree
      /\ HasConnection(x) => HasConnection(run[r]) \/ ConnectionFree
  BY <1>1, <1>2, <1>4 DEF Tells, IsLate, HasThread, HasConnection
<1>7. r[1] \in Clients /\ r[2] <= sent[r[1]]
  BY <1>1, RequestTyped
<1>8. StepTo(r, x, 0, 0, 0, 0)
  BY <1>1, <1>5, <1>6, <1>7, Nothing DEF StepTo, One
<1> QED
  BY <1>4, <1>8 DEF Steps

LEMMA GiveUpSteps ==
  ASSUME TypeOK, NEW r \in Requests, Refuse(r) \/ PoolTimeout(r)
  PROVE  Steps
<1>1. /\ run[r] # None /\ run[r].pc # "toReply"
      /\ UNCHANGED <<sent, enqueued, accepted, unsure, resent>>
      /\ run' = [run EXCEPT ![r] = None]
  BY DEF Refuse, PoolTimeout, Connecting, At, End
<1>2. r[1] \in Clients
  BY <1>1, RequestTyped
<1>3. ~Tells(run[r]) /\ ~Tells(None) /\ ~IsLate(None) /\ ~HasThread(None)
      /\ ~HasConnection(None)
  BY <1>1 DEF Tells, IsLate, HasThread, HasConnection
<1>4. StepTo(r, None, 0, 0, 0, 0)
  BY <1>1, <1>2, <1>3, Nothing DEF StepTo, One
<1> QED
  BY <1>4 DEF Steps

LEMMA PublishSteps ==
  ASSUME TypeOK, NEW r \in Requests, Publish(r)
  PROVE  Steps
<1>1. /\ run[r] # None /\ run[r].pc = "handler"
      /\ UNCHANGED <<sent, accepted, unsure, resent>>
      /\ enqueued' = [enqueued EXCEPT ![r[1]] = @ + 1]
  BY DEF Publish, At
<1>2. PICK x : x = [run[r] EXCEPT !.pc = "toReply"]
  OBVIOUS
<1>3. x \in Run /\ x # None /\ x.pc = "toReply" /\ x.answered = run[r].answered
      /\ run[r].answered \in BOOLEAN
  <2>1. "toReply" \in Labels
    BY DEF Labels
  <2>2. x \in Run /\ run[r] \in Run
    BY <1>1, <1>2, <2>1, RequestTyped
  <2> QED
    BY <1>2, <2>2, NoneAssumption DEF Run
<1>4. run' = [run EXCEPT ![r] = x]
  BY <1>2 DEF Publish, Goto
<1>5. r[1] \in Clients /\ r[2] <= sent[r[1]]
  BY <1>1, RequestTyped
<1>6. /\ ~HasThread(x) /\ HasConnection(run[r])
      /\ ~Tells(run[r]) /\ ~IsLate(x)
      /\ Tells(x) <=> ~run[r].answered
      /\ IsLate(run[r]) <=> run[r].answered
  BY <1>1, <1>3 DEF Tells, IsLate, HasThread, HasConnection
<1>7. StepTo(r, x, 0, 1, 0, 0)
  BY <1>1, <1>3, <1>4, <1>5, <1>6, Nothing DEF StepTo, One
<1> QED
  BY <1>3, <1>7 DEF Steps

LEMMA PublishAgainSteps ==
  ASSUME TypeOK, NEW r \in Requests, PublishAgain(r)
  PROVE  Steps
<1>1. /\ run[r] # None /\ UNCHANGED <<run, sent, accepted, unsure>>
      /\ enqueued' = [enqueued EXCEPT ![r[1]] = @ + 1]
      /\ resent' = [resent EXCEPT ![r[1]] = @ + 1]
  BY DEF PublishAgain, At
<1>2. run[r] \in Run /\ r[1] \in Clients /\ r[2] <= sent[r[1]]
  BY <1>1, RequestTyped
<1>3. PICK x : x = run[r]
  OBVIOUS
<1>4. run' = [run EXCEPT ![r] = x]
  BY <1>1, <1>3 DEF TypeOK
<1>5. /\ HasThread(x) => HasThread(run[r])
      /\ HasConnection(x) => HasConnection(run[r])
      /\ One(Tells(x)) = One(Tells(run[r])) /\ One(Tells(x)) \in {0, 1}
      /\ One(IsLate(x)) = One(IsLate(run[r])) /\ One(IsLate(x)) \in {0, 1}
  BY <1>3 DEF One
<1>6. StepTo(r, x, 0, 1, 0, 1)
  <2>1. /\ 0 + One(Tells(x)) - One(Tells(run[r])) <= 1
        /\ 1 + One(IsLate(x)) - One(IsLate(run[r]))
             <= 0 + One(Tells(x)) - One(Tells(run[r])) + 0 + 1
    BY <1>5
  <2>2. UNCHANGED <<sent, accepted, unsure>>
    BY <1>1
  <2> QED
    BY <1>1, <1>2, <1>4, <1>5, <2>1, <2>2, Nothing DEF StepTo
<1>7. x \in Run
  BY <1>2, <1>3
<1> QED
  BY <1>6, <1>7 DEF Steps

LEMMA FinishSteps ==
  ASSUME TypeOK, NEW r \in Requests, Finish(r)
  PROVE  Steps
<1>1. /\ run[r] # None /\ run[r].pc = "handler" /\ r[1] \notin Writers
      /\ UNCHANGED <<sent, enqueued, accepted, unsure, resent>>
  BY DEF Finish, At, Writers
<1>2. PICK x : x = [run[r] EXCEPT !.pc = "toReply"]
  OBVIOUS
<1>3. x \in Run /\ x.pc = "toReply"
  <2>1. "toReply" \in Labels
    BY DEF Labels
  <2>2. x \in Run /\ run[r] \in Run
    BY <1>1, <1>2, <2>1, RequestTyped
  <2> QED
    BY <1>2, <2>2 DEF Run
<1>4. run' = [run EXCEPT ![r] = x]
  BY <1>2 DEF Finish, Goto
<1>5. r[1] \in Clients /\ r[2] <= sent[r[1]]
  BY <1>1, RequestTyped
<1>6. ~HasThread(x) /\ HasConnection(run[r])
  BY <1>1, <1>3 DEF HasThread, HasConnection
<1>7. StepTo(r, x, 0, 0, 0, 0)
  BY <1>1, <1>4, <1>5, <1>6, Nothing DEF StepTo
<1> QED
  BY <1>3, <1>7 DEF Steps

LEMMA PublishFailsSteps ==
  ASSUME TypeOK, NEW r \in Requests, PublishFails(r)
  PROVE  Steps
<1>1. /\ run[r] # None /\ run[r].pc = "handler"
      /\ UNCHANGED <<sent, accepted, resent>> /\ run' = [run EXCEPT ![r] = None]
  BY DEF PublishFails, At, End
<1>2. PICK e \in {0, 1} : enqueued' = [enqueued EXCEPT ![r[1]] = @ + e]
  BY DEF PublishFails
<1>3. r[1] \in Clients /\ run[r] \in Run
  BY <1>1, RequestTyped
<1>4. PICK u \in {0, 1} : /\ unsure' = [unsure EXCEPT ![r[1]] = @ + u]
                          /\ u = 0 <=> run[r].answered
  BY <1>3, Nothing DEF PublishFails, Run
<1>5. /\ ~Tells(run[r]) /\ ~Tells(None) /\ ~IsLate(None) /\ ~HasThread(None)
      /\ ~HasConnection(None)
      /\ IsLate(run[r]) <=> run[r].answered
  BY <1>1 DEF Tells, IsLate, HasThread, HasConnection
<1>6. StepTo(r, None, 0, e, u, 0)
  BY <1>1, <1>2, <1>3, <1>4, <1>5, Nothing DEF StepTo, One
<1> QED
  BY <1>6 DEF Steps

LEMMA ReplySteps ==
  ASSUME TypeOK, NEW r \in Requests, Reply(r)
  PROVE  Steps
<1>1. /\ run[r] # None /\ run[r].pc = "toReply"
      /\ UNCHANGED <<sent, enqueued, unsure, resent>> /\ run' = [run EXCEPT ![r] = None]
  BY DEF Reply, At, End
<1>2. r[1] \in Clients /\ run[r] \in Run
  BY <1>1, RequestTyped
<1>3. PICK a \in {0, 1} : /\ accepted' = [accepted EXCEPT ![r[1]] = @ + a]
                          /\ a = 0 <=> run[r].answered
  BY <1>2, Nothing DEF Reply, Run
<1>4. /\ Tells(run[r]) <=> ~run[r].answered
      /\ ~IsLate(run[r]) /\ ~Tells(None) /\ ~IsLate(None) /\ ~HasThread(None)
      /\ ~HasConnection(None)
  BY <1>1 DEF Tells, IsLate, HasThread, HasConnection
<1>5. StepTo(r, None, a, 0, 0, 0)
  BY <1>1, <1>2, <1>3, <1>4, Nothing DEF StepTo, One
<1> QED
  BY <1>5 DEF Steps

LEMMA TimeoutSteps ==
  ASSUME TypeOK, NEW r \in Requests, Timeout(r)
  PROVE  Steps
<1>1. /\ run[r] # None /\ ~run[r].answered
      /\ UNCHANGED <<sent, enqueued, accepted, resent>>
      /\ unsure' = [unsure EXCEPT ![r[1]] = @ + 1]
  BY DEF Timeout
<1>2. PICK x : x = [run[r] EXCEPT !.answered = TRUE]
  OBVIOUS
<1>3. x \in Run /\ x # None /\ x.pc = run[r].pc /\ x.answered
  BY <1>1, <1>2, RequestTyped, NoneAssumption DEF Run
<1>4. run' = [run EXCEPT ![r] = x]
  BY <1>2 DEF Timeout
<1>5. r[1] \in Clients /\ r[2] <= sent[r[1]]
  BY <1>1, RequestTyped
<1>6. /\ HasThread(x) <=> HasThread(run[r])
      /\ HasConnection(x) <=> HasConnection(run[r])
      /\ ~Tells(x) /\ ~IsLate(run[r])
      /\ IsLate(x) <=> ~Tells(run[r])
  BY <1>1, <1>3 DEF Tells, IsLate, HasThread, HasConnection
<1>7. StepTo(r, x, 0, 0, 1, 0)
  BY <1>1, <1>3, <1>4, <1>5, <1>6, Nothing DEF StepTo, One
<1> QED
  BY <1>3, <1>7 DEF Steps

LEMMA NextSteps == TypeOK /\ [Next]_vars => Steps \/ UNCHANGED vars
<1> SUFFICES ASSUME TypeOK, Next PROVE Steps \/ UNCHANGED vars
  OBVIOUS
<1>1. ASSUME NEW r \in Requests,
             \/ Progress(r) \/ Refuse(r)
             \/ PublishAgain(r) \/ PublishFails(r) \/ Timeout(r)
      PROVE  Steps
  BY <1>1, MoveSteps, GiveUpSteps, PublishSteps, PublishAgainSteps, FinishSteps,
     PublishFailsSteps, ReplySteps, TimeoutSteps DEF Progress
<1> QED
  BY <1>1, SendSteps DEF Next, Idle

LEMMA InitInv == Init => TypeOK /\ Balanced
<1> SUFFICES ASSUME Init PROVE TypeOK /\ Balanced
  OBVIOUS
<1>1. InThread = {} /\ Connected = {} /\ \A c \in Clients : ToTell(c) = {} /\ Late(c) = {}
  BY DEF Init, InThread, Connected, ToTell, Late, At, IsLate
<1>2. Cardinality({}) = 0
  BY FS_EmptySet
<1>3. TypeOK
  BY <1>1, <1>2, SizesAssumption DEF Init, TypeOK
<1>4. Balanced
  BY <1>1, <1>2 DEF Init, Balanced, Writers
<1> QED
  BY <1>3, <1>4

LEMMA NextInv == TypeOK /\ Balanced /\ [Next]_vars => TypeOK' /\ Balanced'
<1> SUFFICES ASSUME TypeOK, Balanced, [Next]_vars PROVE TypeOK' /\ Balanced'
  OBVIOUS
<1>1. CASE Steps
  BY <1>1, StepTyped, StepBalanced DEF Steps
<1>2. CASE UNCHANGED vars
  BY <1>2 DEF vars, TypeOK, Balanced, Writers, InThread, Connected, ToTell, Late, At, IsLate
<1> QED
  BY <1>1, <1>2, NextSteps

(* Requests keep their types, and never hold more threads or connections    *)
(* than the process has.                                                    *)
THEOREM TypeCorrect == Spec => []TypeOK
BY InitInv, NextInv, PTL DEF Spec

(* For any number of requests, retries, 504s and repeated publications in any *)
(* order: each 202 stands for a job in the queue, and each job beyond them    *)
(* for an answer that left it open or for a publication Celery repeated.      *)
THEOREM QueueMatchesAnswers == Spec => []EnqueuedAsTold
<1>1. TypeOK /\ Balanced => EnqueuedAsTold
  <2> SUFFICES ASSUME TypeOK, Balanced, NEW c \in Writers
               PROVE  LET told == accepted[c] + Cardinality(ToTell(c))
                      IN  told <= enqueued[c] /\ enqueued[c] <= told + unsure[c] + resent[c]
    BY DEF EnqueuedAsTold
  <2>1. /\ Cardinality(ToTell(c)) \in Nat /\ Cardinality(Late(c)) \in Nat
        /\ accepted[c] \in Nat /\ enqueued[c] \in Nat /\ unsure[c] \in Nat /\ resent[c] \in Nat
    BY CountsTyped DEF TypeOK, Writers
  <2> QED
    BY <2>1 DEF Balanced
<1> QED
  BY <1>1, InitInv, NextInv, PTL DEF Spec

--------------------------------------------------------------------------------
\* Steps that do not wait for the pool's timeout are just those of CanMove.
LEMMA MovesAreMoves ==
  ASSUME NEW r \in Requests, Progress(r), ~PoolTimeout(r)
  PROVE  CanMove(r)
BY DEF Progress, CanMove, TakeThread, Connect, Connecting, Select, CommitUser, Publish,
       Finish, Reply

LEMMA FewMove == TypeOK => FewNeverBlock
<1> SUFFICES ASSUME TypeOK, InProgress # {}, \A r \in InProgress : ~CanMove(r)
             PROVE  Cardinality(InProgress) >= Threads + Connections
  <2>1. Cardinality(InProgress) \in Nat
    BY RequestsFinite, FS_Subset, FS_CardinalityType DEF InProgress
  <2> QED
    BY <2>1, SizesAssumption DEF FewNeverBlock
<1>1. /\ InThread \subseteq InProgress /\ Connected \subseteq InProgress
      /\ \A r \in InProgress : r \in Requests /\ run[r] \in Run /\ run[r].pc \in Labels
  BY DEF InThread, Connected, InProgress, At, TypeOK, Run
<1>2. /\ IsFiniteSet(InProgress) /\ IsFiniteSet(InThread) /\ IsFiniteSet(Connected)
      /\ Cardinality(InProgress) \in Nat /\ Cardinality(InThread) \in Nat
      /\ Cardinality(Connected) \in Nat
  BY <1>1, RequestsFinite, FS_Subset, FS_CardinalityType DEF InProgress
\* Nobody is at a call that waits for nothing.
<1>3. \A r \in InProgress : ~At(r, "select") /\ ~At(r, "handler")
  BY DEF CanMove
<1>4. \A r \in InThread : Connecting(r)
  BY <1>1, <1>3 DEF InThread, Connecting
<1>5. ~ThreadFree
  <2> SUFFICES ASSUME ThreadFree PROVE FALSE
    OBVIOUS
  <2>1. \A r \in InProgress : Connecting(r)
    BY <1>1, <1>3 DEF CanMove, Connecting, At, Labels, InProgress
  <2>2. Connected = {}
    BY <1>1, <2>1 DEF Connected, Connecting, At
  <2>3. ConnectionFree
    BY <2>2, FS_EmptySet, SizesAssumption DEF ConnectionFree
  <2> QED
    BY <2>1, <2>3 DEF CanMove
<1>6. Cardinality(InThread) >= Threads
  BY <1>2, <1>5, SizesAssumption DEF ThreadFree
<1>7. InThread # {}
  BY <1>6, FS_EmptySet, SizesAssumption
<1>8. Cardinality(Connected) >= Connections
  <2>1. ~ConnectionFree
    BY <1>1, <1>4, <1>7 DEF CanMove
  <2> QED
    BY <1>2, <2>1, SizesAssumption DEF ConnectionFree
<1>9. InThread \intersect Connected = {}
  BY <1>4 DEF Connected, Connecting, At
<1>10. Cardinality(InThread \union Connected)
         = Cardinality(InThread) + Cardinality(Connected)
  <2>1. Cardinality(InThread \union Connected)
          = Cardinality(InThread) + Cardinality(Connected)
              - Cardinality(InThread \intersect Connected)
    BY <1>2, FS_Union
  <2>2. Cardinality(InThread \intersect Connected) = 0
    BY <1>9, FS_EmptySet
  <2> QED
    BY <1>2, <2>1, <2>2
<1>11. Cardinality(InThread \union Connected) <= Cardinality(InProgress)
  <2>1. InThread \union Connected \in SUBSET InProgress
    BY <1>1
  <2> QED
    BY <1>2, <2>1, FS_Subset
<1> QED
  BY <1>2, <1>6, <1>8, <1>10, <1>11, SizesAssumption

(* Threads and connections block each other only if as many requests wait   *)
(* for them as there are threads and connections together.                  *)
THEOREM FewRequestsMove == Spec => []FewNeverBlock
BY InitInv, NextInv, FewMove, PTL DEF Spec

================================================================================
