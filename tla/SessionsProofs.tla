----------------------------- MODULE SessionsProofs -----------------------------
(***************************************************************************)
(* Theorems about Sessions, for any number of sessions and requests and    *)
(* any times to live.                                                      *)
(***************************************************************************)
EXTENDS Sessions, TLAPS

LEMMA HandlerTyped ==
  ASSUME TypeOK, NEW h \in Handlers
  PROVE  /\ handler[h] \in Handler
         /\ ~At(h, "idle") => handler[h].sid \in opened /\ handler[h].sid \in Sids
BY DEF TypeOK

LEMMA LessTyped ==
  ASSUME NEW n \in Nat, NEW t \in 0..n
  PROVE  Less(t) \in 0..n
BY DEF Less

(* A request moves on, and the others stay where they are.                  *)
LEMMA MoveTyped ==
  ASSUME TypeOK, NEW h \in Handlers, NEW label \in {"extend", "issue", "delete"},
         NEW s \in Sids, NEW t \in 0..TokenTTL, Move(h, label, s, t)
  PROVE  /\ handler' \in [Handlers -> Handler]
         /\ handler'[h].pc = label /\ handler'[h].sid = s
         /\ \A g \in Handlers \ {h} : handler'[g] = handler[g]
<1>1. [pc |-> label, sid |-> s, left |-> t] \in Handler
  BY DEF Handler
<1> QED
  BY <1>1 DEF TypeOK, Move

LEMMA AnswerTyped ==
  ASSUME TypeOK, NEW h \in Handlers, Answer(h)
  PROVE  /\ handler' \in [Handlers -> Handler]
         /\ handler'[h].pc = "idle"
         /\ \A g \in Handlers \ {h} : handler'[g] = handler[g]
<1>1. IdleHandler \in Handler /\ IdleHandler.pc = "idle"
  BY TimesAssumption DEF Handler, IdleHandler
<1> QED
  BY <1>1 DEF TypeOK, Answer

LEMMA InitTypeOK == Init => TypeOK
<1> SUFFICES ASSUME Init PROVE TypeOK
  OBVIOUS
<1>1. IdleHandler \in Handler /\ IdleHandler.pc = "idle"
  BY TimesAssumption DEF Handler, IdleHandler
<1> QED
  BY <1>1, TimesAssumption DEF Init, TypeOK, At

LEMMA OpenTyped ==
  ASSUME TypeOK, NEW h \in Handlers, NEW s \in Sids, Open(h, s)
  PROVE  TypeOK'
<1>1. /\ handler' \in [Handlers -> Handler]
      /\ handler'[h].sid = s /\ \A g \in Handlers \ {h} : handler'[g] = handler[g]
  BY MoveTyped, TimesAssumption DEF Open
<1>2. session' \in [Sids -> 0..SessionTTL] /\ \A r \in Sids \ {s} : session'[r] = session[r]
  BY TimesAssumption DEF Open, TypeOK
<1> QED
  BY <1>1, <1>2 DEF Open, TypeOK, At

LEMMA IssueTyped ==
  ASSUME TypeOK, NEW h \in Handlers, Issue(h)
  PROVE  TypeOK'
<1>1. /\ handler' \in [Handlers -> Handler] /\ handler'[h].pc = "idle"
      /\ \A g \in Handlers \ {h} : handler'[g] = handler[g]
  BY AnswerTyped DEF Issue
<1>2. PICK s \in Sids : s = handler[h].sid /\ s \in opened
  BY HandlerTyped DEF Issue, At
<1>3. tokens' = [tokens EXCEPT ![s] = @ \union {TokenTTL}]
  BY <1>2 DEF Issue
<1>4. tokens' \in [Sids -> SUBSET (0..TokenTTL)]
      /\ \A r \in Sids \ {s} : tokens'[r] = tokens[r]
  BY <1>3, TimesAssumption DEF TypeOK
<1> QED
  BY <1>1, <1>2, <1>4 DEF Issue, TypeOK, At

LEMMA RefreshTyped ==
  ASSUME TypeOK, NEW h \in Handlers, NEW s \in Sids, NEW t \in 0..TokenTTL, Refresh(h, s, t)
  PROVE  TypeOK'
<1>1. /\ handler' \in [Handlers -> Handler]
      /\ handler'[h].sid = s /\ \A g \in Handlers \ {h} : handler'[g] = handler[g]
  BY MoveTyped DEF Refresh
<1>2. s \in opened
  BY DEF Refresh, TypeOK
<1> QED
  BY <1>1, <1>2 DEF Refresh, TypeOK, At

LEMMA ExtendTyped ==
  ASSUME TypeOK, NEW h \in Handlers, Extend(h)
  PROVE  TypeOK'
<1>1. PICK s \in Sids : s = handler[h].sid /\ s \in opened
  BY HandlerTyped DEF Extend, At
<1>2. CASE Answer(h) /\ UNCHANGED session
  <2>1. /\ handler' \in [Handlers -> Handler] /\ handler'[h].pc = "idle"
        /\ \A g \in Handlers \ {h} : handler'[g] = handler[g]
    BY <1>2, AnswerTyped
  <2> QED
    BY <1>2, <2>1 DEF Extend, TypeOK, At
<1>3. CASE /\ session' = IF session[s] > 0 THEN [session EXCEPT ![s] = SessionTTL]
                         ELSE session
           /\ Move(h, "issue", s, 0)
  <2>1. /\ handler' \in [Handlers -> Handler] /\ handler'[h].sid = s
        /\ \A g \in Handlers \ {h} : handler'[g] = handler[g]
    BY <1>3, MoveTyped, TimesAssumption
  <2>2. session' \in [Sids -> 0..SessionTTL] /\ \A r \in Sids \ {s} : session'[r] = session[r]
    BY <1>3, TimesAssumption DEF TypeOK
  <2> QED
    BY <1>1, <2>1, <2>2 DEF Extend, TypeOK, At
<1> QED
  BY <1>1, <1>2, <1>3 DEF Extend

LEMMA LogoutTyped ==
  ASSUME TypeOK, NEW h \in Handlers, NEW s \in Sids, NEW t \in 0..TokenTTL, Logout(h, s, t)
  PROVE  TypeOK'
<1>1. s \in opened
  BY DEF Logout, TypeOK
<1>2. CASE UNCHANGED handler
  BY <1>1, <1>2 DEF Logout, TypeOK, At
<1>3. CASE Move(h, "delete", s, 0) /\ UNCHANGED loggedOut
  <2>1. /\ handler' \in [Handlers -> Handler] /\ handler'[h].sid = s
        /\ \A g \in Handlers \ {h} : handler'[g] = handler[g]
    BY <1>3, MoveTyped, TimesAssumption
  <2> QED
    BY <1>1, <1>3, <2>1 DEF Logout, TypeOK, At
<1> QED
  BY <1>2, <1>3 DEF Logout

(* Whatever a handler deletes, its session was opened.                      *)
LEMMA DeleteTyped ==
  ASSUME TypeOK, NEW h \in Handlers, Delete(h) \/ Fail(h)
  PROVE  TypeOK'
<1>1. PICK s \in Sids : s = handler[h].sid /\ s \in opened
  BY HandlerTyped DEF Delete, Fail, At
<1>2. /\ handler' \in [Handlers -> Handler] /\ handler'[h].pc = "idle"
      /\ \A g \in Handlers \ {h} : handler'[g] = handler[g]
  BY AnswerTyped DEF Delete, Fail
<1>3. session' = session \/ session' = [session EXCEPT ![s] = 0]
  BY <1>1 DEF Delete, Fail
<1>4. session' \in [Sids -> 0..SessionTTL] /\ \A r \in Sids \ {s} : session'[r] = session[r]
  BY <1>3, TimesAssumption DEF TypeOK
<1>5. /\ deleted' \in {deleted, deleted \union {s}}
      /\ loggedOut' \in {loggedOut, loggedOut \union {s}}
      /\ lost' \in {lost, lost \union {s}}
      /\ UNCHANGED <<tokens, opened>>
  BY <1>1 DEF Delete, Fail
<1> QED
  BY <1>1, <1>2, <1>4, <1>5 DEF TypeOK, At

LEMMA TickTyped ==
  ASSUME TypeOK, Tick
  PROVE  TypeOK'
<1>1. session' \in [Sids -> 0..SessionTTL] /\ \A s \in Sids : session[s] = 0 => session'[s] = 0
  BY TimesAssumption DEF Tick, TypeOK, Less
<1>2. \A s \in Sids : {Less(t) : t \in tokens[s]} \in SUBSET (0..TokenTTL)
  <2>1. \A t \in 0..TokenTTL : Less(t) \in 0..TokenTTL
    BY LessTyped, TimesAssumption
  <2>2. \A s \in Sids : tokens[s] \subseteq 0..TokenTTL
    BY DEF TypeOK
  <2> QED
    BY <2>1, <2>2
<1>3. tokens' \in [Sids -> SUBSET (0..TokenTTL)]
      /\ \A s \in Sids : tokens[s] = {} => tokens'[s] = {}
  BY <1>2 DEF Tick
<1>4. \A h \in Handlers : [handler[h] EXCEPT !.left = Less(@)] \in Handler
  BY TimesAssumption DEF TypeOK, Handler, Less
<1>5. /\ handler' \in [Handlers -> Handler]
      /\ \A h \in Handlers : handler'[h].pc = handler[h].pc /\ handler'[h].sid = handler[h].sid
  BY <1>4, HandlerTyped DEF Tick, Handler
<1> QED
  BY <1>1, <1>3, <1>5 DEF Tick, TypeOK, At

LEMMA NextTypeOK == TypeOK /\ [Next]_vars => TypeOK'
<1> SUFFICES ASSUME TypeOK, [Next]_vars PROVE TypeOK'
  OBVIOUS
<1>1. CASE UNCHANGED vars
  BY <1>1 DEF vars, TypeOK, At
<1>2. CASE Next
  BY <1>2, OpenTyped, IssueTyped, RefreshTyped, ExtendTyped, LogoutTyped, DeleteTyped,
     TickTyped DEF Next
<1> QED
  BY <1>1, <1>2

(* Sessions, tokens and requests keep their types, and no key or token is   *)
(* of a session that was never opened.                                      *)
THEOREM TypeCorrect == Spec => []TypeOK
BY InitTypeOK, NextTypeOK, PTL DEF Spec

--------------------------------------------------------------------------------
(* Only a new session id gets a key; the key of an old one is extended only  *)
(* while it is there.                                                        *)
Gone == \A s \in deleted : session[s] = 0

LEMMA NextGone == TypeOK /\ Gone /\ [Next]_vars => Gone'
<1> SUFFICES ASSUME TypeOK, Gone, [Next]_vars PROVE Gone'
  OBVIOUS
<1>1. ASSUME NEW h \in Handlers, NEW s \in Sids, Open(h, s) PROVE Gone'
  BY <1>1 DEF Open, TypeOK, Gone
<1>2. ASSUME NEW h \in Handlers, Extend(h) PROVE Gone'
  BY <1>2 DEF Extend, TypeOK, Gone
<1>3. ASSUME NEW h \in Handlers, Delete(h) \/ Fail(h) PROVE Gone'
  <2>1. PICK s \in Sids : s = handler[h].sid
    BY <1>3, HandlerTyped DEF Delete, Fail, At
  <2>2. \/ UNCHANGED <<session, deleted>>
        \/ session' = [session EXCEPT ![s] = 0] /\ deleted' = deleted \union {s}
    BY <1>3, <2>1 DEF Delete, Fail
  <2> QED
    BY <2>2 DEF TypeOK, Gone
<1>4. CASE Tick
  BY <1>4 DEF Tick, TypeOK, Gone, Less
<1>5. ASSUME UNCHANGED <<session, deleted>> PROVE Gone'
  BY <1>5 DEF Gone
<1>6. ASSUME NEW h \in Handlers, NEW s \in Sids, NEW t \in 0..TokenTTL,
             Refresh(h, s, t) \/ Logout(h, s, t)
      PROVE  Gone'
  BY <1>5, <1>6 DEF Refresh, Logout
<1>7. ASSUME NEW h \in Handlers, Issue(h) PROVE Gone'
  BY <1>5, <1>7 DEF Issue
<1>8. CASE UNCHANGED vars
  BY <1>5, <1>8 DEF vars
<1> QED
  BY <1>1, <1>2, <1>3, <1>4, <1>6, <1>7, <1>8 DEF Next

(* Whatever requests are under way, a session that a logout has deleted is  *)
(* never brought back, and none of its tokens is accepted again.            *)
THEOREM DeletedForGood == Spec => []DeletedStaysDeleted
<1>1. TypeOK /\ Gone /\ [Next]_vars => TypeOK' /\ Gone'
  BY NextTypeOK, NextGone
<1>2. Init => TypeOK /\ Gone
  BY InitTypeOK DEF Init, Gone
<1>3. TypeOK /\ Gone => DeletedStaysDeleted
  BY DEF TypeOK, Gone, DeletedStaysDeleted, Authorized
<1> QED
  BY <1>1, <1>2, <1>3, PTL DEF Spec

--------------------------------------------------------------------------------
\* The client of session s holds a token that lasts as long as the session, or
\* one is on its way, or was lost on it.
Served(s) ==
  \/ \E t \in tokens[s] : t >= session[s]
  \/ \E h \in Handlers : At(h, "issue") /\ handler[h].sid = s
  \/ s \in lost

(* A step that leaves the key and the tokens of a session alone, and does    *)
(* not answer a request that makes one, changes nothing for it.              *)
LEMMA StillServed ==
  ASSUME NEW s \in Sids, session'[s] \in {0, session[s]}, session[s] > 0 => Served(s),
         tokens'[s] = tokens[s], lost \subseteq lost',
         \A h \in Handlers : (At(h, "issue") /\ handler[h].sid = s) =>
           (handler'[h].pc = "issue" /\ handler'[h].sid = s) \/ s \in lost'
  PROVE  session'[s] > 0 => Served(s)'
BY DEF Served, At

LEMMA NextServed ==
  TypeOK /\ TokenOutlivesSession /\ [Next]_vars => TokenOutlivesSession'
<1> SUFFICES ASSUME TypeOK, TokenOutlivesSession, [Next]_vars, NEW s \in Sids
             PROVE  session'[s] > 0 => Served(s)'
  BY DEF TokenOutlivesSession, Served, At
<1>0. session[s] > 0 => Served(s)
  BY DEF TokenOutlivesSession, Served
<1>1. ASSUME NEW h \in Handlers, NEW r \in Sids, Open(h, r)
      PROVE  session'[s] > 0 => Served(s)'
  <2>1. /\ handler'[h].pc = "issue" /\ handler'[h].sid = r
        /\ \A g \in Handlers \ {h} : handler'[g] = handler[g]
    BY <1>1, MoveTyped, TimesAssumption DEF Open
  <2>2. CASE s = r
    BY <2>1, <2>2 DEF Served, At
  <2>3. CASE s # r
    <3>1. session'[s] = session[s] /\ handler[h].pc = "idle" /\ UNCHANGED <<tokens, lost>>
      BY <1>1, <2>3 DEF Open, TypeOK, At
    <3> QED
      BY <1>0, <2>1, <3>1, StillServed DEF At
  <2> QED
    BY <2>2, <2>3
<1>2. ASSUME NEW h \in Handlers, Issue(h)
      PROVE  session'[s] > 0 => Served(s)'
  <2>1. PICK r \in Sids : r = handler[h].sid
    BY <1>2, HandlerTyped DEF Issue, At
  <2>2. /\ tokens'[r] = tokens[r] \union {TokenTTL}
        /\ \A q \in Sids \ {r} : tokens'[q] = tokens[q]
        /\ UNCHANGED <<session, lost>>
        /\ \A g \in Handlers \ {h} : handler'[g] = handler[g]
    BY <1>2, <2>1, AnswerTyped DEF Issue, TypeOK
  <2>3. CASE s = r
    <3>1. TokenTTL >= session'[s]
      BY <2>2, TimesAssumption DEF TypeOK
    <3> QED
      BY <2>2, <2>3, <3>1 DEF Served
  <2>4. CASE s # r
    BY <1>0, <2>1, <2>2, <2>4, StillServed DEF At
  <2> QED
    BY <2>3, <2>4
<1>3. ASSUME NEW h \in Handlers, NEW r \in Sids, NEW t \in 0..TokenTTL,
             Refresh(h, r, t) \/ Logout(h, r, t)
      PROVE  session'[s] > 0 => Served(s)'
  <2>1. handler[h].pc = "idle" /\ UNCHANGED <<session, tokens, lost>>
    BY <1>3 DEF Refresh, Logout, At
  <2>2. \A g \in Handlers \ {h} : handler'[g] = handler[g]
    BY <1>3, MoveTyped, TimesAssumption DEF Refresh, Logout
  <2> QED
    BY <1>0, <2>1, <2>2, StillServed DEF At
<1>4. ASSUME NEW h \in Handlers, Extend(h)
      PROVE  session'[s] > 0 => Served(s)'
  <2>1. PICK r \in Sids : r = handler[h].sid
    BY <1>4, HandlerTyped DEF Extend, At
  <2>2. handler[h].pc = "extend" /\ UNCHANGED <<tokens, lost>>
    BY <1>4 DEF Extend, At
  <2>3. CASE Answer(h) /\ UNCHANGED session
    <3>1. \A g \in Handlers \ {h} : handler'[g] = handler[g]
      BY <2>3, AnswerTyped
    <3> QED
      BY <1>0, <2>2, <2>3, <3>1, StillServed DEF At
  <2>4. CASE /\ session' = IF session[r] > 0 THEN [session EXCEPT ![r] = SessionTTL]
                           ELSE session
             /\ Move(h, "issue", r, 0)
    <3>1. /\ handler'[h].pc = "issue" /\ handler'[h].sid = r
          /\ \A g \in Handlers \ {h} : handler'[g] = handler[g]
      BY <2>4, MoveTyped, TimesAssumption
    <3>2. CASE s = r
      BY <3>1, <3>2 DEF Served, At
    <3>3. CASE s # r
      <4>1. session'[s] = session[s]
        BY <2>4, <3>3 DEF TypeOK
      <4> QED
        BY <1>0, <2>2, <3>1, <4>1, StillServed DEF At
    <3> QED
      BY <3>2, <3>3
  <2> QED
    BY <1>4, <2>1, <2>3, <2>4 DEF Extend
<1>5. ASSUME NEW h \in Handlers, Delete(h) \/ Fail(h)
      PROVE  session'[s] > 0 => Served(s)'
  <2>1. PICK r \in Sids : r = handler[h].sid
    BY <1>5, HandlerTyped DEF Delete, Fail, At
  <2>2. session' = session \/ session' = [session EXCEPT ![r] = 0]
    BY <1>5, <2>1 DEF Delete, Fail
  <2>3. session'[s] \in {0, session[s]}
    BY <2>2 DEF TypeOK
  <2>4. /\ lost \subseteq lost' /\ UNCHANGED tokens
        /\ handler[h].pc = "issue" => r \in lost'
    BY <1>5, <2>1 DEF Delete, Fail, At
  <2>5. \A g \in Handlers \ {h} : handler'[g] = handler[g]
    BY <1>5, AnswerTyped DEF Delete, Fail
  <2> QED
    BY <1>0, <2>1, <2>3, <2>4, <2>5, StillServed DEF At
<1>6. ASSUME Tick PROVE session'[s] > 0 => Served(s)'
  <2>1. \A h \in Handlers : handler'[h].pc = handler[h].pc /\ handler'[h].sid = handler[h].sid
    BY <1>6, HandlerTyped DEF Tick, Handler
  <2>2. /\ session'[s] = Less(session[s]) /\ tokens'[s] = {Less(t) : t \in tokens[s]}
        /\ UNCHANGED lost
    BY <1>6 DEF Tick
  <2>3. session[s] \in Nat /\ tokens[s] \subseteq Nat
    BY TimesAssumption DEF TypeOK
  <2>4. SUFFICES ASSUME session'[s] > 0 PROVE Served(s)'
    OBVIOUS
  <2>5. session[s] > 0
    BY <2>2, <2>3, <2>4 DEF Less
  <2>6. CASE \E t \in tokens[s] : t >= session[s]
    <3>1. PICK t \in tokens[s] : t >= session[s]
      BY <2>6
    <3>2. Less(t) \in tokens'[s] /\ Less(t) >= session'[s]
      BY <2>2, <2>3, <3>1 DEF Less
    <3> QED
      BY <3>2 DEF Served
  <2>7. CASE (\E h \in Handlers : At(h, "issue") /\ handler[h].sid = s) \/ s \in lost
    BY <2>1, <2>2, <2>7 DEF Served, At
  <2> QED
    BY <1>0, <2>5, <2>6, <2>7 DEF Served
<1>7. CASE UNCHANGED vars
  BY <1>0, <1>7 DEF vars, Served, At
<1> QED
  BY <1>1, <1>2, <1>3, <1>4, <1>5, <1>6, <1>7 DEF Next

(* For any times to live with the session's not above the token's: a client *)
(* that keeps its newest token can use its session, and end it, until the   *)
(* session expires, unless the token was lost on its way.                   *)
THEOREM TokensLast == Spec => []TokenOutlivesSession
<1>1. TypeOK /\ TokenOutlivesSession /\ [Next]_vars => TypeOK' /\ TokenOutlivesSession'
  BY NextTypeOK, NextServed
<1>2. Init => TypeOK /\ TokenOutlivesSession
  BY InitTypeOK DEF Init, TokenOutlivesSession
<1> QED
  BY <1>1, <1>2, PTL DEF Spec

================================================================================
