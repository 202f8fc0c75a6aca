-------------------------------- MODULE Sessions --------------------------------
(***************************************************************************)
(* Sessions and the tokens that name them: the Redis keys session:<id> of  *)
(* session_manager.py, the signed tokens of auth.py, and the routes login, *)
(* refresh and logout of main.py. A session ends when its key expires or   *)
(* is deleted; a token ends when its exp has passed, and never before.     *)
(* Each label of pc is a point where the handlers of other requests, or    *)
(* the passing of time, can come between:                                  *)
(*                                                                         *)
(*   login:    idle -> issue -> idle                                       *)
(*   refresh:  idle -> extend -> issue -> idle                             *)
(*   logout:   idle -> delete -> idle                                      *)
(***************************************************************************)
EXTENDS Integers

CONSTANTS
  Sids,        \* session ids, each a fresh uuid4
  Handlers,    \* requests in progress at once, over all API processes
  None,        \* no session
  SessionTTL,  \* SESSION_TTL_SECONDS in ticks
  TokenTTL     \* ACCESS_TOKEN_EXPIRE_MINUTES in ticks

ASSUME TimesAssumption ==
  SessionTTL \in Nat \ {0} /\ TokenTTL \in Nat \ {0} /\ SessionTTL <= TokenTTL

ASSUME NoneAssumption == None \notin Sids

VARIABLES
  session,    \* time to live of session:<id>, 0 when there is no such key
  tokens,     \* time left to each token of a session in clients' hands
  handler,    \* the requests in progress
  \* history, read by no action of the program except for fresh ids:
  opened,     \* session ids given out
  deleted,    \* sessions deleted by a logout
  loggedOut,  \* sessions one of whose tokens was used for a logout answered 204
  lost        \* sessions of which a new token did not reach its client

vars == <<session, tokens, handler, opened, deleted, loggedOut, lost>>

\* left: time left to the token that the request came with.
Handler == [pc : {"idle", "extend", "issue", "delete"},
            sid : Sids \union {None}, left : 0..TokenTTL]

IdleHandler == [pc |-> "idle", sid |-> None, left |-> 0]

At(h, label) == handler[h].pc = label
Move(h, label, s, t) ==
  handler' = [handler EXCEPT ![h] = [pc |-> label, sid |-> s, left |-> t]]
Answer(h) == handler' = [handler EXCEPT ![h] = IdleHandler]

Init ==
  /\ session = [s \in Sids |-> 0]
  /\ tokens = [s \in Sids |-> {}]
  /\ handler = [h \in Handlers |-> IdleHandler]
  /\ opened = {} /\ deleted = {} /\ loggedOut = {} /\ lost = {}

--------------------------------------------------------------------------------
(* A login whose password was right: create_session.                         *)
Open(h, s) ==
  /\ At(h, "idle")
  /\ s \notin opened
  /\ session' = [session EXCEPT ![s] = SessionTTL]
  /\ opened' = opened \union {s}
  /\ Move(h, "issue", s, 0)
  /\ UNCHANGED <<tokens, deleted, loggedOut, lost>>

\* Defect: the answer to a refresh holds a token whose time runs from the old one.
IssueOld(h) ==
  /\ At(h, "issue")
  /\ LET s == handler[h].sid
     IN  tokens' = IF tokens[s] = {} THEN [tokens EXCEPT ![s] = {TokenTTL}] ELSE tokens
  /\ Answer(h)
  /\ UNCHANGED <<session, opened, deleted, loggedOut, lost>>

(* create_access_token, and the answer 200 of login and refresh.             *)
Issue(h) ==
  /\ At(h, "issue")
  /\ tokens' = [tokens EXCEPT ![handler[h].sid] = @ \union {TokenTTL}]
  /\ Answer(h)
  /\ UNCHANGED <<session, opened, deleted, loggedOut, lost>>

(* jwt.decode raises once the time of a token is up; then                    *)
(* get_session_id_from_token returns None.                                   *)
Decodes(t) == t > 0

(* get_current_user: the token can still be decoded and its session is alive. *)
Authorized(s, t) == Decodes(t) /\ session[s] > 0

(* POST /auth/refresh with a token of s that has time t left; 401 without    *)
(* get_current_user's consent.                                               *)
Refresh(h, s, t) ==
  /\ At(h, "idle")
  /\ t \in tokens[s]
  /\ Authorized(s, t)
  /\ Move(h, "extend", s, t)
  /\ UNCHANGED <<session, tokens, opened, deleted, loggedOut, lost>>

\* Defect: setex, which brings a session back that was deleted meanwhile.
ExtendSets(h) ==
  /\ At(h, "extend")
  /\ LET s == handler[h].sid
     IN  /\ session' = [session EXCEPT ![s] = SessionTTL]
         /\ Move(h, "issue", s, 0)
  /\ UNCHANGED <<tokens, opened, deleted, loggedOut, lost>>

\* Defect: a session is extended by its time to live, not to it.
ExtendAdds(h) ==
  /\ At(h, "extend")
  /\ LET s == handler[h].sid
     IN  \/ ~Decodes(handler[h].left) /\ Answer(h) /\ UNCHANGED session
         \/ /\ Decodes(handler[h].left)
            /\ session' = IF session[s] > 0 THEN [session EXCEPT ![s] = @ + SessionTTL]
                          ELSE session
            /\ Move(h, "issue", s, 0)
  /\ UNCHANGED <<tokens, opened, deleted, loggedOut, lost>>

(* refresh decodes the token once more: if its time is up by now, there is   *)
(* no session id, nothing is extended, and the new token names no session.   *)
(* Otherwise expire extends the session if it is still there; refresh does   *)
(* not look at its answer.                                                   *)
Extend(h) ==
  /\ At(h, "extend")
  /\ LET s == handler[h].sid
     IN  \/ ~Decodes(handler[h].left) /\ Answer(h) /\ UNCHANGED session
         \/ /\ Decodes(handler[h].left)
            /\ session' = IF session[s] > 0 THEN [session EXCEPT ![s] = SessionTTL]
                          ELSE session
            /\ Move(h, "issue", s, 0)
  /\ UNCHANGED <<tokens, opened, deleted, loggedOut, lost>>

(* POST /auth/logout with a token of s. One that cannot be decoded any more  *)
(* is answered 204 like any other, and nothing is invalidated.               *)
Logout(h, s, t) ==
  /\ At(h, "idle")
  /\ t \in tokens[s]
  /\ \/ Decodes(t) /\ Move(h, "delete", s, 0) /\ UNCHANGED loggedOut
     \/ ~Decodes(t) /\ loggedOut' = loggedOut \union {s} /\ UNCHANGED handler
  /\ UNCHANGED <<session, tokens, opened, deleted, lost>>

(* invalidate_session and the answer 204.                                    *)
Delete(h) ==
  /\ At(h, "delete")
  /\ LET s == handler[h].sid
     IN  /\ session' = [session EXCEPT ![s] = 0]
         /\ deleted' = deleted \union {s}
         /\ loggedOut' = loggedOut \union {s}
  /\ Answer(h)
  /\ UNCHANGED <<tokens, opened, lost>>

--------------------------------------------------------------------------------
(* A Redis call raises, the process dies, or the client was answered 504:    *)
(* whatever the handler would have answered does not reach the client. A     *)
(* deletion may have been made all the same.                                 *)
Fail(h) ==
  /\ ~At(h, "idle")
  /\ LET s == handler[h].sid
     IN  /\ lost' = IF At(h, "issue") THEN lost \union {s} ELSE lost
         /\ \/ UNCHANGED <<session, deleted>>
            \/ /\ At(h, "delete")
               /\ session' = [session EXCEPT ![s] = 0]
               /\ deleted' = deleted \union {s}
  /\ Answer(h)
  /\ UNCHANGED <<tokens, opened, loggedOut>>

Less(t) == IF t > 0 THEN t - 1 ELSE 0

(* Time: Redis expires keys, and tokens run out.                             *)
Tick ==
  /\ session' = [s \in Sids |-> Less(session[s])]
  /\ tokens' = [s \in Sids |-> {Less(t) : t \in tokens[s]}]
  /\ handler' = [h \in Handlers |-> [handler[h] EXCEPT !.left = Less(@)]]
  /\ UNCHANGED <<opened, deleted, loggedOut, lost>>

Next ==
  \/ \E h \in Handlers, s \in Sids :
       \/ Open(h, s)
       \/ \E t \in 0..TokenTTL : Refresh(h, s, t) \/ Logout(h, s, t)
  \/ \E h \in Handlers : Issue(h) \/ Extend(h) \/ Delete(h) \/ Fail(h)
  \/ Tick

Spec == Init /\ [][Next]_vars

--------------------------------------------------------------------------------
(* Every variable has its type, no session can go unused for longer than its *)
(* time to live, a request in progress is about a session that was opened,   *)
(* and so is a key or a token.                                               *)
TypeOK ==
  /\ session \in [Sids -> 0..SessionTTL]
  /\ tokens \in [Sids -> SUBSET (0..TokenTTL)]
  /\ handler \in [Handlers -> Handler]
  /\ opened \subseteq Sids /\ deleted \subseteq opened
  /\ loggedOut \subseteq opened /\ lost \subseteq opened
  /\ \A h \in Handlers : ~At(h, "idle") => handler[h].sid \in opened
  /\ \A s \in Sids \ opened : session[s] = 0 /\ tokens[s] = {}

(* A session that a logout has deleted stays gone: no refresh that was let   *)
(* in before brings it back, so from the logout on no token of the session   *)
(* passes get_current_user.                                                  *)
DeletedStaysDeleted ==
  \A s \in deleted : \A t \in tokens[s] : ~Authorized(s, t)

(* A client that keeps its newest token can use its session to the end, and  *)
(* can log out of it: a session outlives all its tokens only while a new one *)
(* is being made, or after one got lost on its way. Times are ticks here; in *)
(* the service it holds up to a second, as PyJWT rounds exp down to seconds. *)
TokenOutlivesSession ==
  \A s \in Sids : session[s] > 0 =>
    \/ \E t \in tokens[s] : t >= session[s]
    \/ \E h \in Handlers : At(h, "issue") /\ handler[h].sid = s
    \/ s \in lost

--------------------------------------------------------------------------------
(* ARCHITECTURE.md:223 says "Redis session enables instant revocation on     *)
(* logout". A logout with an older token of a session that was refreshed is  *)
(* answered 204 and leaves the session, and its newer token, alive.          *)
LogoutEndsSession == \A s \in loggedOut : session[s] = 0
================================================================================
