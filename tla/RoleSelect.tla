----------------------------- MODULE RoleSelect -----------------------------
(***************************************************************************)
(* How a user selects a role: the agent's side of creating, selecting and  *)
(* leaving a role (k32/agent/static/user_service.cpp), and what the logic  *)
(* servers know of it.  There is one user and the agent it connects to.    *)
(*                                                                         *)
(* The events of one session are handled in order, but a handler finds the *)
(* connection by the name of the user every time: when the client has      *)
(* connected anew while the handler was waiting for another server, it     *)
(* goes on with the connection of the new session.                         *)
(*                                                                         *)
(* UserLogin has the steps that put a session into `connections`, and      *)
(* LogicRole those of a logic server, where each request is one step here. *)
(***************************************************************************)
EXTENDS Naturals, FiniteSets

CONSTANTS
  MaxRoid,   \* bound: the user's roles that are ever created
  Logic,     \* logic servers
  MaxSession,  \* bound: how often the user's clients connect
  MaxRoles,  \* max_number_of_roles_per_user
  Reliable,  \* whether requests are neither lost nor overtaken
  None       \* no connection, no role, no server

ASSUME SelectAssumption ==
  /\ Logic # {} /\ MaxRoles \in Nat /\ Reliable \in BOOLEAN
  /\ MaxRoid \in Nat /\ MaxSession \in Nat
  /\ None \notin Logic /\ None \notin Nat

Roid    == 1 .. MaxRoid
Session == 1 .. MaxSession

VARIABLES
  conn,     \* the user's entry in `connections`, or None
  sess,     \* the sessions
  fib,      \* the fiber of every session
  created,  \* the roles that the monitor lists
  online,   \* what each logic server has of each role
  check,    \* the check_roles request of each logic server
  calm      \* history: no session was opened before the last one had gone,
            \* and no request was lost

vars == <<conn, sess, fib, created, online, check, calm>>

(* current_roid, current_logic_srv and the keys of cached_raw_avatars.     *)
Connection == [session : Session, roid : Roid \cup {None},
               srv : Logic \cup {None}, avatars : SUBSET Roid]

(* roid and srv are those of the request the fiber waits for; target is    *)
(* the role to log in afterwards; found is what the reconnect requests     *)
(* have found on the servers that are not in pending any more.             *)
Waiting == {"acquire", "create", "load", "logout", "login", "disconnect"}
FiberState ==
  [pc : Waiting \cup {"new", "insert", "reconnect", "ready", "gone"},
   target : Roid \cup {None}, roid : Roid \cup {None},
   srv : Logic \cup {None}, done : {"no", "yes", "refused", "lost"},
   avatars : SUBSET Roid, pending : SUBSET Logic,
   found : SUBSET (Logic \X Roid)]

TypeOK ==
  /\ conn \in Connection \cup {None}
  /\ conn # None => (conn.roid = None <=> conn.srv = None)
  /\ sess \in [Session -> {"new", "open", "shut", "gone"}]
  /\ fib \in [Session -> FiberState]
  /\ created \subseteq Roid
  /\ online \in [Logic -> [Roid -> {"off", "on", "away"}]]
  /\ check \in [Logic -> [roid : Roid \cup {None}, elsewhere : BOOLEAN]]
  /\ calm \in BOOLEAN

Idle == [pc |-> "new", target |-> None, roid |-> None,
         srv |-> None, done |-> "no", avatars |-> {},
         pending |-> {}, found |-> {}]
NoCheck == [roid |-> None, elsewhere |-> FALSE]

Init ==
  /\ conn = None
  /\ sess = [s \in Session |-> "new"]
  /\ fib = [s \in Session |-> Idle]
  /\ created = {}
  /\ online = [l \in Logic |-> [r \in Roid |-> "off"]]
  /\ check = [l \in Logic |-> NoCheck]
  /\ calm = TRUE

(***************************************************************************)
(* How a fiber moves.                                                      *)
(***************************************************************************)
Ready(s) == fib' = [fib EXCEPT ![s] = [Idle EXCEPT !.pc = "ready"]]

ShutDown(S) ==
  sess' = [s \in Session |-> IF s \in S /\ sess[s] = "open" THEN "shut"
                                                            ELSE sess[s]]

(* An exception ends the handler, and the session.                         *)
Fail(s) == Ready(s) /\ ShutDown({s}) /\ UNCHANGED conn

(* The fiber sends a request to another server and yields.                 *)
Request(s, pc, target, roid, srv) ==
  fib' = [fib EXCEPT ![s] = [Idle EXCEPT !.pc = pc, !.target = target,
                                         !.roid = roid, !.srv = srv]]
Resumed(s, pc) == fib[s].pc = pc /\ fib[s].done # "no"
Ok(s)          == fib[s].done = "yes"

(* Events are handled while the session exists and no other one is being   *)
(* handled; those of a session that is not in `connections` are ignored.   *)
Handles(s) == fib[s].pc = "ready" /\ conn # None /\ conn.session = s

(***************************************************************************)
(* do_role_login_common and do_role_logout_common; c is the connection.    *)
(***************************************************************************)
SendLogout(s, target, c) ==
  /\ conn' = c
  /\ Request(s, "logout", target, c.roid, c.srv)

(* The connection is locked by the role before the request is sent.  The   *)
(* server that is selected depends on which ones are online by now; there  *)
(* may be none.                                                            *)
SendLogin(s, r, c) ==
  \/ \E l \in Logic : /\ conn' = [c EXCEPT !.roid = r, !.srv = l]
                      /\ Request(s, "login", None, r, l)
                      /\ UNCHANGED sess
  \/ ~Reliable /\ conn' = c /\ Ready(s) /\ ShutDown({s})

(* Mutant: the previous role is not logged out.                            *)
NeverAnother(r, c) == FALSE
IsAnother(r, c)    == c.roid \notin {None, r}

LoginCommon(s, r, c) ==
  \/ c = None /\ Fail(s)
  \/ /\ c # None /\ c.roid = r
     /\ Ready(s) /\ conn' = c /\ UNCHANGED sess
  \/ /\ c # None /\ c.roid # r /\ IsAnother(r, c)
     /\ SendLogout(s, r, c) /\ UNCHANGED sess
  \/ /\ c # None /\ c.roid # r /\ ~IsAnother(r, c)
     /\ SendLogin(s, r, c)

(* Mutant: only one of the two fields is cleared.                          *)
UnlockedRoleOnly(c) == [c EXCEPT !.roid = None]
Unlocked(c)         == [c EXCEPT !.roid = None, !.srv = None]

(* The reply is not looked at: the connection is unlocked in any case.     *)
LoggedOut(s) ==
  /\ Resumed(s, "logout")
  /\ \/ conn = None /\ Fail(s)
     \/ /\ conn # None /\ fib[s].target = None
        /\ conn' = Unlocked(conn)
        /\ Ready(s) /\ UNCHANGED sess
     \/ /\ conn # None /\ fib[s].target # None
        /\ SendLogin(s, fib[s].target, Unlocked(conn))
  /\ UNCHANGED <<created, online, check, calm>>

(* Unless the role is online, the session is shut down, and the connection *)
(* stays locked until it is closed.                                        *)
LoggedIn(s) ==
  /\ Resumed(s, "login")
  /\ \/ Ok(s) /\ Ready(s) /\ UNCHANGED <<conn, sess>>
     \/ ~Ok(s) /\ Fail(s)
  /\ UNCHANGED <<created, online, check, calm>>

(***************************************************************************)
(* A client connects.                                                      *)
(***************************************************************************)
(* monitor/role/list: the avatars are those of the roles that exist.       *)
Open(s) ==
  /\ sess[s] = "new" /\ \A t \in 1 .. s - 1 : sess[t] # "new"
  /\ sess' = [sess EXCEPT ![s] = "open"]
  /\ fib' = [fib EXCEPT ![s] = [Idle EXCEPT !.pc = "insert",
                                             !.avatars = created]]
  /\ calm' = (calm /\ \A t \in Session : fib[t].pc \in {"new", "gone"})
  /\ UNCHANGED <<conn, created, online, check>>

(* The connection is new, but for the avatars; do_welcome_client first     *)
(* looks for a role that is online.                                        *)
Insert(s) ==
  /\ fib[s].pc = "insert"
  /\ ShutDown(IF conn # None THEN {conn.session} ELSE {})
  /\ conn' = [session |-> s, roid |-> None, srv |-> None,
              avatars |-> fib[s].avatars]
  /\ IF fib[s].avatars = {} THEN Ready(s)
     ELSE fib' = [fib EXCEPT ![s].pc = "reconnect", ![s].pending = Logic]
  /\ UNCHANGED <<created, online, check, calm>>

(* An earlier session has been closed, and its server does not know yet.   *)
Overtakes(s, l) ==
  \E t \in 1 .. s - 1 : /\ fib[t].pc = "disconnect" /\ fib[t].done = "no"
                        /\ fib[t].srv = l

(* logic/role/reconnect on one of the servers: the last of the roles that  *)
(* is online is connected.                                                 *)
HasRole(l, R) == {r \in R : online[l][r] # "off"}

ReconnectExec(s, l) ==
  /\ fib[s].pc = "reconnect" /\ l \in fib[s].pending
  /\ Reliable => ~Overtakes(s, l)
  /\ \/ \E r \in HasRole(l, fib[s].avatars) :
          /\ online' = [online EXCEPT ![l][r] = "on"]
          /\ fib' = [fib EXCEPT ![s].pending = @ \ {l},
                                ![s].found = @ \cup {<<l, r>>}]
     \/ /\ HasRole(l, fib[s].avatars) = {}
        /\ fib' = [fib EXCEPT ![s].pending = @ \ {l}]
        /\ UNCHANGED online
  /\ UNCHANGED <<conn, sess, created, check, calm>>

(* If no role is online, one that is fresh is loaded: its avatar is empty, *)
(* as no logic server has saved it.  Otherwise the client gets a list.     *)
Reconnected(s) ==
  /\ fib[s].pc = "reconnect" /\ fib[s].pending = {}
  /\ \/ conn = None /\ Fail(s)
     \/ /\ conn # None
        /\ \E p \in fib[s].found : conn' = [conn EXCEPT !.srv = p[1], !.roid = p[2]]
        /\ Ready(s) /\ UNCHANGED sess
     \/ /\ conn # None /\ fib[s].found = {}
        /\ \/ Ready(s)
           \/ /\ conn.roid = None
              /\ \E r \in conn.avatars : Request(s, "load", r, None, None)
        /\ UNCHANGED <<conn, sess>>
  /\ UNCHANGED <<created, online, check, calm>>

(***************************************************************************)
(* +role/create, +role/login and +role/logout.                             *)
(***************************************************************************)
(* The nickname names the role: its serial number is the role's, and serial *)
(* numbers ascend.                                                         *)
Create(s, r) ==
  /\ Handles(s) /\ Cardinality(conn.avatars) < MaxRoles
  /\ 1 .. r - 1 \subseteq created \cup {fib[t].target : t \in Session}
  /\ Request(s, "acquire", r, None, None)
  /\ UNCHANGED <<conn, sess, created, online, check, calm>>

Acquired(s) ==
  /\ Resumed(s, "acquire")
  /\ \/ /\ fib[s].done = "yes"
        /\ Request(s, "create", fib[s].target, None, None)
        /\ UNCHANGED <<conn, sess>>
     \/ fib[s].done = "refused" /\ Ready(s) /\ UNCHANGED <<conn, sess>>
     \/ fib[s].done = "lost" /\ Fail(s)
  /\ UNCHANGED <<created, online, check, calm>>

(* The avatars are those of the connection that is there by now.           *)
Created(s) ==
  LET r == fib[s].target
      c == IF conn = None THEN None ELSE [conn EXCEPT !.avatars = @ \cup {r}]
  IN
  /\ Resumed(s, "create")
  /\ \/ Ok(s) /\ LoginCommon(s, r, c)
     \/ fib[s].done = "refused" /\ Ready(s) /\ UNCHANGED <<conn, sess>>
     \/ fib[s].done = "lost" /\ Fail(s)
  /\ UNCHANGED <<created, online, check, calm>>

Login(s, r) ==
  /\ Handles(s) /\ conn.roid # r /\ r \in conn.avatars
  /\ Request(s, "load", r, None, None)
  /\ UNCHANGED <<conn, sess, created, online, check, calm>>

(* Whatever the monitor has replied, the login is attempted.               *)
Loaded(s) ==
  /\ Resumed(s, "load")
  /\ LoginCommon(s, fib[s].target, conn)
  /\ UNCHANGED <<created, online, check, calm>>

Logout(s) ==
  /\ Handles(s) /\ conn.roid # None
  /\ SendLogout(s, None, conn)
  /\ UNCHANGED <<sess, created, online, check, calm>>

(***************************************************************************)
(* A connection ends.                                                      *)
(***************************************************************************)
ClientCloses(s) ==
  /\ sess[s] = "open" /\ ShutDown({s})
  /\ UNCHANGED <<conn, fib, created, online, check, calm>>

(* do_ping_timer_callback forgets a silent client, and does not tell the   *)
(* logic server.                                                           *)
PingTimeout ==
  /\ conn # None
  /\ ShutDown({conn.session})
  /\ conn' = None
  /\ UNCHANGED <<fib, created, online, check, calm>>

Close(s) ==
  /\ sess[s] = "shut" /\ fib[s].pc = "ready"
  /\ IF Handles(s) THEN conn' = None ELSE UNCHANGED conn
  /\ IF Handles(s) /\ conn.roid # None
     THEN Request(s, "disconnect", None, conn.roid, conn.srv)
     ELSE fib' = [fib EXCEPT ![s].pc = "gone"]
  /\ sess' = [sess EXCEPT ![s] = "gone"]
  /\ UNCHANGED <<created, online, check, calm>>

Closed(s) ==
  /\ Resumed(s, "disconnect")
  /\ fib' = [fib EXCEPT ![s] = [Idle EXCEPT !.pc = "gone"]]
  /\ UNCHANGED <<conn, sess, created, online, check, calm>>

(***************************************************************************)
(* The other servers execute a request at some moment of the yield.        *)
(***************************************************************************)
Answer(s, how) ==
  fib' = [fib EXCEPT ![s].done = how, ![s].roid = None, ![s].srv = None]

(* A nickname may be that of another user's role; a role that is created   *)
(* again, under the same nickname, is there already.                       *)
NicknameExec(s) ==
  /\ fib[s].pc = "acquire" /\ fib[s].done = "no"
  /\ \/ Answer(s, "yes")
     \/ fib[s].target \notin created /\ Answer(s, "refused")
  /\ UNCHANGED <<conn, sess, created, online, check, calm>>

(* The row of a role that is to be created may be another user's.          *)
MonitorExec(s) ==
  /\ fib[s].pc \in {"create", "load"} /\ fib[s].done = "no"
  /\ \/ /\ Answer(s, "yes")
        /\ created' = IF fib[s].pc = "create" THEN created \cup {fib[s].target}
                                               ELSE created
     \/ /\ fib[s].pc = "create" /\ fib[s].target \notin created
        /\ Answer(s, "refused") /\ UNCHANGED created
  /\ UNCHANGED <<conn, sess, online, check, calm>>

LogicExec(s) ==
  LET l == fib[s].srv
      r == fib[s].roid
  IN
  /\ fib[s].pc \in {"login", "logout", "disconnect"} /\ fib[s].done = "no"
  /\ Answer(s, "yes")
  /\ online' = [online EXCEPT ![l][r] =
                  CASE fib[s].pc = "login"                    -> "on"
                    [] fib[s].pc = "disconnect" /\ @ # "off" -> "away"
                    [] OTHER                                  -> "off"]
  /\ UNCHANGED <<conn, sess, created, check, calm>>

(* A request, or its reply, is lost, or the other server fails; only the   *)
(* replies to the requests in Checked are looked at.                       *)
Checked == {"acquire", "create", "login"}

Lost(s) ==
  /\ ~Reliable /\ calm' = FALSE
  /\ \/ fib[s].pc \in Waiting /\ fib[s].done = "no"
     \/ fib[s].pc \in Checked /\ fib[s].done = "yes"
  /\ Answer(s, IF fib[s].pc \in Checked THEN "lost" ELSE "yes")
  /\ UNCHANGED <<conn, sess, created, online, check>>

ReconnectLost(s, l) ==
  /\ fib[s].pc = "reconnect" /\ l \in fib[s].pending /\ ~Reliable
  /\ calm' = FALSE
  /\ fib' = [fib EXCEPT ![s].pending = @ \ {l}]
  /\ \/ \E r \in HasRole(l, fib[s].avatars) : online' = [online EXCEPT ![l][r] = "on"]
     \/ UNCHANGED online
  /\ UNCHANGED <<conn, sess, created, check>>

(***************************************************************************)
(* The save timer of a logic server.                                       *)
(***************************************************************************)
(* It asks about one role of each user that is connected.                  *)
CheckStart(l) ==
  /\ check[l] = NoCheck
  /\ \E r \in Roid : /\ online[l][r] = "on"
                     /\ check' = [check EXCEPT ![l].roid = r]
  /\ UNCHANGED <<conn, sess, fib, created, online, calm>>

(* Mutant: a user that is not in the answer keeps its role.                *)
HasAnother(l, r) == conn # None /\ <<conn.srv, conn.roid>> # <<l, r>>

(* do_user_check_roles: a user without a connection is not in the answer,  *)
(* and has not got the role.                                               *)
HasRoleNoMore(l, r) == conn = None \/ <<conn.srv, conn.roid>> # <<l, r>>

(* A role that is found where it is supposed to be is left alone.          *)
CheckExec(l) ==
  /\ check[l].roid # None /\ ~check[l].elsewhere
  /\ check' = IF HasRoleNoMore(l, check[l].roid)
              THEN [check EXCEPT ![l].elsewhere = TRUE]
              ELSE [check EXCEPT ![l] = NoCheck]
  /\ UNCHANGED <<conn, sess, fib, created, online, calm>>

CheckDone(l) ==
  /\ check[l].elsewhere
  /\ check' = [check EXCEPT ![l] = NoCheck]
  /\ online' = [online EXCEPT ![l][check[l].roid] = IF @ = "on" THEN "away" ELSE @]
  /\ UNCHANGED <<conn, sess, fib, created, calm>>

(* A role that has been disconnected for too long is logged out.           *)
Expire(l, r) ==
  /\ online[l][r] = "away"
  /\ online' = [online EXCEPT ![l][r] = "off"]
  /\ UNCHANGED <<conn, sess, fib, created, check, calm>>

Event(s) ==
  \/ \E r \in Roid : Create(s, r) \/ Login(s, r)
  \/ Logout(s)

Handler(s) ==
  \/ Insert(s) \/ Reconnected(s) \/ Acquired(s) \/ Created(s) \/ Loaded(s)
  \/ LoggedOut(s) \/ LoggedIn(s) \/ Close(s) \/ Closed(s)

Server(s) ==
  \/ NicknameExec(s) \/ MonitorExec(s) \/ LogicExec(s)
  \/ \E l \in Logic : ReconnectExec(s, l)

Timer(l) == CheckStart(l) \/ CheckExec(l) \/ CheckDone(l)

Next ==
  \/ \E s \in Session : \/ Open(s) \/ Event(s) \/ ClientCloses(s)
                        \/ Handler(s) \/ Server(s) \/ Lost(s)
                        \/ \E l \in Logic : ReconnectLost(s, l)
  \/ PingTimeout
  \/ \E l \in Logic : Timer(l) \/ \E r \in Roid : Expire(l, r)

Spec == Init /\ [][Next]_vars

(* Servers answer, fibers are resumed, the timers of logic servers tick.   *)
FairSpec ==
  /\ Spec
  /\ \A s \in Session : WF_vars(Handler(s)) /\ WF_vars(Server(s))
  /\ \A l \in Logic : WF_vars(Timer(l))

(***************************************************************************)
(* Properties.                                                             *)
(***************************************************************************)
Connected == {p \in Logic \X Roid : online[p[1]][p[2]] = "on"}

(* "In order to prevent multiple logins": as long as no two sessions of    *)
(* the user overlap and no request fails, no two roles are connected.      *)
OneAtATime == calm => Cardinality(Connected) <= 1

(* When the user has left for good, no role stays connected: not even if   *)
(* the agent has forgotten the connection without telling, the disconnect  *)
(* request was lost, or an old session's handler logs in a role at last.   *)
AbandonedIsAway == <>[](conn = None) => <>[](Connected = {})

(* A role is not logged out for being away while the user is on the agent  *)
(* with the same role.                                                     *)
StillPlayed ==
  [][\A l \in Logic, r \in Roid :
       online[l][r] = "away" /\ online'[l][r] = "off" =>
         \/ conn = None \/ <<conn.srv, conn.roid>> # <<l, r>>
         \/ fib[conn.session].pc # "ready"]_online

(***************************************************************************)
(* Why it holds: the inductive invariant.                                  *)
(***************************************************************************)
(* What the fiber of a session holds at each stage, and that nothing but   *)
(* roles that the monitor has created is ever logged in.                   *)
FiberInv(s) ==
  /\ fib[s].pc \in {"acquire", "create", "load"} => fib[s].target \in Roid
  /\ fib[s].pc \in {"login", "logout", "disconnect"} /\ fib[s].done = "no" =>
       fib[s].roid \in Roid /\ fib[s].srv \in Logic
  /\ \/ fib[s].pc = "load"
     \/ fib[s].pc = "create" /\ fib[s].done = "yes"
     \/ fib[s].pc = "logout" /\ fib[s].target # None
     => fib[s].target \in created
  /\ fib[s].pc = "login" /\ fib[s].done = "no" => fib[s].roid \in created
  /\ fib[s].avatars \subseteq created

CreatedInv ==
  /\ conn # None => conn.avatars \subseteq created
  /\ \A l \in Logic, r \in Roid : online[l][r] # "off" => r \in created

(* No logic server has another role, connected or away.                    *)
Only(l, r)    == \A m \in Logic, q \in Roid : online[m][q] # "off" =>
                                                m = l /\ q = r
Active(s)     == fib[s].pc \notin {"new", "gone"}

(* In calm conditions one session is there at a time, no two roles are     *)
(* known to the logic servers, and the connection is locked by the one     *)
(* that is, or soon will be.                                               *)
OneInv ==
  /\ \A s, t \in Session : Active(s) /\ Active(t) => s = t
  /\ \A l, m \in Logic, r, q \in Roid :
       online[l][r] # "off" /\ online[m][q] # "off" => l = m /\ r = q
  /\ conn # None =>
       /\ Active(conn.session)
       /\ fib[conn.session].pc \notin {"insert", "disconnect"}
       /\ IF fib[conn.session].pc = "reconnect" THEN conn.roid = None
          ELSE Only(conn.srv, conn.roid)
       /\ fib[conn.session].pc = "login" /\ fib[conn.session].done = "no" =>
            /\ conn.srv = fib[conn.session].srv
            /\ conn.roid = fib[conn.session].roid

PendingInv(s) ==
  /\ fib[s].pc \in {"login", "logout"} /\ fib[s].done = "no" =>
       Only(fib[s].srv, fib[s].roid)
  /\ fib[s].pc = "logout" /\ fib[s].done # "no" =>
       \A l \in Logic, r \in Roid : online[l][r] = "off"

ReconnectInv(s) ==
  /\ fib[s].pc \in {"insert", "reconnect"} =>
       \A l \in Logic, r \in Roid : online[l][r] # "off" => r \in fib[s].avatars
  /\ fib[s].pc = "insert" => fib[s].found = {}
  /\ fib[s].pc = "reconnect" =>
       /\ \A p \in fib[s].found : Only(p[1], p[2])
       /\ \A p, q \in fib[s].found : p = q
       /\ \A l \in Logic, r \in Roid : online[l][r] # "off" =>
            l \in fib[s].pending \/ <<l, r>> \in fib[s].found

Inv ==
  /\ TypeOK /\ CreatedInv
  /\ \A s \in Session : FiberInv(s)
  /\ calm => OneInv /\ \A s \in Session : PendingInv(s) /\ ReconnectInv(s)

=============================================================================
