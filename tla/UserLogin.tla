------------------------------ MODULE UserLogin ------------------------------
(***************************************************************************)
(* How users log in on agents (k32/agent/static/user_service.cpp): the     *)
(* sessions of clients, the users and connections that every agent knows,  *)
(* the record in Redis that says on which agent a user is, the requests by *)
(* which one agent kicks a user from another, and the two timers.          *)
(*                                                                         *)
(* The events of one session are handled one after another, those of       *)
(* different sessions interleave wherever a handler yields.  A session is  *)
(* "shut" as soon as either side has asked for its end; its close event    *)
(* comes later, and after it nobody holds the session ("gone").            *)
(***************************************************************************)
EXTENDS Naturals, FiniteSets

CONSTANTS
  Agent,    \* agent processes
  User,     \* users
  Session,  \* bound: client connections, each opened once
  BanAgent, \* bound: the agents that are asked to ban users
  MaxFault, \* bound: kicks that reach nobody and SET commands that fail
  None      \* no agent, no user, no session

ASSUME LoginAssumption ==
  /\ None \notin Agent /\ None \notin User /\ None \notin Session
  /\ Agent \cap Session = {} /\ Agent # {} /\ User # {}
  /\ BanAgent \subseteq Agent
  /\ MaxFault \in Nat

VARIABLES
  users,        \* Implementation::users of every agent
  connections,  \* Implementation::connections: the session of each user
  sess,         \* the sessions
  fib,          \* the fiber of every session, and of every agent's timer
  todo,         \* the users that the check_user timer has still to publish
  redis,        \* the agent of each user in Redis, or None
  row,          \* the user's row in MySQL: whether it is banned until later
  ban,          \* the user that each agent is banning, or None
  late,         \* history: the sessions that were opened under a ban that has
                \* not ended since
  faults        \* lost kicks and failed commands so far

database == <<row, ban, late>>
vars == <<users, connections, sess, fib, todo, redis, database, faults>>

(* A session's fiber, or the check_user timer of an agent.                 *)
Thread == Session \cup Agent

Sess == [agent : Agent \cup {None}, user : User \cup {None},
         state : {"new", "open", "shut", "gone"}]

(* user is being published; old is the agent that SET ... GET has found.   *)
Pcs == {"idle", "prepare", "select", "set", "kick", "insert", "welcome",
        "ready", "closing"}
FiberState == [pc : Pcs, agent : Agent \cup {None}, user : User \cup {None},
               old : Agent \cup {None}]

(* The type invariant: a kick has an agent to go to.                       *)
TypeOK ==
  /\ users \in [Agent -> SUBSET User]
  /\ connections \in [Agent -> [User -> Session \cup {None}]]
  /\ sess \in [Session -> Sess]
  /\ fib \in [Thread -> FiberState]
  /\ \A f \in Thread : fib[f].pc = "kick" => fib[f].old \in Agent
  /\ todo \in [Agent -> SUBSET User]
  /\ redis \in [User -> Agent \cup {None}]
  /\ row \in [User -> {"none", "free", "banned"}]
  /\ ban \in [BanAgent -> User \cup {None}]
  /\ late \subseteq Session
  /\ faults \in Nat

Idle == [pc |-> "idle", agent |-> None, user |-> None, old |-> None]

Init ==
  /\ users = [a \in Agent |-> {}]
  /\ connections = [a \in Agent |-> [u \in User |-> None]]
  /\ sess = [s \in Session |-> [agent |-> None, user |-> None,
                                state |-> "new"]]
  /\ fib = [f \in Thread |-> Idle]
  /\ todo = [a \in Agent |-> {}]
  /\ redis = [u \in User |-> None]
  /\ row = [u \in User |-> "none"]
  /\ ban = [a \in BanAgent |-> None]
  /\ late = {}
  /\ faults = 0

Goto(f, pc) == fib' = [fib EXCEPT ![f] = [Idle EXCEPT !.pc = pc]]

(* ws_shut_down(): of no effect on a session that is ending.               *)
ShutDown(S) ==
  sess' = [s \in Session |->
             IF s \in S /\ sess[s].state = "open"
             THEN [sess[s] EXCEPT !.state = "shut"] ELSE sess[s]]

(* weak_session.lock()                                                     *)
Locked(s) == IF s # None /\ sess[s].state # "gone" THEN {s} ELSE {}

(***************************************************************************)
(* do_publish_user_on_redis, in the fiber of a session or of a timer.      *)
(***************************************************************************)
Publish(f, a, u) ==
  fib' = [fib EXCEPT ![f] = [Idle EXCEPT !.pc = "set", !.agent = a,
                                         !.user = u]]

(* The user was on another agent.                                          *)
NeverElsewhere(old, a) == FALSE
IsDifferent(old, a)    == old # a
IsElsewhere(old, a)    == old \notin {None, a}

(* SET ... GET: what is done with the answer depends on nothing else.      *)
Published(f) ==
  LET u   == fib[f].user
      old == redis[u]
  IN
  /\ fib[f].pc = "set"
  /\ redis' = [redis EXCEPT ![u] = fib[f].agent]
  /\ IF IsElsewhere(old, fib[f].agent)
     THEN fib' = [fib EXCEPT ![f].pc = "kick", ![f].old = old]
     ELSE Goto(f, "insert")
  /\ UNCHANGED <<users, connections, sess, todo, faults, database>>

(* The command fails, executed or not.  The exception ends the event of    *)
(* the session, which is then shut down, or the callback of the timer with *)
(* what it had left to do.                                                 *)
PublishFails(f) ==
  LET u == fib[f].user IN
  /\ fib[f].pc = "set" /\ faults < MaxFault
  /\ faults' = faults + 1
  /\ redis' \in {redis, [redis EXCEPT ![u] = fib[f].agent]}
  /\ Goto(f, IF f \in Session THEN "ready" ELSE "idle")
  /\ ShutDown({f} \cap Session)
  /\ todo' = [a \in Agent |-> IF a = f THEN {} ELSE todo[a]]
  /\ UNCHANGED <<users, connections, database>>

(* agent/user/kick on the other agent: nobody may be there.                *)
Kick(f) ==
  /\ fib[f].pc = "kick"
  /\ ShutDown(Locked(connections[fib[f].old][fib[f].user]))
  /\ Goto(f, "insert")
  /\ UNCHANGED <<users, connections, todo, redis, faults, database>>

(* This agent does not know the service of the other agent, so that no     *)
(* request is made, or the request is lost: the reply is not looked at.    *)
KickLost(f) ==
  /\ fib[f].pc = "kick" /\ faults < MaxFault
  /\ faults' = faults + 1
  /\ Goto(f, "insert")
  /\ UNCHANGED <<users, connections, sess, todo, redis, database>>

(***************************************************************************)
(* A client connects.                                                      *)
(***************************************************************************)
Open(s, a, u) ==
  /\ sess[s].state = "new"
  /\ sess' = [sess EXCEPT ![s] = [agent |-> a, user |-> u, state |-> "open"]]
  /\ late' = IF row[u] = "banned" THEN late \cup {s} ELSE late
  /\ Goto(s, "prepare")
  /\ UNCHANGED <<users, connections, todo, redis, faults, row, ban>>

(* The tables have not been checked, the client is not authenticated, a    *)
(* service is missing, or a ban has ended after the client had connected.  *)
Refused(s) ==
  /\ fib[s].pc \in {"prepare", "select"}
  /\ ShutDown({s})
  /\ Goto(s, "ready")
  /\ UNCHANGED <<users, connections, todo, redis, faults, database>>

(* INSERT INTO ... ON DUPLICATE KEY UPDATE leaves a ban alone.             *)
BanReset(r) == "free"
Upsert(r)   == IF r = "none" THEN "free" ELSE r

RowInserted(s) ==
  LET u == sess[s].user IN
  /\ fib[s].pc = "prepare"
  /\ row' = [row EXCEPT ![u] = Upsert(@)]
  /\ Goto(s, "select")
  /\ UNCHANGED <<users, connections, sess, todo, redis, faults, ban, late>>

(* login_time < banned_until; the roles are listed before it is published. *)
Selected(s) ==
  /\ fib[s].pc = "select"
  /\ IF row[sess[s].user] = "banned"
     THEN ShutDown({s}) /\ Goto(s, "ready")
     ELSE UNCHANGED sess /\ Publish(s, sess[s].agent, sess[s].user)
  /\ UNCHANGED <<users, connections, todo, redis, faults, database>>

(* The new session takes the place of one on the same agent.               *)
Connect(s) ==
  LET a == sess[s].agent
      u == sess[s].user
  IN
  /\ s \in Session /\ fib[s].pc = "insert"
  /\ ShutDown(Locked(connections[a][u]))
  /\ users' = [users EXCEPT ![a] = @ \cup {u}]
  /\ connections' = [connections EXCEPT ![a][u] = s]
  /\ Goto(s, "welcome")
  /\ UNCHANGED <<todo, redis, faults, database>>

(* do_welcome_client yields, and fails if the connection is gone by then.  *)
Welcomed(s) ==
  /\ fib[s].pc = "welcome"
  /\ ShutDown(IF connections[sess[s].agent][sess[s].user] = None THEN {s}
                                                                 ELSE {})
  /\ Goto(s, "ready")
  /\ UNCHANGED <<users, connections, todo, redis, faults, database>>

(***************************************************************************)
(* A connection ends.                                                      *)
(***************************************************************************)
ClientCloses(s) ==
  /\ sess[s].state = "open"
  /\ ShutDown({s})
  /\ UNCHANGED <<users, connections, fib, todo, redis, faults, database>>

(* do_get_username finds the user of this session only while the           *)
(* connection is still that of this session.                               *)
IsNever(s)    == FALSE
IsSomeones(s) == connections[sess[s].agent][sess[s].user] # None
IsMine(s)     == connections[sess[s].agent][sess[s].user] = s

Close(s) ==
  /\ sess[s].state = "shut" /\ fib[s].pc = "ready"
  /\ IF IsMine(s)
     THEN connections' = [connections EXCEPT
                            ![sess[s].agent][sess[s].user] = None]
     ELSE UNCHANGED connections
  /\ Goto(s, "closing")
  /\ UNCHANGED <<users, sess, todo, redis, faults, database>>

(* The logic server and MySQL have been told.                              *)
Closed(s) ==
  /\ fib[s].pc = "closing"
  /\ Goto(s, "idle")
  /\ sess' = [sess EXCEPT ![s].state = "gone"]
  /\ late' = late \ {s}
  /\ UNCHANGED <<users, connections, todo, redis, faults, row, ban>>

(***************************************************************************)
(* The timers of an agent.                                                 *)
(***************************************************************************)
(* do_ping_timer_callback: clients that have been silent for too long are  *)
(* disconnected and forgotten, as are connections without a session.       *)
NoSession(a, u) ==
  connections[a][u] # None /\ Locked(connections[a][u]) = {}

PingTimer(a) ==
  \E silent \in SUBSET {u \in User : Locked(connections[a][u]) # {}} :
    LET expired == silent \cup {u \in User : NoSession(a, u)} IN
    /\ expired # {}
    /\ ShutDown({connections[a][u] : u \in silent})
    /\ users' = [users EXCEPT ![a] = @ \ expired]
    /\ connections' = [connections EXCEPT ![a] =
                         [u \in User |-> IF u \in expired THEN None ELSE @[u]]]
    /\ UNCHANGED <<fib, todo, redis, faults, database>>

(* do_check_user_timer_callback publishes every user again.                *)
CheckStart(a) ==
  /\ fib[a].pc = "idle" /\ users[a] # {}
  /\ todo' = [todo EXCEPT ![a] = users[a]]
  /\ Goto(a, "ready")
  /\ UNCHANGED <<users, connections, sess, redis, faults, database>>

CheckUser(a, u) ==
  /\ fib[a].pc = "ready" /\ u \in todo[a]
  /\ todo' = [todo EXCEPT ![a] = @ \ {u}]
  /\ IF u \in users[a] THEN Publish(a, a, u) ELSE UNCHANGED fib
  /\ UNCHANGED <<users, connections, sess, redis, faults, database>>

CheckNext(a) ==
  /\ a \in Agent /\ fib[a].pc = "insert"
  /\ Goto(a, "ready")
  /\ UNCHANGED <<users, connections, sess, todo, redis, faults, database>>

CheckEnd(a) ==
  /\ fib[a].pc = "ready" /\ todo[a] = {}
  /\ Goto(a, "idle")
  /\ UNCHANGED <<users, connections, sess, todo, redis, faults, database>>

(* The record in Redis expires when no agent publishes it again.           *)
Expire(u) ==
  /\ redis[u] # None /\ \A a \in Agent : u \notin users[a]
  /\ redis' = [redis EXCEPT ![u] = None]
  /\ UNCHANGED <<users, connections, sess, fib, todo, faults, database>>

(***************************************************************************)
(* user/ban/set and user/ban/lift.                                         *)
(***************************************************************************)
(* A user that has never been there is not found.                          *)
BanSet(a, u) ==
  /\ ban[a] = None /\ row[u] # "none"
  /\ row' = [row EXCEPT ![u] = "banned"]
  /\ ban' = [ban EXCEPT ![a] = u]
  /\ UNCHANGED <<users, connections, sess, fib, todo, redis, faults, late>>

(* The user is kicked from the agent that has been sent the request.       *)
BanKick(a) ==
  /\ ban[a] # None
  /\ ShutDown(Locked(connections[a][ban[a]]))
  /\ ban' = [ban EXCEPT ![a] = None]
  /\ UNCHANGED <<users, connections, fib, todo, redis, faults, row, late>>

(* The ban is lifted, or the time until when it is in effect has come.     *)
BanEnds(u) ==
  /\ row[u] = "banned"
  /\ row' = [row EXCEPT ![u] = "free"]
  /\ late' = {s \in late : sess[s].user # u}
  /\ UNCHANGED <<users, connections, sess, fib, todo, redis, faults, ban>>

Handler(s) ==
  \/ Refused(s) \/ RowInserted(s) \/ Selected(s) \/ Connect(s)
  \/ Welcomed(s) \/ Close(s) \/ Closed(s)

Timer(a) ==
  \/ CheckStart(a) \/ CheckNext(a) \/ CheckEnd(a)
  \/ \E u \in User : CheckUser(a, u)

Next ==
  \/ \E s \in Session : \/ \E a \in Agent, u \in User : Open(s, a, u)
                        \/ Handler(s) \/ ClientCloses(s)
  \/ \E f \in Thread : \/ Published(f) \/ Kick(f)
                       \/ PublishFails(f) \/ KickLost(f)
  \/ \E a \in Agent : Timer(a) \/ PingTimer(a)
  \/ \E u \in User : Expire(u) \/ BanEnds(u)
  \/ \E a \in BanAgent : BanKick(a) \/ \E u \in User : BanSet(a, u)

Spec == Init /\ [][Next]_vars

(* Fibers are resumed, Redis and other agents answer, the timer ticks: a   *)
(* fiber that has something to do does it.                                 *)
Fiber(f) ==
  \/ Published(f) \/ Kick(f)
  \/ f \in Session /\ Handler(f)
  \/ f \in Agent /\ Timer(f)

FairSpec == Spec /\ \A f \in Thread : WF_vars(Fiber(f))

(***************************************************************************)
(* Properties.                                                             *)
(***************************************************************************)
Serves(a, u) ==
  connections[a][u] # None /\ sess[connections[a][u]].state = "open"

(* "Ensure they can only log in on a single instance": whatever races      *)
(* between logins, kicks and timers, and although a kick may be lost or    *)
(* not be sent, in the end at most one agent serves a user.  (The timers   *)
(* publish the user again and again.  That one of the agents keeps the     *)
(* user is not said: both may lose it to each other's stale `users`.)      *)
OneInstance ==
  \A u \in User :
    <>[](\A a, b \in Agent : Serves(a, u) /\ Serves(b, u) => a = b)

(* A connection is not dropped without telling the client: its session is  *)
(* ended by whatever makes the agent forget it (a new session of the user, *)
(* the ping timer, its own close event but no other session's).            *)
NeverDroppedSilently ==
  [][\A a \in Agent, u \in User :
       connections[a][u] # None /\ connections'[a][u] # connections[a][u] =>
         sess'[connections[a][u]].state # "open"]_connections

(* No connection refers to a session that has gone, nor to one of another  *)
(* agent or user, although a session may end while it is being opened.     *)
NoDeadConnection ==
  \A a \in Agent, u \in User :
    LET s == connections[a][u] IN
    s # None => sess[s].state # "gone" /\ sess[s].agent = a /\ sess[s].user = u

(* A user that is banned is not let in: whatever other sessions of the     *)
(* user, timers and other agents do, a session that was opened under a ban *)
(* is never in `connections` before the ban has ended.                     *)
BannedStaysOut ==
  \A a \in Agent, u \in User : connections[a][u] \notin late

=============================================================================
