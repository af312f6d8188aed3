------------------------------ MODULE LogicRole ------------------------------
(***************************************************************************)
(* The role service of a logic process (k32/logic/static): the roles that  *)
(* are online, each an object that is loaded from Redis at login, saved to *)
(* Redis from a timer, and stored and dropped at logout.                   *)
(*                                                                         *)
(* Requests run in fibers, the save timer in one more.  A fiber runs alone *)
(* between two yields, so that the code between two yields is one action.  *)
(* Storing a role yields while the map of online roles still holds it, and *)
(* a fiber goes on with its own copy of the pair (record, role object):    *)
(* the object is shared by all copies, which is why objects have an        *)
(* identity here.                                                          *)
(*                                                                         *)
(* The contents of a role are a version, a new one for every change.       *)
(***************************************************************************)
EXTENDS Naturals, FiniteSets

CONSTANTS
  Roid,        \* role identifiers
  User,        \* users
  UserOf,      \* the owner of each role
  Agent,       \* agent processes, which hold the connections of clients
  Fiber,       \* fibers that handle requests
  Timer,       \* the fiber of the save timer
  Obj,         \* bound: Role objects (one that is not referred to is reused)
  Ops,         \* the requests that agents send in this instance
  MaxVersion,  \* bound: changes of one role
  MaxFault,    \* bound: failed commands and crashes
  None         \* no agent, no object, no value

AllOps == {"login", "logout", "reconnect", "disconnect"}

ASSUME LogicAssumption ==
  /\ Roid # {} /\ UserOf \in [Roid -> User]
  /\ Timer \notin Fiber
  /\ Ops \subseteq AllOps
  /\ MaxVersion \in Nat /\ MaxFault \in Nat
  /\ None \notin Agent /\ None \notin Obj /\ None \notin Nat

VARIABLES
  hyd_roles,    \* Implementation::hyd_roles: the object of each online role
  obj,          \* the objects
  fib,          \* the state of every fiber
  asked,        \* the roles that each agent is asked about by the timer
  down,         \* the agent that has not answered, and its roles to store
  save_buckets, \* roles still to be written in this round
  bucket,       \* the rest of the bucket the timer is working on
  redis,        \* the version in Redis, or None
  clock,        \* the number of changes of each role so far
  faults        \* the number of failed commands and crashes so far

timer == <<asked, down, save_buckets, bucket>>
vars  == <<hyd_roles, obj, fib, timer, redis, clock, faults>>

Thread  == Fiber \cup {Timer}
Version == Nat \cup {None}

(* agent is mf_agent_srv; dc tells how long ago mf_dc_since is, at the     *)
(* `now` of the timer ("no" is steady_time::max()).                        *)
Role == [ver : Nat, agent : Agent \cup {None}, dc : {"no", "recent", "long"}]

(* op is what the fiber does: a request, or what the timer does with a     *)
(* role; data is the serialized record that "set" writes.                  *)
TimerOps == {"save", "expire", "down"}
Busy     == {"getex", "set", "flush"}
Status   == {"none", "gs_ok", "gs_role_not_loaded", "gs_role_not_logged_in",
             "gs_reconnect_noop", "exception"}
FiberState ==
  [op : AllOps \cup TimerOps \cup {"none"}, roid : Roid,
   agent : Agent \cup {None}, obj : Obj \cup {None}, data : Version,
   pc : Busy \cup {"idle", "replied", "check", "next"}, done : BOOLEAN,
   status : Status]

TypeOK ==
  /\ hyd_roles \in [Roid -> Obj \cup {None}]
  /\ obj \in [Obj -> Role]
  /\ fib \in [Thread -> FiberState]
  /\ asked \in [Agent -> SUBSET Roid]
  /\ down \in [agent : Agent \cup {None}, roles : SUBSET Roid]
  /\ save_buckets \subseteq Roid /\ bucket \subseteq Roid
  /\ redis \in [Roid -> Version]
  /\ clock \in [Roid -> Nat]
  /\ faults \in Nat

NewRole == [ver |-> 0, agent |-> None, dc |-> "no"]
Idle    == [op |-> "none", roid |-> CHOOSE r \in Roid : TRUE, agent |-> None,
            obj |-> None, data |-> None, pc |-> "idle", done |-> FALSE,
            status |-> "none"]
NotDown == [agent |-> None, roles |-> {}]

Init ==
  /\ hyd_roles = [r \in Roid |-> None]
  /\ obj = [o \in Obj |-> NewRole]
  /\ fib = [f \in Thread |-> Idle]
  /\ asked = [a \in Agent |-> {}] /\ down = NotDown
  /\ save_buckets = {} /\ bucket = {}
  /\ redis = [r \in Roid |-> None]
  /\ clock = [r \in Roid |-> 0]
  /\ faults = 0

(***************************************************************************)
(* Role objects.                                                           *)
(***************************************************************************)
Online(r)  == hyd_roles[r] # None
RoleOf(r)  == obj[hyd_roles[r]]
Referenced == {hyd_roles[r] : r \in Roid} \cup {fib[f].obj : f \in Thread}
FreshObj   == CHOOSE o \in Obj \ Referenced : TRUE

ConnectedStillAway(role, a) == [role EXCEPT !.agent = a]
Connected(role, a) == [role EXCEPT !.agent = a, !.dc = "no"]
Disconnected(role) == [role EXCEPT !.agent = None, !.dc = "recent"]

(* find_and_assign: only a role that is still in the map is replaced.      *)
Assign(r, o) ==
  hyd_roles' = [hyd_roles EXCEPT ![r] = IF @ = None THEN None ELSE o]
Erase(r) == hyd_roles' = [hyd_roles EXCEPT ![r] = None]

(***************************************************************************)
(* How a fiber moves.                                                      *)
(***************************************************************************)
Begin(f, op) == op \in Ops /\ f \in Fiber /\ fib[f].pc = "idle"

Answer(f, op, r, status) ==
  fib' = [fib EXCEPT ![f] = [Idle EXCEPT !.op = op, !.roid = r,
                                         !.pc = "replied", !.status = status]]

(* do_store_role_into_redis: serializes the object and yields on SET.      *)
Store(f, op, r, a, o, role) ==
  fib' = [fib EXCEPT ![f] = [Idle EXCEPT !.op = op, !.roid = r, !.agent = a,
                                         !.obj = o, !.data = role.ver,
                                         !.pc = "set"]]

Goto(f, pc) == fib' = [fib EXCEPT ![f] = [@ EXCEPT !.pc = pc, !.obj = None,
                                                   !.data = None,
                                                   !.done = FALSE]]
Resumed(f, pc) == fib[f].pc = pc /\ fib[f].done

Reply(f, status) ==
  fib' = [fib EXCEPT ![f] = [@ EXCEPT !.pc = "replied", !.status = status,
                                      !.obj = None, !.data = None,
                                      !.done = FALSE]]

(* The Redis server executes GETEX or SET at some moment of the yield.     *)
RedisExec(f) ==
  LET r == fib[f].roid IN
  /\ ~fib[f].done
  /\ \/ /\ fib[f].pc = "getex"
        /\ fib' = [fib EXCEPT ![f] = [@ EXCEPT !.done = TRUE,
                                               !.data = redis[r]]]
        /\ UNCHANGED redis
     \/ /\ fib[f].pc = "set"
        /\ fib' = [fib EXCEPT ![f] = [@ EXCEPT !.done = TRUE]]
        /\ redis' = [redis EXCEPT ![r] = fib[f].data]
  /\ UNCHANGED <<hyd_roles, obj, timer, clock, faults>>

(***************************************************************************)
(* logic/role/login.                                                       *)
(***************************************************************************)
(* The role goes to its agent, on_connect() is called, and it is stored.   *)
Connect(f, r, a, o, role) ==
  /\ obj' = [obj EXCEPT ![o] = Connected(role, a)]
  /\ Store(f, "login", r, a, o, role)

LoginOnline(f, r, a) ==
  /\ Begin(f, "login") /\ Online(r)
  /\ Connect(f, r, a, hyd_roles[r], RoleOf(r))
  /\ UNCHANGED <<hyd_roles, timer, redis, clock, faults>>

LoginLoad(f, r, a) ==
  /\ Begin(f, "login") /\ ~Online(r)
  /\ fib' = [fib EXCEPT ![f] = [Idle EXCEPT !.op = "login", !.roid = r,
                                            !.agent = a, !.pc = "getex"]]
  /\ UNCHANGED <<hyd_roles, obj, timer, redis, clock, faults>>

NeverNotLoaded(f) == FALSE
NotLoaded(f) == fib[f].data = None

LoginNotLoaded(f) ==
  /\ Resumed(f, "getex") /\ NotLoaded(f)
  /\ Reply(f, "gs_role_not_loaded")
  /\ UNCHANGED <<hyd_roles, obj, timer, redis, clock, faults>>

(* try_emplace: another login may have put the role into the map while     *)
(* this one was waiting for Redis.                                         *)
NoConflict(r) == FALSE
LoadConflict(r) == Online(r)

LoginConflict(f) ==
  LET r == fib[f].roid IN
  /\ Resumed(f, "getex") /\ ~NotLoaded(f) /\ LoadConflict(r)
  /\ Connect(f, r, fib[f].agent, hyd_roles[r], RoleOf(r))
  /\ UNCHANGED <<hyd_roles, timer, redis, clock, faults>>

LoginLoaded(f) ==
  LET r == fib[f].roid IN
  /\ Resumed(f, "getex") /\ ~NotLoaded(f) /\ ~LoadConflict(r)
  /\ Obj \ Referenced # {}
  /\ Connect(f, r, fib[f].agent, FreshObj,
             [NewRole EXCEPT !.ver = fib[f].data])
  /\ hyd_roles' = [hyd_roles EXCEPT ![r] = FreshObj]
  /\ UNCHANGED <<timer, redis, clock, faults>>

(***************************************************************************)
(* logic/role/logout, reconnect and disconnect.                            *)
(***************************************************************************)
Logout(f, r) ==
  LET role == Disconnected(RoleOf(r)) IN
  /\ Begin(f, "logout") /\ Online(r)
  /\ obj' = [obj EXCEPT ![hyd_roles[r]] = role]
  /\ Store(f, "logout", r, None, hyd_roles[r], role)
  /\ UNCHANGED <<hyd_roles, timer, redis, clock, faults>>

(* The roles of one user are asked for, and the last one that is online    *)
(* gets the connection.                                                    *)
Reconnect(f, r, a) ==
  /\ Begin(f, "reconnect") /\ Online(r)
  /\ obj' = [obj EXCEPT ![hyd_roles[r]] = Connected(@, a)]
  /\ Answer(f, "reconnect", r, "gs_ok")
  /\ UNCHANGED <<hyd_roles, timer, redis, clock, faults>>

Disconnect(f, r) ==
  /\ Begin(f, "disconnect") /\ Online(r)
  /\ obj' = [obj EXCEPT ![hyd_roles[r]] = Disconnected(@)]
  /\ Answer(f, "disconnect", r, "gs_ok")
  /\ UNCHANGED <<hyd_roles, timer, redis, clock, faults>>

NotLoggedIn(f, op, r) ==
  /\ op \in {"logout", "disconnect", "reconnect"}
  /\ Begin(f, op) /\ ~Online(r)
  /\ Answer(f, op, r, IF op = "reconnect" THEN "gs_reconnect_noop"
                                         ELSE "gs_role_not_logged_in")
  /\ UNCHANGED <<hyd_roles, obj, timer, redis, clock, faults>>

(***************************************************************************)
(* After a role has been stored: requests, and the timer, drop it from the *)
(* map or put their copy back, and have the monitor flush it.              *)
(***************************************************************************)
Drops(op)   == op \in {"logout", "expire"}
Flushes(op) == op # "save"

Stored(f) ==
  LET r == fib[f].roid
      op == fib[f].op
  IN
  /\ Resumed(f, "set")
  /\ IF Drops(op) THEN Erase(r) ELSE Assign(r, fib[f].obj)
  /\ IF Flushes(op) THEN Goto(f, "flush") ELSE Goto(f, "next")
  /\ UNCHANGED <<obj, timer, redis, clock, faults>>

(* The monitor has answered the flush, whatever it says.                   *)
Flushed(f) ==
  /\ fib[f].pc = "flush"
  /\ IF f = Timer
     THEN Goto(f, IF fib[f].op = "down" THEN "check" ELSE "next")
     ELSE Reply(f, "gs_ok")
  /\ UNCHANGED <<hyd_roles, obj, timer, redis, clock, faults>>

Finish(f) ==
  /\ f \in Fiber /\ fib[f].pc = "replied"
  /\ fib' = [fib EXCEPT ![f] = Idle]
  /\ UNCHANGED <<hyd_roles, obj, timer, redis, clock, faults>>

(***************************************************************************)
(* The save timer.  First it asks every agent whether the users whose      *)
(* roles are there are still connected and play these roles.               *)
(***************************************************************************)
OnAgent(a) == {r \in Roid : Online(r) /\ RoleOf(r).agent = a}

(* One role of each user.                                                  *)
OfEachUser(S, R) ==
  /\ S \subseteq R
  /\ \A r \in R : \E q \in S : UserOf[q] = UserOf[r]
  /\ \A q, r \in S : UserOf[q] = UserOf[r] => q = r

TimerStart ==
  /\ fib[Timer].pc = "idle"
  /\ asked' \in [Agent -> SUBSET Roid]
  /\ \A a \in Agent : OfEachUser(asked'[a], OnAgent(a))
  /\ Goto(Timer, "check")
  /\ UNCHANGED <<hyd_roles, obj, down, save_buckets, bucket, redis, clock,
                 faults>>

(* A role has not been given to another agent since the agent was asked.   *)
StillOn(r, a) == Online(r) /\ RoleOf(r).agent = a

(* The agent has answered which of the roles are still played.             *)
CheckAnswer(a) ==
  /\ fib[Timer].pc = "check" /\ down = NotDown /\ asked[a] # {}
  /\ \E gone \in SUBSET asked[a] :
       LET lost == {hyd_roles[r] : r \in {r \in gone : StillOn(r, a)}} IN
       obj' = [o \in Obj |-> IF o \in lost THEN Disconnected(obj[o])
                                           ELSE obj[o]]
  /\ asked' = [asked EXCEPT ![a] = {}]
  /\ UNCHANGED <<hyd_roles, fib, down, save_buckets, bucket, redis, clock,
                 faults>>

(* The agent is down: its roles are disconnected, and stored one by one.   *)
CheckDown(a) ==
  /\ fib[Timer].pc = "check" /\ down = NotDown /\ asked[a] # {}
  /\ down' = [agent |-> a, roles |-> asked[a]]
  /\ asked' = [asked EXCEPT ![a] = {}]
  /\ UNCHANGED <<hyd_roles, obj, fib, save_buckets, bucket, redis, clock,
                 faults>>

StoreDown(r) ==
  LET role == Disconnected(RoleOf(r)) IN
  /\ fib[Timer].pc = "check" /\ r \in down.roles /\ StillOn(r, down.agent)
  /\ down' = [down EXCEPT !.roles = @ \ {r}]
  /\ obj' = [obj EXCEPT ![hyd_roles[r]] = role]
  /\ Store(Timer, "down", r, None, hyd_roles[r], role)
  /\ UNCHANGED <<hyd_roles, asked, save_buckets, bucket, redis, clock, faults>>

CheckNoMore ==
  /\ fib[Timer].pc = "check" /\ down # NotDown
  /\ \A r \in down.roles : ~StillOn(r, down.agent)
  /\ down' = NotDown
  /\ UNCHANGED <<hyd_roles, obj, fib, asked, save_buckets, bucket, redis,
                 clock, faults>>

(* Then one bucket of online roles is saved; a role that has been          *)
(* disconnected for too long is logged out.  An empty bucket is popped     *)
(* without effect unless there is nothing else to pop.                     *)
NothingNew == save_buckets
Round == IF save_buckets = {} THEN {r \in Roid : Online(r)} ELSE save_buckets

CheckEnd ==
  /\ fib[Timer].pc = "check" /\ down = NotDown
  /\ \A a \in Agent : asked[a] = {}
  /\ \E b \in SUBSET Round :
       /\ b = {} => Round = {}
       /\ bucket' = b /\ save_buckets' = Round \ b
  /\ Goto(Timer, "next")
  /\ UNCHANGED <<hyd_roles, obj, asked, down, redis, clock, faults>>

NeverTooLong(role) == FALSE
ForTooLong(role) == role.dc = "long"

(* The role is stored, which yields, and then erased or put back (Stored). *)
(* on_logout(), called before the yield here and in Logout, is a hook of   *)
(* the role that changes nothing of this module.                           *)
SaveRole(r) ==
  /\ fib[Timer].pc = "next" /\ r \in bucket /\ Online(r)
  /\ bucket' = bucket \ {r}
  /\ Store(Timer, IF ForTooLong(RoleOf(r)) THEN "expire" ELSE "save",
           r, None, hyd_roles[r], RoleOf(r))
  /\ UNCHANGED <<hyd_roles, obj, asked, down, save_buckets, redis, clock,
                 faults>>

SkipRole(r) ==
  /\ fib[Timer].pc = "next" /\ r \in bucket /\ ~Online(r)
  /\ bucket' = bucket \ {r}
  /\ UNCHANGED <<hyd_roles, obj, fib, asked, down, save_buckets, redis, clock,
                 faults>>

SaveEnd ==
  /\ fib[Timer].pc = "next" /\ bucket = {}
  /\ fib' = [fib EXCEPT ![Timer] = Idle]
  /\ UNCHANGED <<hyd_roles, obj, timer, redis, clock, faults>>

(***************************************************************************)
(* The process and what is around it.                                      *)
(***************************************************************************)
(* A client request or a clock tick changes the role.                      *)
Play(r) ==
  /\ Online(r) /\ clock[r] < MaxVersion
  /\ clock' = [clock EXCEPT ![r] = @ + 1]
  /\ obj' = [obj EXCEPT ![hyd_roles[r]] = [@ EXCEPT !.ver = clock[r] + 1]]
  /\ UNCHANGED <<hyd_roles, fib, timer, redis, faults>>

(* disconnect_to_logout_duration passes.  The timer compares with the time *)
(* at which its callback began.                                            *)
Age(r) ==
  /\ fib[Timer].pc = "idle" /\ Online(r) /\ RoleOf(r).dc = "recent"
  /\ obj' = [obj EXCEPT ![hyd_roles[r]] = [@ EXCEPT !.dc = "long"]]
  /\ UNCHANGED <<hyd_roles, fib, timer, redis, clock, faults>>

MonitorLoad(r) ==
  /\ redis[r] = None
  /\ redis' = [redis EXCEPT ![r] = 0]
  /\ UNCHANGED <<hyd_roles, obj, fib, timer, clock, faults>>

(* A Redis command fails, executed or not: the exception ends the handler, *)
(* or the timer callback with what it had left to do.                      *)
DbError(f) ==
  /\ fib[f].pc \in {"getex", "set"} /\ faults < MaxFault
  /\ faults' = faults + 1
  /\ IF f = Timer
     THEN /\ fib' = [fib EXCEPT ![f] = Idle]
          /\ asked' = [a \in Agent |-> {}] /\ down' = NotDown /\ bucket' = {}
     ELSE /\ Reply(f, "exception")
          /\ UNCHANGED <<asked, down, bucket>>
  /\ UNCHANGED <<hyd_roles, obj, save_buckets, redis, clock>>

Crash ==
  /\ faults < MaxFault
  /\ faults' = faults + 1
  /\ hyd_roles' = [r \in Roid |-> None]
  /\ obj' = [o \in Obj |-> NewRole]
  /\ fib' = [f \in Thread |-> Idle]
  /\ asked' = [a \in Agent |-> {}] /\ down' = NotDown
  /\ save_buckets' = {} /\ bucket' = {}
  /\ UNCHANGED <<redis, clock>>

Request ==
  \E f \in Fiber, r \in Roid :
    \/ \E a \in Agent : \/ LoginOnline(f, r, a) \/ LoginLoad(f, r, a)
                        \/ Reconnect(f, r, a)
    \/ Logout(f, r) \/ Disconnect(f, r)
    \/ \E op \in Ops : NotLoggedIn(f, op, r)

Handler(f) ==
  \/ LoginNotLoaded(f) \/ LoginConflict(f) \/ LoginLoaded(f)
  \/ Stored(f) \/ Flushed(f) \/ Finish(f)

TimerStep ==
  \/ TimerStart \/ CheckNoMore \/ CheckEnd \/ SaveEnd
  \/ \E a \in Agent : CheckAnswer(a) \/ CheckDown(a)
  \/ \E r \in Roid : StoreDown(r) \/ SaveRole(r) \/ SkipRole(r)

Next ==
  \/ Request
  \/ \E f \in Thread : RedisExec(f) \/ Handler(f) \/ DbError(f)
  \/ TimerStep
  \/ \E r \in Roid : Play(r) \/ Age(r) \/ MonitorLoad(r)
  \/ Crash

Spec == Init /\ [][Next]_vars

(* Redis and the monitors answer, fibers are resumed, the timer ticks and  *)
(* time passes (SF, because a callback that is running does not see it but *)
(* the next one does).  An agent answers or is found to be down.           *)
Fairness ==
  /\ \A f \in Thread : WF_vars(RedisExec(f)) /\ WF_vars(Handler(f))
  /\ WF_vars(TimerStep)
  /\ \A r \in Roid : SF_vars(Age(r))

FairSpec == Spec /\ Fairness

(* The inductive fact behind DecidesOnAway: whoever clears mf_agent_srv     *)
(* sets mf_dc_since, and whoever sets it clears mf_dc_since.                *)
AwayHasNoAgent == \A o \in Obj : obj[o].dc # "no" => obj[o].agent = None

(***************************************************************************)
(* Properties.                                                             *)
(***************************************************************************)
(* When the timer decides to log a role out for having been away too long, *)
(* the role is away: mf_agent_srv and mf_dc_since never disagree, whatever *)
(* mixture of requests, agents' answers and timer steps has set them.      *)
(* This is about the decision only.  The timer then yields to store the    *)
(* role, which may get an agent meanwhile and is erased all the same.      *)
DecidesOnAway ==
  [][fib[Timer].pc = "next" /\ fib'[Timer].pc = "set"
       /\ fib'[Timer].op = "expire" =>
         obj[fib'[Timer].obj].agent = None]_fib

(* Of several concurrent logins of one role only one makes an object: an   *)
(* object just made never takes the place of the one that is online.       *)
LoginKeepsOnline ==
  [][\A r \in Roid : hyd_roles[r] # None /\ hyd_roles'[r] # hyd_roles[r] =>
       hyd_roles'[r] \in Referenced \cup {None}]_hyd_roles

(* Every change of a role reaches Redis, if the object stays online: the   *)
(* timer saves it although callbacks are cut short by failed commands.     *)
SavedEventually ==
  \A r \in Roid, o \in Obj, v \in 1..MaxVersion :
    (hyd_roles[r] = o /\ obj[o].ver = v) ~>
      (hyd_roles[r] # o \/ (redis[r] # None /\ redis[r] >= v))

(* A role whose client does not come back leaves the process, when agents  *)
(* stop sending requests about it (a disconnect begins the wait anew).     *)
AwayIsLoggedOut ==
  <>[](\A f \in Fiber : fib[f].pc = "idle") =>
    \A r \in Roid : (Online(r) /\ RoleOf(r).agent = None) ~>
                      (~Online(r) \/ RoleOf(r).agent # None)

=============================================================================
