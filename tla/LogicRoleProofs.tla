--------------------------- MODULE LogicRoleProofs ---------------------------
(* What holds of LogicRole for every set of roles, agents, fibers and      *)
(* objects, and for every bound.                                           *)
EXTENDS LogicRole, TLAPS

(***************************************************************************)
(* How one fiber's state changes while all others stay as they are.        *)
(***************************************************************************)
LEMMA IdleType == Idle \in FiberState
<1>1. (CHOOSE r \in Roid : TRUE) \in Roid
  BY LogicAssumption
<1> QED
  BY <1>1 DEF Idle, FiberState, Version, Status

LEMMA RoleType ==
  ASSUME TypeOK, NEW r \in Roid, Online(r)
  PROVE  hyd_roles[r] \in Obj /\ RoleOf(r) \in Role
BY DEF TypeOK, Online, RoleOf

LEMMA RoleChangeType ==
  ASSUME NEW role \in Role, NEW a \in Agent \cup {None}
  PROVE  /\ Connected(role, a) \in Role
         /\ Disconnected(role) \in Role
BY DEF Role, Connected, Disconnected

LEMMA AnswerType ==
  ASSUME fib \in [Thread -> FiberState], NEW f \in Thread,
         NEW op \in AllOps, NEW r \in Roid, NEW status \in Status,
         Answer(f, op, r, status)
  PROVE  fib' \in [Thread -> FiberState]
<1>1. [Idle EXCEPT !.op = op, !.roid = r, !.pc = "replied",
                   !.status = status] \in FiberState
  BY IdleType DEF FiberState
<1> QED
  BY <1>1 DEF Answer

LEMMA StoreType ==
  ASSUME fib \in [Thread -> FiberState], NEW f \in Thread,
         NEW op \in AllOps \cup TimerOps, NEW r \in Roid,
         NEW a \in Agent \cup {None}, NEW o \in Obj, NEW role \in Role,
         Store(f, op, r, a, o, role)
  PROVE  fib' \in [Thread -> FiberState]
<1>1. role.ver \in Version
  BY DEF Role, Version
<1>2. [Idle EXCEPT !.op = op, !.roid = r, !.agent = a, !.obj = o,
                   !.data = role.ver, !.pc = "set"] \in FiberState
  BY <1>1, IdleType DEF FiberState, Busy
<1> QED
  BY <1>2 DEF Store

LEMMA GotoType ==
  ASSUME fib \in [Thread -> FiberState], NEW f \in Thread,
         NEW pc \in {"flush", "check", "next"}, Goto(f, pc)
  PROVE  fib' \in [Thread -> FiberState]
<1>1. [fib[f] EXCEPT !.pc = pc, !.obj = None, !.data = None, !.done = FALSE]
        \in FiberState
  BY DEF FiberState, Busy, Version
<1> QED
  BY <1>1 DEF Goto

LEMMA ReplyType ==
  ASSUME fib \in [Thread -> FiberState], NEW f \in Thread,
         NEW status \in Status, Reply(f, status)
  PROVE  fib' \in [Thread -> FiberState]
<1>1. [fib[f] EXCEPT !.pc = "replied", !.status = status, !.obj = None,
                     !.data = None, !.done = FALSE] \in FiberState
  BY DEF FiberState, Version
<1> QED
  BY <1>1 DEF Reply

LEMMA StoreEffect ==
  ASSUME fib \in [Thread -> FiberState], NEW f \in Thread, NEW op,
         NEW r, NEW a, NEW o, NEW role, Store(f, op, r, a, o, role)
  PROVE  /\ fib'[f].obj = o /\ fib'[f].op = op
         /\ \A g \in Thread \ {f} : fib'[g] = fib[g]
<1> DEFINE new == [Idle EXCEPT !.op = op, !.roid = r, !.agent = a, !.obj = o,
                               !.data = role.ver, !.pc = "set"]
<1>1. new.obj = o /\ new.op = op
  BY DEF Idle
<1>2. fib' = [fib EXCEPT ![f] = new]
  BY DEF Store
<1> HIDE DEF new
<1> QED
  BY <1>1, <1>2

(***************************************************************************)
(* Type correctness, and the agreement of the two fields that say whether  *)
(* the client of a role is away.                                           *)
(***************************************************************************)
RoleInv == TypeOK /\ AwayHasNoAgent

LEMMA InitRole == Init => RoleInv
<1> SUFFICES ASSUME Init PROVE RoleInv
  OBVIOUS
<1>1. NewRole \in Role
  BY DEF NewRole, Role
<1>2. fib \in [Thread -> FiberState]
  BY IdleType DEF Init
<1> QED
  BY <1>1, <1>2 DEF Init, RoleInv, TypeOK, AwayHasNoAgent, NewRole, Version,
     NotDown

(* Connecting a role to an agent, and storing it.                          *)
LEMMA ConnectRole ==
  ASSUME RoleInv, NEW f \in Thread, NEW r \in Roid,
         NEW a \in Agent \cup {None}, NEW o \in Obj, NEW role \in Role,
         Connect(f, r, a, o, role)
  PROVE  /\ fib' \in [Thread -> FiberState]
         /\ obj' \in [Obj -> Role]
         /\ AwayHasNoAgent'
<1>1. Connected(role, a) \in Role /\ Connected(role, a).dc = "no"
  BY RoleChangeType DEF Connected, Role
<1>2. fib' \in [Thread -> FiberState]
  BY StoreType, <1>1 DEF Connect, RoleInv, TypeOK, AllOps
<1> QED
  BY <1>1, <1>2 DEF Connect, RoleInv, TypeOK, AwayHasNoAgent

LEMMA RequestRole == ASSUME RoleInv, Request PROVE RoleInv'
<1> USE DEF RoleInv
<1> PICK f \in Fiber, r \in Roid :
      \/ \E a \in Agent : \/ LoginOnline(f, r, a) \/ LoginLoad(f, r, a)
                          \/ Reconnect(f, r, a)
      \/ Logout(f, r) \/ Disconnect(f, r)
      \/ \E op \in Ops : NotLoggedIn(f, op, r)
  BY DEF Request
<1>f. f \in Thread /\ fib \in [Thread -> FiberState] /\ obj \in [Obj -> Role]
  BY DEF Thread, TypeOK
<1>1. CASE \E a \in Agent : LoginOnline(f, r, a)
  <2> PICK a \in Agent : LoginOnline(f, r, a)
    BY <1>1
  <2>1. hyd_roles[r] \in Obj /\ RoleOf(r) \in Role
    BY RoleType DEF LoginOnline
  <2> QED
    BY <1>f, <2>1, ConnectRole DEF LoginOnline, TypeOK, timer
<1>2. CASE \E a \in Agent : LoginLoad(f, r, a)
  <2> PICK a \in Agent : LoginLoad(f, r, a)
    BY <1>2
  <2>1. [Idle EXCEPT !.op = "login", !.roid = r, !.agent = a, !.pc = "getex"]
          \in FiberState
    BY IdleType DEF FiberState, AllOps, Busy
  <2> QED
    BY <1>f, <2>1 DEF LoginLoad, TypeOK, AwayHasNoAgent, timer
<1>3. CASE \E a \in Agent : Reconnect(f, r, a)
  <2> PICK a \in Agent : Reconnect(f, r, a)
    BY <1>3
  <2>1. hyd_roles[r] \in Obj /\ RoleOf(r) \in Role
    BY RoleType DEF Reconnect
  <2>2. Connected(RoleOf(r), a) \in Role /\ Connected(RoleOf(r), a).dc = "no"
    BY <2>1, RoleChangeType DEF Connected, Role
  <2>3. fib' \in [Thread -> FiberState]
    BY <1>f, AnswerType DEF Reconnect, AllOps, Status
  <2> QED
    BY <1>f, <2>1, <2>2, <2>3
       DEF Reconnect, TypeOK, AwayHasNoAgent, timer, RoleOf
<1>4. CASE Logout(f, r)
  <2>1. hyd_roles[r] \in Obj /\ RoleOf(r) \in Role
    BY <1>4, RoleType DEF Logout
  <2> DEFINE role == Disconnected(RoleOf(r))
  <2>2. role \in Role /\ role.agent = None
    BY <2>1, RoleChangeType DEF Disconnected, Role
  <2>3. /\ obj' = [obj EXCEPT ![hyd_roles[r]] = role]
        /\ Store(f, "logout", r, None, hyd_roles[r], role)
        /\ UNCHANGED <<hyd_roles, timer, redis, clock, faults>>
    BY <1>4 DEF Logout
  <2> HIDE DEF role
  <2>4. fib' \in [Thread -> FiberState]
    BY <1>f, <2>1, <2>2, <2>3, StoreType DEF AllOps
  <2> QED
    BY <1>f, <2>1, <2>2, <2>3, <2>4 DEF TypeOK, AwayHasNoAgent, timer
<1>5. CASE Disconnect(f, r)
  <2>1. hyd_roles[r] \in Obj /\ RoleOf(r) \in Role
    BY <1>5, RoleType DEF Disconnect
  <2>2. Disconnected(RoleOf(r)) \in Role /\ Disconnected(RoleOf(r)).agent = None
    BY <2>1, RoleChangeType DEF Disconnected, Role
  <2>3. fib' \in [Thread -> FiberState]
    BY <1>5, <1>f, AnswerType DEF Disconnect, AllOps, Status
  <2> QED
    BY <1>5, <1>f, <2>1, <2>2, <2>3
       DEF Disconnect, TypeOK, AwayHasNoAgent, timer, RoleOf
<1>6. CASE \E op \in Ops : NotLoggedIn(f, op, r)
  <2> PICK op \in Ops : NotLoggedIn(f, op, r)
    BY <1>6
  <2> DEFINE status == IF op = "reconnect" THEN "gs_reconnect_noop"
                                           ELSE "gs_role_not_logged_in"
  <2>1. status \in Status /\ op \in AllOps
    BY LogicAssumption DEF Status
  <2>2. Answer(f, op, r, status)
    BY DEF NotLoggedIn
  <2> HIDE DEF status
  <2>3. fib' \in [Thread -> FiberState]
    BY <1>f, <2>1, <2>2, AnswerType
  <2> QED
    BY <1>f, <2>3 DEF NotLoggedIn, TypeOK, AwayHasNoAgent, timer
<1> QED
  BY <1>1, <1>2, <1>3, <1>4, <1>5, <1>6

LEMMA RedisExecRole ==
  ASSUME RoleInv, NEW f \in Thread, RedisExec(f) PROVE RoleInv'
<1> USE DEF RoleInv
<1> DEFINE r == fib[f].roid
<1>1. fib[f] \in FiberState /\ r \in Roid /\ redis \in [Roid -> Version]
  BY DEF TypeOK, FiberState
<1>2. [fib[f] EXCEPT !.done = TRUE, !.data = redis[r]] \in FiberState
  BY <1>1 DEF FiberState
<1>3. [fib[f] EXCEPT !.done = TRUE] \in FiberState /\ fib[f].data \in Version
  BY <1>1 DEF FiberState
<1>4. fib' \in [Thread -> FiberState] /\ redis' \in [Roid -> Version]
  <2>1. CASE fib[f].pc = "getex"
    <3>1. /\ fib' = [fib EXCEPT ![f] = [@ EXCEPT !.done = TRUE,
                                                !.data = redis[r]]]
          /\ redis' = redis
      BY <2>1 DEF RedisExec
    <3> QED
      BY <1>1, <1>2, <3>1 DEF TypeOK
  <2>2. CASE fib[f].pc = "set"
    <3>1. /\ fib' = [fib EXCEPT ![f] = [@ EXCEPT !.done = TRUE]]
          /\ redis' = [redis EXCEPT ![r] = fib[f].data]
      BY <2>2 DEF RedisExec
    <3> QED
      BY <1>1, <1>3, <3>1 DEF TypeOK
  <2> QED
    BY <2>1, <2>2 DEF RedisExec
<1> QED
  BY <1>4 DEF RedisExec, TypeOK, AwayHasNoAgent, timer

LEMMA HandlerRole ==
  ASSUME RoleInv, NEW f \in Thread, Handler(f) PROVE RoleInv'
<1> USE DEF RoleInv
<1> DEFINE r == fib[f].roid
<1>f. /\ fib[f] \in FiberState /\ r \in Roid
      /\ fib[f].agent \in Agent \cup {None} /\ fib[f].obj \in Obj \cup {None}
      /\ fib[f].data \in Version
      /\ fib \in [Thread -> FiberState]
  BY DEF TypeOK, FiberState
<1>1. CASE LoginNotLoaded(f)
  <2>1. fib' \in [Thread -> FiberState]
    BY <1>1, <1>f, ReplyType DEF LoginNotLoaded, Status
  <2> QED
    BY <1>1, <2>1 DEF LoginNotLoaded, TypeOK, AwayHasNoAgent, timer
<1>2. CASE LoginConflict(f)
  <2>1. hyd_roles[r] \in Obj /\ RoleOf(r) \in Role
    BY <1>2, <1>f, RoleType DEF LoginConflict, LoadConflict
  <2>2. Connect(f, r, fib[f].agent, hyd_roles[r], RoleOf(r))
    BY <1>2 DEF LoginConflict
  <2>3. /\ fib' \in [Thread -> FiberState] /\ obj' \in [Obj -> Role]
        /\ AwayHasNoAgent'
    BY <1>f, <2>1, <2>2, ConnectRole
  <2> QED
    BY <1>2, <2>3 DEF LoginConflict, TypeOK, timer
<1>3. CASE LoginLoaded(f)
  <2>1. FreshObj \in Obj
    BY <1>3 DEF LoginLoaded, FreshObj
  <2>2. [NewRole EXCEPT !.ver = fib[f].data] \in Role
    BY <1>3, <1>f DEF LoginLoaded, NotLoaded, Version, NewRole, Role
  <2>3. Connect(f, r, fib[f].agent, FreshObj,
                [NewRole EXCEPT !.ver = fib[f].data])
    BY <1>3 DEF LoginLoaded
  <2>4. /\ fib' \in [Thread -> FiberState] /\ obj' \in [Obj -> Role]
        /\ AwayHasNoAgent'
    BY <1>f, <2>1, <2>2, <2>3, ConnectRole
  <2> QED
    BY <1>3, <1>f, <2>1, <2>4 DEF LoginLoaded, TypeOK, timer
<1>4. CASE Stored(f)
  <2>1. hyd_roles' \in [Roid -> Obj \cup {None}]
    BY <1>4, <1>f DEF Stored, Erase, Assign, TypeOK
  <2>2. fib' \in [Thread -> FiberState]
    BY <1>4, <1>f, GotoType DEF Stored
  <2> QED
    BY <1>4, <2>1, <2>2 DEF Stored, TypeOK, AwayHasNoAgent, timer
<1>5. CASE Flushed(f)
  <2>1. fib' \in [Thread -> FiberState]
    <3>1. CASE f = Timer /\ fib[f].op = "down"
      BY <1>5, <1>f, <3>1, GotoType DEF Flushed
    <3>2. CASE f = Timer /\ fib[f].op # "down"
      BY <1>5, <1>f, <3>2, GotoType DEF Flushed
    <3>3. CASE f # Timer
      BY <1>5, <1>f, <3>3, ReplyType DEF Flushed, Status
    <3> QED
      BY <3>1, <3>2, <3>3
  <2> QED
    BY <1>5, <2>1 DEF Flushed, TypeOK, AwayHasNoAgent, timer
<1>6. CASE Finish(f)
  BY <1>6, <1>f, IdleType DEF Finish, TypeOK, AwayHasNoAgent, timer
<1> QED
  BY <1>1, <1>2, <1>3, <1>4, <1>5, <1>6 DEF Handler

LEMMA CheckRole ==
  ASSUME RoleInv, NEW a \in Agent,
         CheckAnswer(a) \/ CheckDown(a)
  PROVE  RoleInv'
<1> USE DEF RoleInv
<1>1. CASE CheckAnswer(a)
  <2> PICK gone \in SUBSET asked[a] :
        LET lost == {hyd_roles[r] : r \in {r \in gone : StillOn(r, a)}} IN
        obj' = [o \in Obj |-> IF o \in lost THEN Disconnected(obj[o])
                                            ELSE obj[o]]
    BY <1>1 DEF CheckAnswer
  <2>1. \A o \in Obj : /\ Disconnected(obj[o]) \in Role
                       /\ Disconnected(obj[o]).agent = None
    BY RoleChangeType DEF TypeOK, Disconnected, Role
  <2> QED
    BY <1>1, <2>1 DEF CheckAnswer, TypeOK, AwayHasNoAgent
<1>2. CASE CheckDown(a)
  BY <1>2 DEF CheckDown, TypeOK, AwayHasNoAgent
<1> QED
  BY <1>1, <1>2

(* The timer stores a role: the disconnected one, the one to log out, or   *)
(* the one to save.                                                        *)
LEMMA TimerStoreRole ==
  ASSUME RoleInv, NEW r \in Roid, StoreDown(r) \/ SaveRole(r)
  PROVE  RoleInv'
<1> USE DEF RoleInv
<1>f. Timer \in Thread /\ fib \in [Thread -> FiberState]
  BY DEF Thread, TypeOK
<1>1. CASE StoreDown(r)
  <2>1. hyd_roles[r] \in Obj /\ RoleOf(r) \in Role
    BY <1>1, RoleType DEF StoreDown, StillOn
  <2> DEFINE role == Disconnected(RoleOf(r))
  <2>2. role \in Role /\ role.agent = None
    BY <2>1, RoleChangeType DEF Disconnected, Role
  <2>3. /\ obj' = [obj EXCEPT ![hyd_roles[r]] = role]
        /\ Store(Timer, "down", r, None, hyd_roles[r], role)
        /\ down' = [down EXCEPT !.roles = @ \ {r}]
        /\ UNCHANGED <<hyd_roles, asked, save_buckets, bucket, redis, clock,
                       faults>>
    BY <1>1 DEF StoreDown
  <2> HIDE DEF role
  <2>4. fib' \in [Thread -> FiberState]
    BY <1>f, <2>1, <2>2, <2>3, StoreType DEF TimerOps
  <2> QED
    BY <2>1, <2>2, <2>3, <2>4 DEF TypeOK, AwayHasNoAgent
<1>2. CASE SaveRole(r)
  <2>1. hyd_roles[r] \in Obj /\ RoleOf(r) \in Role
    BY <1>2, RoleType DEF SaveRole
  <2>2. fib' \in [Thread -> FiberState]
    BY <1>2, <1>f, <2>1, StoreType DEF SaveRole, TimerOps
  <2> QED
    BY <1>2, <2>2 DEF SaveRole, TypeOK, AwayHasNoAgent
<1> QED
  BY <1>1, <1>2

LEMMA TimerRole == ASSUME RoleInv, TimerStep PROVE RoleInv'
<1> USE DEF RoleInv
<1>f. Timer \in Thread /\ fib \in [Thread -> FiberState]
  BY DEF Thread, TypeOK
<1>1. CASE TimerStart
  <2>1. fib' \in [Thread -> FiberState]
    BY <1>1, <1>f, GotoType DEF TimerStart
  <2> QED
    BY <1>1, <2>1 DEF TimerStart, TypeOK, AwayHasNoAgent
<1>2. CASE CheckNoMore
  BY <1>2 DEF CheckNoMore, TypeOK, AwayHasNoAgent, NotDown
<1>3. CASE CheckEnd
  <2>1. fib' \in [Thread -> FiberState]
    BY <1>3, <1>f, GotoType DEF CheckEnd
  <2>2. Round \subseteq Roid
    BY DEF Round, TypeOK
  <2> QED
    BY <1>3, <2>1, <2>2 DEF CheckEnd, TypeOK, AwayHasNoAgent
<1>4. CASE SaveEnd
  BY <1>4, <1>f, IdleType DEF SaveEnd, TypeOK, AwayHasNoAgent, timer
<1>5. CASE \E a \in Agent : CheckAnswer(a) \/ CheckDown(a)
  BY <1>5, CheckRole
<1>6. CASE \E r \in Roid : StoreDown(r) \/ SaveRole(r)
  BY <1>6, TimerStoreRole
<1>7. CASE \E r \in Roid : SkipRole(r)
  BY <1>7 DEF SkipRole, TypeOK, AwayHasNoAgent
<1> QED
  BY <1>1, <1>2, <1>3, <1>4, <1>5, <1>6, <1>7 DEF TimerStep

LEMMA OutsideRole ==
  ASSUME RoleInv, NEW r \in Roid, Play(r) \/ Age(r) \/ MonitorLoad(r)
  PROVE  RoleInv'
<1> USE DEF RoleInv
<1>1. CASE Play(r)
  <2>1. hyd_roles[r] \in Obj /\ RoleOf(r) \in Role
    BY <1>1, RoleType DEF Play
  <2>2. clock[r] + 1 \in Nat
    BY DEF TypeOK
  <2>3. [RoleOf(r) EXCEPT !.ver = clock[r] + 1] \in Role
    BY <2>1, <2>2 DEF Role
  <2>4. /\ [RoleOf(r) EXCEPT !.ver = clock[r] + 1].dc = RoleOf(r).dc
        /\ [RoleOf(r) EXCEPT !.ver = clock[r] + 1].agent = RoleOf(r).agent
    BY <2>1 DEF Role
  <2>5. obj' = [obj EXCEPT ![hyd_roles[r]] =
                             [RoleOf(r) EXCEPT !.ver = clock[r] + 1]]
    BY <1>1 DEF Play, RoleOf
  <2>6. obj' \in [Obj -> Role] /\ AwayHasNoAgent'
    BY <2>1, <2>3, <2>4, <2>5 DEF TypeOK, AwayHasNoAgent, RoleOf
  <2> QED
    BY <1>1, <2>2, <2>6 DEF Play, TypeOK, timer
<1>2. CASE Age(r)
  <2>1. hyd_roles[r] \in Obj /\ RoleOf(r) \in Role
    BY <1>2, RoleType DEF Age
  <2>2. RoleOf(r).agent = None
    BY <1>2, <2>1 DEF Age, AwayHasNoAgent, RoleOf
  <2>3. /\ [RoleOf(r) EXCEPT !.dc = "long"] \in Role
        /\ [RoleOf(r) EXCEPT !.dc = "long"].agent = None
    BY <2>1, <2>2 DEF Role
  <2>4. obj' = [obj EXCEPT ![hyd_roles[r]] = [RoleOf(r) EXCEPT !.dc = "long"]]
    BY <1>2 DEF Age, RoleOf
  <2>5. obj' \in [Obj -> Role] /\ AwayHasNoAgent'
    BY <2>1, <2>3, <2>4 DEF TypeOK, AwayHasNoAgent
  <2> QED
    BY <1>2, <2>5 DEF Age, TypeOK, timer
<1>3. CASE MonitorLoad(r)
  BY <1>3 DEF MonitorLoad, TypeOK, AwayHasNoAgent, timer, Version
<1> QED
  BY <1>1, <1>2, <1>3

LEMMA FaultRole ==
  ASSUME RoleInv, Crash \/ \E f \in Thread : DbError(f) PROVE RoleInv'
<1> USE DEF RoleInv
<1>1. CASE Crash
  <2>1. NewRole \in Role /\ NewRole.dc = "no"
    BY DEF NewRole, Role
  <2>2. fib' \in [Thread -> FiberState]
    BY <1>1, IdleType DEF Crash
  <2> QED
    BY <1>1, <2>1, <2>2 DEF Crash, TypeOK, AwayHasNoAgent, NotDown
<1>2. ASSUME NEW f \in Thread, DbError(f) PROVE RoleInv'
  <2>1. fib' \in [Thread -> FiberState]
    BY <1>2, IdleType, ReplyType DEF DbError, TypeOK, Status
  <2>2. /\ asked' \in [Agent -> SUBSET Roid] /\ bucket' \subseteq Roid
        /\ down' \in [agent : Agent \cup {None}, roles : SUBSET Roid]
        /\ faults' \in Nat
    BY <1>2 DEF DbError, TypeOK, NotDown
  <2> QED
    BY <1>2, <2>1, <2>2 DEF DbError, TypeOK, AwayHasNoAgent
<1> QED
  BY <1>1, <1>2

LEMMA NextRole == RoleInv /\ [Next]_vars => RoleInv'
<1> SUFFICES ASSUME RoleInv, [Next]_vars PROVE RoleInv'
  OBVIOUS
<1>1. CASE UNCHANGED vars
  BY <1>1 DEF vars, timer, RoleInv, TypeOK, AwayHasNoAgent
<1>2. CASE Next
  BY <1>2, RequestRole, RedisExecRole, HandlerRole, TimerRole, OutsideRole,
     FaultRole DEF Next
<1> QED
  BY <1>1, <1>2

LEMMA RoleAlways == Spec => []RoleInv
BY InitRole, NextRole, PTL DEF Spec

(***************************************************************************)
(* The theorems.                                                           *)
(***************************************************************************)
(* Every variable keeps its type: in particular no role object is made     *)
(* from a record that Redis did not return.                                *)
THEOREM TypeAlways == Spec => []TypeOK
BY RoleAlways, PTL DEF RoleInv

(* The timer decides to log out for inactivity only roles that have no     *)
(* agent at that moment, whatever requests, agents' answers and timer      *)
(* steps set mf_agent_srv and mf_dc_since.                                 *)
THEOREM DecidesOnAwayAlways == Spec => DecidesOnAway
<1> DEFINE P == fib[Timer].pc = "next" /\ fib'[Timer].pc = "set"
                  /\ fib'[Timer].op = "expire" =>
                    obj[fib'[Timer].obj].agent = None
<1>1. ASSUME RoleInv, Next, fib[Timer].pc = "next", fib'[Timer].pc = "set",
             fib'[Timer].op = "expire"
      PROVE  obj[fib'[Timer].obj].agent = None
  <2>f. Timer \in Thread /\ fib \in [Thread -> FiberState] /\ Timer \notin Fiber
    BY <1>1, LogicAssumption DEF Thread, RoleInv, TypeOK
  <2>1. CASE \E r \in Roid : SaveRole(r)
    <3> PICK r \in Roid : SaveRole(r)
      BY <2>1
    <3>1. hyd_roles[r] \in Obj
      BY <1>1, RoleType DEF SaveRole, RoleInv
    <3>2. CASE ForTooLong(RoleOf(r))
      <4>1. Store(Timer, "expire", r, None, hyd_roles[r], RoleOf(r))
        BY <3>2 DEF SaveRole
      <4>2. fib'[Timer].obj = hyd_roles[r]
        BY <2>f, <4>1, StoreEffect
      <4> QED
        BY <1>1, <3>1, <3>2, <4>2
           DEF ForTooLong, RoleInv, AwayHasNoAgent, RoleOf
    <3>3. CASE ~ForTooLong(RoleOf(r))
      <4>1. Store(Timer, "save", r, None, hyd_roles[r], RoleOf(r))
        BY <3>3 DEF SaveRole
      <4>2. fib'[Timer].op = "save"
        BY <2>f, <4>1, StoreEffect
      <4> QED
        BY <1>1, <4>2
    <3> QED
      BY <3>2, <3>3
  <2>2. ASSUME NEW f \in Thread, RedisExec(f) \/ Handler(f) \/ DbError(f)
        PROVE  FALSE
    <3>1. f # Timer
      BY <1>1, <2>f, <2>2
         DEF RedisExec, Handler, DbError, LoginNotLoaded, LoginConflict,
             LoginLoaded, Stored, Flushed, Finish, Resumed
    <3>2. fib'[Timer] = fib[Timer]
      BY <2>f, <2>2, <3>1
         DEF RedisExec, Handler, DbError, LoginNotLoaded, LoginConflict,
             LoginLoaded, Stored, Flushed, Finish, Reply, Goto, Connect, Store
    <3> QED
      BY <1>1, <3>2
  <2>3. CASE Request
    <3> PICK f \in Fiber, r \in Roid :
          \/ \E a \in Agent : \/ LoginOnline(f, r, a) \/ LoginLoad(f, r, a)
                              \/ Reconnect(f, r, a)
          \/ Logout(f, r) \/ Disconnect(f, r)
          \/ \E op \in Ops : NotLoggedIn(f, op, r)
      BY <2>3 DEF Request
    <3>f. f \in Thread /\ f # Timer
      BY <2>f DEF Thread
    <3>1. CASE \E a \in Agent : LoginOnline(f, r, a)
      BY <1>1, <2>f, <3>1, <3>f, StoreEffect DEF LoginOnline, Connect
    <3>2. CASE Logout(f, r)
      BY <1>1, <2>f, <3>2, <3>f, StoreEffect DEF Logout
    <3>3. CASE \/ \E a \in Agent : LoginLoad(f, r, a) \/ Reconnect(f, r, a)
               \/ Disconnect(f, r)
               \/ \E op \in Ops : NotLoggedIn(f, op, r)
      BY <1>1, <2>f, <3>3, <3>f
         DEF LoginLoad, Reconnect, Disconnect, NotLoggedIn, Answer
    <3> QED
      BY <3>1, <3>2, <3>3
  <2>4. CASE TimerStep /\ ~\E r \in Roid : SaveRole(r)
    BY <1>1, <2>f, <2>4
       DEF TimerStep, TimerStart, CheckNoMore, CheckEnd, SaveEnd, CheckAnswer,
           CheckDown, StoreDown, SkipRole, Goto, Idle
  <2>5. CASE \E r \in Roid : Play(r) \/ Age(r) \/ MonitorLoad(r)
    BY <1>1, <2>5 DEF Play, Age, MonitorLoad
  <2>6. CASE Crash
    BY <1>1, <2>f, <2>6 DEF Crash, Idle
  <2> QED
    BY <1>1, <2>1, <2>2, <2>3, <2>4, <2>5, <2>6 DEF Next
<1>2. RoleInv /\ [Next]_vars => [P]_fib
  BY <1>1 DEF vars
<1> QED
  BY <1>2, RoleAlways, PTL DEF Spec, DecidesOnAway

(* A new object never takes the place of a role that is online.            *)
THEOREM LoginKeepsOnlineAlways == Spec => LoginKeepsOnline
<1> DEFINE P == \A r \in Roid :
                  hyd_roles[r] # None /\ hyd_roles'[r] # hyd_roles[r] =>
                    hyd_roles'[r] \in Referenced \cup {None}
<1>1. ASSUME RoleInv, Next, NEW r \in Roid, hyd_roles[r] # None,
             hyd_roles'[r] # hyd_roles[r]
      PROVE  hyd_roles'[r] \in Referenced \cup {None}
  <2>f. hyd_roles \in [Roid -> Obj \cup {None}]
    BY <1>1 DEF RoleInv, TypeOK
  <2>1. ASSUME NEW f \in Thread, Stored(f)
        PROVE  hyd_roles'[r] \in Referenced \cup {None}
    BY <1>1, <2>f, <2>1 DEF Stored, Erase, Assign, Referenced
  <2>2. ASSUME NEW f \in Thread, LoginLoaded(f)
        PROVE  hyd_roles'[r] = hyd_roles[r]
    BY <1>1, <2>f, <2>2 DEF LoginLoaded, LoadConflict, Online
  <2>3. CASE Crash
    BY <2>3 DEF Crash
  <2>4. ASSUME NEW f \in Thread,
               \/ RedisExec(f) \/ DbError(f) \/ LoginNotLoaded(f)
               \/ LoginConflict(f) \/ Flushed(f) \/ Finish(f)
        PROVE  hyd_roles' = hyd_roles
    BY <2>4 DEF RedisExec, DbError, LoginNotLoaded, LoginConflict, Flushed,
       Finish
  <2>5. CASE Request
    BY <1>1, <2>5
       DEF Request, LoginOnline, LoginLoad, Reconnect, Logout, Disconnect,
           NotLoggedIn
  <2>6. CASE TimerStep
    BY <1>1, <2>6
       DEF TimerStep, TimerStart, CheckNoMore, CheckEnd, SaveEnd, CheckAnswer,
           CheckDown, StoreDown, SaveRole, SkipRole
  <2>7. CASE \E q \in Roid : Play(q) \/ Age(q) \/ MonitorLoad(q)
    BY <1>1, <2>7 DEF Play, Age, MonitorLoad
  <2> QED
    BY <1>1, <2>1, <2>2, <2>3, <2>4, <2>5, <2>6, <2>7 DEF Next, Handler
<1>2. RoleInv /\ [Next]_vars => [P]_hyd_roles
  BY <1>1 DEF vars
<1> QED
  BY <1>2, RoleAlways, PTL DEF Spec, LoginKeepsOnline

=============================================================================
