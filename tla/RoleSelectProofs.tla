-------------------------- MODULE RoleSelectProofs --------------------------
(***************************************************************************)
(* Theorems about RoleSelect, for any number of roles, sessions and logic  *)
(* servers: types, and that a user whose sessions do not overlap never     *)
(* plays two roles at once.                                                *)
(***************************************************************************)
EXTENDS RoleSelect, FiniteSetTheorems, TLAPS

(***************************************************************************)
(* What the invariant says of a fiber x and of a connection c when the     *)
(* roles in C have been created.                                           *)
(***************************************************************************)
Fits(x, C) ==
  /\ x.pc \in {"acquire", "create", "load"} => x.target \in Roid
  /\ x.pc \in {"login", "logout", "disconnect"} /\ x.done = "no" =>
       x.roid \in Roid /\ x.srv \in Logic
  /\ \/ x.pc = "load"
     \/ x.pc = "create" /\ x.done = "yes"
     \/ x.pc = "logout" /\ x.target # None
     => x.target \in C
  /\ x.pc = "login" /\ x.done = "no" => x.roid \in C
  /\ x.avatars \subseteq C

ConnFits(c, C) ==
  /\ c \in Connection \cup {None}
  /\ c # None => (c.roid = None <=> c.srv = None) /\ c.avatars \subseteq C

BaseInv == TypeOK /\ CreatedInv /\ \A s \in Session : FiberInv(s)

CalmInv == OneInv /\ \A s \in Session : PendingInv(s) /\ ReconnectInv(s)

LEMMA InvParts == Inv <=> BaseInv /\ (calm => CalmInv)
BY DEF Inv, BaseInv, CalmInv

LEMMA ConstantFact == None \notin Roid /\ None \notin Logic
BY SelectAssumption DEF Roid

LEMMA IdleType ==
  /\ Idle \in FiberState
  /\ Idle.pc = "new" /\ Idle.target = None /\ Idle.roid = None
  /\ Idle.srv = None /\ Idle.done = "no" /\ Idle.avatars = {}
  /\ Idle.pending = {} /\ Idle.found = {}
BY DEF Idle, FiberState

LEMMA BaseFact ==
  ASSUME BaseInv
  PROVE  /\ ConnFits(conn, created)
         /\ created \subseteq Roid
         /\ \A s \in Session : fib[s] \in FiberState /\ Fits(fib[s], created)
BY DEF BaseInv, TypeOK, CreatedInv, FiberInv, Fits, ConnFits

(* One fiber takes a step.                                                 *)
LEMMA FiberStep ==
  ASSUME BaseInv, NEW s \in Session, NEW x \in FiberState,
         fib' = [fib EXCEPT ![s] = x], Fits(x, created'),
         created \subseteq created'
  PROVE  /\ fib' \in [Session -> FiberState]
         /\ \A t \in Session : FiberInv(t)'
<1>1. fib \in [Session -> FiberState]
  BY DEF BaseInv, TypeOK
<1>2. fib' \in [Session -> FiberState] /\ fib'[s] = x
      /\ \A t \in Session \ {s} : fib'[t] = fib[t]
  BY <1>1
<1>3. ASSUME NEW t \in Session PROVE FiberInv(t)'
  <2>1. CASE t = s
    BY <2>1, <1>2 DEF Fits, FiberInv
  <2>2. CASE t # s
    <3>1. fib'[t] = fib[t] /\ FiberInv(t)
      BY <2>2, <1>2 DEF BaseInv
    <3> QED
      BY <3>1 DEF FiberInv
  <2> QED
    BY <2>1, <2>2
<1> QED
  BY <1>2, <1>3

ReadyState == [Idle EXCEPT !.pc = "ready"]

RequestState(pc, target, roid, srv) ==
  [Idle EXCEPT !.pc = pc, !.target = target, !.roid = roid, !.srv = srv]

LEMMA ReadyType ==
  /\ ReadyState \in FiberState /\ ReadyState.pc = "ready"
  /\ \A C : Fits(ReadyState, C)
BY IdleType DEF ReadyState, Fits, FiberState

LEMMA RequestType ==
  ASSUME NEW pc \in Waiting, NEW target \in Roid \cup {None},
         NEW roid \in Roid \cup {None}, NEW srv \in Logic \cup {None}
  PROVE  LET x == RequestState(pc, target, roid, srv) IN
         /\ x \in FiberState
         /\ x.pc = pc /\ x.target = target /\ x.roid = roid /\ x.srv = srv
         /\ x.done = "no" /\ x.avatars = {} /\ x.found = {}
BY IdleType DEF RequestState, FiberState

LEMMA ShutDownType ==
  ASSUME TypeOK, NEW S, ShutDown(S)
  PROVE  sess' \in [Session -> {"new", "open", "shut", "gone"}]
BY DEF TypeOK, ShutDown

(* The base invariant after a step of a session that changes neither roles *)
(* nor checks.                                                             *)
LEMMA SessionStep ==
  ASSUME BaseInv, NEW s \in Session, NEW x \in FiberState,
         fib' = [fib EXCEPT ![s] = x], Fits(x, created),
         ConnFits(conn', created),
         sess' \in [Session -> {"new", "open", "shut", "gone"}],
         UNCHANGED <<created, online, check, calm>>
  PROVE  BaseInv'
<1>1. /\ fib' \in [Session -> FiberState]
      /\ \A t \in Session : FiberInv(t)'
  BY FiberStep
<1>2. TypeOK'
  BY <1>1 DEF BaseInv, TypeOK, ConnFits
<1>3. CreatedInv'
  BY DEF BaseInv, CreatedInv, ConnFits
<1> QED
  BY <1>1, <1>2, <1>3 DEF BaseInv

(***************************************************************************)
(* do_role_login_common and do_role_logout_common.                         *)
(***************************************************************************)
(* What becomes of the connection c and of the fiber: it is ready, or has  *)
(* sent a request for the role that the connection is locked by.           *)
Logged(s, r, c) ==
  \/ /\ conn' \in {c, conn} /\ (conn' = c \/ c = None)
     /\ fib' = [fib EXCEPT ![s] = ReadyState]
  \/ /\ c # None /\ c.roid \notin {None, r} /\ conn' = c
     /\ fib' = [fib EXCEPT ![s] = RequestState("logout", r, c.roid, c.srv)]
  \/ /\ c # None /\ c.roid = None
     /\ \E l \in Logic :
          /\ conn' = [c EXCEPT !.roid = r, !.srv = l]
          /\ fib' = [fib EXCEPT ![s] = RequestState("login", None, r, l)]

LEMMA SendLoginCases ==
  ASSUME TypeOK, NEW s \in Session, NEW r, NEW c, SendLogin(s, r, c),
         c # None, c.roid = None
  PROVE  /\ Logged(s, r, c)
         /\ sess' \in [Session -> {"new", "open", "shut", "gone"}]
<1>1. CASE \E l \in Logic : /\ conn' = [c EXCEPT !.roid = r, !.srv = l]
                            /\ Request(s, "login", None, r, l)
                            /\ UNCHANGED sess
  BY <1>1 DEF Logged, Request, RequestState, TypeOK
<1>2. CASE ~Reliable /\ conn' = c /\ Ready(s) /\ ShutDown({s})
  BY <1>2, ShutDownType DEF Logged, Ready, ReadyState
<1> QED
  BY <1>1, <1>2 DEF SendLogin

LEMMA LoginCommonCases ==
  ASSUME TypeOK, NEW s \in Session, NEW r \in Roid, NEW c, LoginCommon(s, r, c)
  PROVE  /\ Logged(s, r, c)
         /\ sess' \in [Session -> {"new", "open", "shut", "gone"}]
<1>1. CASE c = None /\ Fail(s)
  BY <1>1, ShutDownType DEF Logged, Fail, Ready, ReadyState
<1>2. CASE c # None /\ c.roid = r /\ Ready(s) /\ conn' = c /\ UNCHANGED sess
  BY <1>2 DEF Logged, Ready, ReadyState, TypeOK
<1>3. CASE c # None /\ c.roid # r /\ IsAnother(r, c)
           /\ SendLogout(s, r, c) /\ UNCHANGED sess
  BY <1>3 DEF Logged, IsAnother, SendLogout, Request, RequestState, TypeOK
<1>4. CASE c # None /\ c.roid # r /\ ~IsAnother(r, c) /\ SendLogin(s, r, c)
  BY <1>4, SendLoginCases DEF IsAnother
<1> QED
  BY <1>1, <1>2, <1>3, <1>4 DEF LoginCommon

LEMMA LoggedBase ==
  ASSUME BaseInv, NEW s \in Session, NEW r \in created, NEW c,
         ConnFits(c, created), Logged(s, r, c),
         sess' \in [Session -> {"new", "open", "shut", "gone"}],
         UNCHANGED <<created, online, check, calm>>
  PROVE  BaseInv'
<1>r. r \in Roid /\ r # None /\ ConnFits(conn, created)
  BY BaseFact, ConstantFact
<1>1. CASE /\ conn' \in {c, conn}
           /\ fib' = [fib EXCEPT ![s] = ReadyState]
  BY <1>1, <1>r, ReadyType, SessionStep
<1>2. CASE /\ c # None /\ c.roid \notin {None, r} /\ conn' = c
           /\ fib' = [fib EXCEPT ![s] = RequestState("logout", r, c.roid, c.srv)]
  <2>1. c.roid \in Roid /\ c.srv \in Logic
    BY <1>2 DEF ConnFits, Connection
  <2> DEFINE x == RequestState("logout", r, c.roid, c.srv)
  <2>2. x \in FiberState /\ x.pc = "logout" /\ x.target = r
        /\ x.roid = c.roid /\ x.srv = c.srv /\ x.avatars = {}
    BY <2>1, <1>r, RequestType DEF Waiting
  <2>3. Fits(x, created)
    BY <2>1, <2>2 DEF Fits
  <2>4. fib' = [fib EXCEPT ![s] = x]
    BY <1>2
  <2> QED
    BY <1>2, <2>2, <2>3, <2>4, SessionStep
<1>3. CASE /\ c # None /\ c.roid = None
           /\ \E l \in Logic :
                /\ conn' = [c EXCEPT !.roid = r, !.srv = l]
                /\ fib' = [fib EXCEPT ![s] = RequestState("login", None, r, l)]
  <2> PICK l \in Logic :
         /\ conn' = [c EXCEPT !.roid = r, !.srv = l]
         /\ fib' = [fib EXCEPT ![s] = RequestState("login", None, r, l)]
    BY <1>3
  <2>1. ConnFits(conn', created)
    BY <1>3, <1>r, ConstantFact DEF ConnFits, Connection
  <2> DEFINE x == RequestState("login", None, r, l)
  <2>2. x \in FiberState /\ x.pc = "login" /\ x.target = None
        /\ x.roid = r /\ x.srv = l /\ x.avatars = {}
    BY <1>r, RequestType DEF Waiting
  <2>3. Fits(x, created)
    BY <1>r, <2>2 DEF Fits
  <2>4. fib' = [fib EXCEPT ![s] = x]
    OBVIOUS
  <2> QED
    BY <2>1, <2>2, <2>3, <2>4, SessionStep
<1> QED
  BY <1>1, <1>2, <1>3 DEF Logged

(***************************************************************************)
(* Every action preserves the base invariant.                              *)
(***************************************************************************)
LEMMA ReadyBase ==
  ASSUME BaseInv, NEW s \in Session, Ready(s), ConnFits(conn', created),
         sess' \in [Session -> {"new", "open", "shut", "gone"}],
         UNCHANGED <<created, online, check, calm>>
  PROVE  BaseInv'
BY ReadyType, SessionStep DEF Ready, ReadyState

LEMMA FailBase ==
  ASSUME BaseInv, NEW s \in Session, Fail(s),
         UNCHANGED <<created, online, check, calm>>
  PROVE  BaseInv'
<1>1. /\ Ready(s) /\ ConnFits(conn', created)
      /\ sess' \in [Session -> {"new", "open", "shut", "gone"}]
  BY BaseFact, ShutDownType DEF Fail, BaseInv
<1> QED
  BY <1>1, ReadyBase

LEMMA RequestBase ==
  ASSUME BaseInv, NEW s \in Session, NEW pc \in Waiting,
         NEW target \in Roid \cup {None}, NEW roid \in Roid \cup {None},
         NEW srv \in Logic \cup {None}, Request(s, pc, target, roid, srv),
         pc \in {"acquire", "create", "load"} => target \in Roid,
         pc \in {"login", "logout", "disconnect"} =>
           roid \in Roid /\ srv \in Logic,
         pc \in {"load", "logout"} => target \in created \cup {None},
         pc = "login" => roid \in created,
         ConnFits(conn', created),
         sess' \in [Session -> {"new", "open", "shut", "gone"}],
         UNCHANGED <<created, online, check, calm>>
  PROVE  BaseInv'
<1> DEFINE x == RequestState(pc, target, roid, srv)
<1>1. /\ x \in FiberState /\ x.pc = pc /\ x.target = target /\ x.roid = roid
      /\ x.srv = srv /\ x.done = "no" /\ x.avatars = {}
  BY IdleType DEF RequestState, FiberState
<1>2. fib' = [fib EXCEPT ![s] = x]
  BY DEF Request, RequestState
<1> HIDE DEF x
<1>3. Fits(x, created)
  BY <1>1, ConstantFact DEF Fits
<1> QED
  BY <1>1, <1>2, <1>3, SessionStep

LEMMA EventBase ==
  ASSUME BaseInv, NEW s \in Session, Event(s)
  PROVE  BaseInv'
<1>c. /\ ConnFits(conn, created) /\ created \subseteq Roid
      /\ sess \in [Session -> {"new", "open", "shut", "gone"}]
  BY BaseFact DEF BaseInv, TypeOK
<1>1. ASSUME NEW r \in Roid, Create(s, r) PROVE BaseInv'
  <2>1. Request(s, "acquire", r, None, None)
        /\ UNCHANGED <<conn, sess, created, online, check, calm>>
    BY <1>1 DEF Create
  <2> QED
    BY <1>c, <2>1, RequestBase DEF Waiting
<1>2. ASSUME NEW r \in Roid, Login(s, r) PROVE BaseInv'
  <2>1. /\ Request(s, "load", r, None, None) /\ conn # None
        /\ r \in conn.avatars
        /\ UNCHANGED <<conn, sess, created, online, check, calm>>
    BY <1>2 DEF Login, Handles
  <2>2. r \in created
    BY <1>c, <2>1 DEF ConnFits
  <2> QED
    BY <1>c, <2>1, <2>2, RequestBase DEF Waiting
<1>3. CASE Logout(s)
  <2>1. /\ conn # None /\ conn.roid # None /\ conn' = conn
        /\ Request(s, "logout", None, conn.roid, conn.srv)
        /\ UNCHANGED <<sess, created, online, check, calm>>
    BY <1>3 DEF Logout, Handles, SendLogout
  <2>2. conn.roid \in Roid /\ conn.srv \in Logic
    BY <1>c, <2>1 DEF ConnFits, Connection
  <2> QED
    BY <1>c, <2>1, <2>2, RequestBase DEF Waiting
<1> QED
  BY <1>1, <1>2, <1>3 DEF Event

LEMMA ConnectBase ==
  ASSUME BaseInv, NEW s \in Session, Insert(s) \/ Reconnected(s)
  PROVE  BaseInv'
<1>c. /\ ConnFits(conn, created) /\ created \subseteq Roid /\ TypeOK
      /\ sess \in [Session -> {"new", "open", "shut", "gone"}]
      /\ fib[s] \in FiberState /\ Fits(fib[s], created)
      /\ fib \in [Session -> FiberState]
  BY BaseFact DEF BaseInv, TypeOK
<1>1. CASE Insert(s)
  <2>1. /\ sess' \in [Session -> {"new", "open", "shut", "gone"}]
        /\ conn' = [session |-> s, roid |-> None, srv |-> None,
                    avatars |-> fib[s].avatars]
        /\ UNCHANGED <<created, online, check, calm>>
    BY <1>1, <1>c, ShutDownType DEF Insert
  <2>2. ConnFits(conn', created)
    BY <1>c, <2>1 DEF ConnFits, Connection, Fits, FiberState
  <2>3. CASE Ready(s)
    BY <2>1, <2>2, <2>3, ReadyBase
  <2>4. CASE fib' = [fib EXCEPT ![s].pc = "reconnect", ![s].pending = Logic]
    <3> DEFINE x == [fib[s] EXCEPT !.pc = "reconnect", !.pending = Logic]
    <3>1. x \in FiberState /\ x.pc = "reconnect" /\ x.avatars = fib[s].avatars
      BY <1>c DEF FiberState
    <3>2. fib' = [fib EXCEPT ![s] = x]
      BY <1>c, <2>4
    <3> HIDE DEF x
    <3>3. Fits(x, created)
      BY <1>c, <3>1 DEF Fits
    <3> QED
      BY <2>1, <2>2, <3>1, <3>2, <3>3, SessionStep
  <2> QED
    BY <1>1, <2>3, <2>4 DEF Insert
<1>2. CASE Reconnected(s)
  <2>u. UNCHANGED <<created, online, check, calm>>
    BY <1>2 DEF Reconnected
  <2>1. CASE Fail(s)
    BY <2>1, <2>u, FailBase
  <2>2. CASE /\ conn # None
             /\ \E p \in fib[s].found :
                  conn' = [conn EXCEPT !.srv = p[1], !.roid = p[2]]
             /\ Ready(s) /\ UNCHANGED sess
    <3> PICK p \in fib[s].found :
               conn' = [conn EXCEPT !.srv = p[1], !.roid = p[2]]
      BY <2>2
    <3>1. p[1] \in Logic /\ p[2] \in Roid
      BY <1>c DEF FiberState
    <3>2. ConnFits(conn', created)
      BY <1>c, <2>2, <3>1, ConstantFact DEF ConnFits, Connection
    <3> QED
      BY <1>c, <2>u, <2>2, <3>2, ReadyBase
  <2>3. CASE Ready(s) /\ UNCHANGED <<conn, sess>>
    BY <1>c, <2>u, <2>3, ReadyBase
  <2>4. CASE /\ conn # None /\ UNCHANGED <<conn, sess>>
             /\ \E r \in conn.avatars : Request(s, "load", r, None, None)
    <3> PICK r \in conn.avatars : Request(s, "load", r, None, None)
      BY <2>4
    <3>1. r \in created /\ r \in Roid
      BY <1>c, <2>4 DEF ConnFits
    <3> QED
      BY <1>c, <2>u, <2>4, <3>1, RequestBase DEF Waiting
  <2> QED
    BY <1>2, <2>1, <2>2, <2>3, <2>4 DEF Reconnected
<1> QED
  BY <1>1, <1>2

LEMMA RepliedBase ==
  ASSUME BaseInv, NEW s \in Session,
         Acquired(s) \/ Created(s) \/ Loaded(s) \/ LoggedOut(s) \/ LoggedIn(s)
  PROVE  BaseInv'
<1>c. /\ ConnFits(conn, created) /\ created \subseteq Roid /\ TypeOK
      /\ sess \in [Session -> {"new", "open", "shut", "gone"}]
      /\ fib[s] \in FiberState /\ Fits(fib[s], created)
      /\ UNCHANGED <<created, online, check, calm>>
  BY BaseFact DEF BaseInv, TypeOK, Acquired, Created, Loaded, LoggedOut, LoggedIn
<1>1. CASE Acquired(s)
  <2>1. CASE Request(s, "create", fib[s].target, None, None)
             /\ UNCHANGED <<conn, sess>>
    <3>1. fib[s].target \in Roid
      BY <1>1, <1>c DEF Acquired, Resumed, Fits
    <3> QED
      BY <1>c, <2>1, <3>1, RequestBase DEF Waiting
  <2>2. CASE Ready(s) /\ UNCHANGED <<conn, sess>>
    BY <1>c, <2>2, ReadyBase
  <2>3. CASE Fail(s)
    BY <1>c, <2>3, FailBase
  <2> QED
    BY <1>1, <2>1, <2>2, <2>3 DEF Acquired
<1>2. CASE Created(s)
  <2> DEFINE r == fib[s].target
             c == IF conn = None THEN None ELSE [conn EXCEPT !.avatars = @ \cup {r}]
  <2>1. CASE Ok(s) /\ LoginCommon(s, r, c)
    <3>1. r \in created /\ r \in Roid
      BY <1>2, <1>c, <2>1 DEF Created, Resumed, Ok, Fits
    <3>2. ConnFits(c, created)
      BY <1>c, <3>1 DEF ConnFits, Connection
    <3>3. LoginCommon(s, r, c)
      BY <2>1
    <3> HIDE DEF r, c
    <3>4. Logged(s, r, c)
          /\ sess' \in [Session -> {"new", "open", "shut", "gone"}]
      BY <1>c, <3>1, <3>3, LoginCommonCases
    <3> QED
      BY <1>c, <3>1, <3>2, <3>4, LoggedBase
  <2>2. CASE Ready(s) /\ UNCHANGED <<conn, sess>>
    BY <1>c, <2>2, ReadyBase
  <2>3. CASE Fail(s)
    BY <1>c, <2>3, FailBase
  <2> QED
    BY <1>2, <2>1, <2>2, <2>3 DEF Created
<1>3. CASE Loaded(s)
  <2>1. fib[s].target \in created /\ fib[s].target \in Roid
    BY <1>3, <1>c DEF Loaded, Resumed, Fits
  <2>2. LoginCommon(s, fib[s].target, conn)
    BY <1>3 DEF Loaded
  <2>3. Logged(s, fib[s].target, conn)
        /\ sess' \in [Session -> {"new", "open", "shut", "gone"}]
    BY <1>c, <2>1, <2>2, LoginCommonCases
  <2> QED
    BY <1>c, <2>1, <2>3, LoggedBase
<1>4. CASE LoggedOut(s)
  <2>1. CASE Fail(s)
    BY <1>c, <2>1, FailBase
  <2>2. CASE conn # None
    <3>1. /\ ConnFits(Unlocked(conn), created) /\ Unlocked(conn).roid = None
      BY <1>c, <2>2 DEF ConnFits, Connection, Unlocked
    <3>2. CASE conn' = Unlocked(conn) /\ Ready(s) /\ UNCHANGED sess
      BY <1>c, <3>1, <3>2, ReadyBase
    <3>3. CASE /\ fib[s].target # None
               /\ SendLogin(s, fib[s].target, Unlocked(conn))
      <4>1. fib[s].target \in created
        BY <1>4, <1>c, <3>3 DEF LoggedOut, Resumed, Fits
      <4>2. CASE Unlocked(conn) = None
        <5>1. CASE \E l \in Logic :
                     /\ conn' = [Unlocked(conn) EXCEPT !.roid = fib[s].target,
                                                       !.srv = l]
                     /\ Request(s, "login", None, fib[s].target, l)
                     /\ UNCHANGED sess
          <6> PICK l \in Logic :
                     /\ conn' = [Unlocked(conn) EXCEPT !.roid = fib[s].target,
                                                       !.srv = l]
                     /\ Request(s, "login", None, fib[s].target, l)
                     /\ UNCHANGED sess
            BY <5>1
          <6>1. ConnFits(conn', created)
            BY <1>c, <2>2, <4>1, ConstantFact DEF ConnFits, Connection, Unlocked
          <6> QED
            BY <1>c, <4>1, <6>1, RequestBase DEF Waiting
        <5>2. CASE conn' = Unlocked(conn) /\ Ready(s) /\ ShutDown({s})
          BY <1>c, <3>1, <5>2, ReadyBase, ShutDownType
        <5> QED
          BY <3>3, <5>1, <5>2 DEF SendLogin
      <4>3. CASE Unlocked(conn) # None
        <5>1. Logged(s, fib[s].target, Unlocked(conn))
              /\ sess' \in [Session -> {"new", "open", "shut", "gone"}]
          BY <1>c, <3>1, <3>3, <4>3, SendLoginCases
        <5> QED
          BY <1>c, <3>1, <4>1, <5>1, LoggedBase
      <4> QED
        BY <4>2, <4>3
    <3> QED
      BY <1>4, <2>1, <2>2, <3>2, <3>3 DEF LoggedOut
  <2> QED
    BY <1>4, <2>1, <2>2 DEF LoggedOut
<1>5. CASE LoggedIn(s)
  <2>1. CASE Ready(s) /\ UNCHANGED <<conn, sess>>
    BY <1>c, <2>1, ReadyBase
  <2>2. CASE Fail(s)
    BY <1>c, <2>2, FailBase
  <2> QED
    BY <1>5, <2>1, <2>2 DEF LoggedIn
<1> QED
  BY <1>1, <1>2, <1>3, <1>4, <1>5

LEMMA EndBase ==
  ASSUME BaseInv, NEW s \in Session,
         Open(s) \/ ClientCloses(s) \/ Close(s) \/ Closed(s) \/ PingTimeout
  PROVE  BaseInv'
<1>c. /\ ConnFits(conn, created) /\ created \subseteq Roid /\ TypeOK
      /\ sess \in [Session -> {"new", "open", "shut", "gone"}]
      /\ fib[s] \in FiberState /\ Fits(fib[s], created)
      /\ fib \in [Session -> FiberState]
  BY BaseFact DEF BaseInv, TypeOK
<1>n. ConnFits(None, created)
  BY DEF ConnFits
<1>1. CASE Open(s)
  <2> DEFINE x == [Idle EXCEPT !.pc = "insert", !.avatars = created]
  <2>1. x \in FiberState /\ x.pc = "insert" /\ x.avatars = created
    BY <1>c, IdleType DEF FiberState
  <2>2. fib' = [fib EXCEPT ![s] = x]
    BY <1>1 DEF Open
  <2>3. Fits(x, created)
    <3> HIDE DEF x
    <3> QED
      BY <2>1 DEF Fits
  <2>4. /\ UNCHANGED <<conn, created, online, check>>
        /\ sess' = [sess EXCEPT ![s] = "open"] /\ calm' \in BOOLEAN
    BY <1>1, <1>c DEF Open, TypeOK
  <2> HIDE DEF x
  <2>5. /\ fib' \in [Session -> FiberState]
        /\ \A t \in Session : FiberInv(t)'
    BY <2>1, <2>2, <2>3, <2>4, FiberStep
  <2>6. TypeOK'
    BY <1>c, <2>4, <2>5 DEF TypeOK
  <2>7. CreatedInv'
    BY <2>4 DEF BaseInv, CreatedInv
  <2> QED
    BY <2>5, <2>6, <2>7 DEF BaseInv
<1>2. CASE ClientCloses(s)
  <2>1. /\ sess' \in [Session -> {"new", "open", "shut", "gone"}]
        /\ fib' = [fib EXCEPT ![s] = fib[s]]
        /\ UNCHANGED <<conn, created, online, check, calm>>
    BY <1>2, <1>c, ShutDownType DEF ClientCloses
  <2> QED
    BY <1>c, <2>1, SessionStep
<1>3. CASE Close(s)
  <2>1. /\ sess' \in [Session -> {"new", "open", "shut", "gone"}]
        /\ conn' \in {conn, None}
        /\ UNCHANGED <<created, online, check, calm>>
    BY <1>3, <1>c DEF Close
  <2>2. CASE /\ conn # None /\ conn.roid # None
             /\ Request(s, "disconnect", None, conn.roid, conn.srv)
    <3>1. conn.roid \in Roid /\ conn.srv \in Logic
      BY <1>c, <2>2 DEF ConnFits, Connection
    <3> QED
      BY <1>c, <1>n, <2>1, <2>2, <3>1, RequestBase DEF Waiting
  <2>3. CASE fib' = [fib EXCEPT ![s].pc = "gone"]
    <3> DEFINE x == [fib[s] EXCEPT !.pc = "gone"]
    <3>1. x \in FiberState /\ x.pc = "gone" /\ x.avatars = fib[s].avatars
      BY <1>c DEF FiberState
    <3>2. fib' = [fib EXCEPT ![s] = x]
      BY <1>c, <2>3
    <3> HIDE DEF x
    <3>3. Fits(x, created)
      BY <1>c, <3>1 DEF Fits
    <3> QED
      BY <1>c, <1>n, <2>1, <3>1, <3>2, <3>3, SessionStep
  <2> QED
    BY <1>3, <2>2, <2>3 DEF Close, Handles
<1>4. CASE Closed(s)
  <2> DEFINE x == [Idle EXCEPT !.pc = "gone"]
  <2>1. x \in FiberState /\ Fits(x, created)
    BY IdleType DEF FiberState, Fits
  <2>2. fib' = [fib EXCEPT ![s] = x]
        /\ UNCHANGED <<conn, sess, created, online, check, calm>>
    BY <1>4 DEF Closed
  <2> HIDE DEF x
  <2> QED
    BY <1>c, <2>1, <2>2, SessionStep
<1>5. CASE PingTimeout
  <2>1. /\ sess' \in [Session -> {"new", "open", "shut", "gone"}]
        /\ fib' = [fib EXCEPT ![s] = fib[s]] /\ conn' = None
        /\ UNCHANGED <<created, online, check, calm>>
    BY <1>5, <1>c, ShutDownType DEF PingTimeout
  <2> QED
    BY <1>c, <1>n, <2>1, SessionStep
<1> QED
  BY <1>1, <1>2, <1>3, <1>4, <1>5

(* Servers only switch on what has been created.                           *)
LEMMA ServerStep ==
  ASSUME BaseInv, NEW s \in Session, NEW x \in FiberState,
         fib' = [fib EXCEPT ![s] = x], Fits(x, created'),
         created \subseteq created', created' \subseteq Roid,
         online' \in [Logic -> [Roid -> {"off", "on", "away"}]],
         \A l \in Logic, r \in Roid : online'[l][r] # "off" => r \in created',
         calm' \in BOOLEAN, UNCHANGED <<conn, sess, check>>
  PROVE  BaseInv'
<1>1. /\ fib' \in [Session -> FiberState]
      /\ \A t \in Session : FiberInv(t)'
  BY FiberStep
<1>2. TypeOK'
  BY <1>1 DEF BaseInv, TypeOK
<1>3. CreatedInv'
  BY DEF BaseInv, CreatedInv
<1> QED
  BY <1>1, <1>2, <1>3 DEF BaseInv

AnswerState(x, how) == [x EXCEPT !.done = how, !.roid = None, !.srv = None]

LEMMA AnswerType ==
  ASSUME NEW x \in FiberState, NEW how \in {"yes", "refused", "lost"}
  PROVE  LET y == AnswerState(x, how) IN
         /\ y \in FiberState /\ y.pc = x.pc /\ y.target = x.target
         /\ y.done = how /\ y.avatars = x.avatars
         /\ y.pending = x.pending /\ y.found = x.found
BY DEF AnswerState, FiberState

LEMMA AnswerFits ==
  ASSUME NEW C, NEW D, C \subseteq D, NEW x \in FiberState, Fits(x, C),
         NEW how \in {"yes", "refused", "lost"},
         x.pc = "create" /\ how = "yes" => x.target \in D
  PROVE  Fits(AnswerState(x, how), D)
<1> DEFINE y == AnswerState(x, how)
<1>1. /\ y.pc = x.pc /\ y.target = x.target
      /\ y.done = how /\ y.avatars = x.avatars
  BY AnswerType
<1> HIDE DEF y
<1>2. Fits(y, D)
  BY <1>1 DEF Fits
<1> QED
  BY <1>2 DEF y

LEMMA AnswerStep ==
  ASSUME BaseInv, NEW s \in Session, NEW how, Answer(s, how)
  PROVE  fib' = [fib EXCEPT ![s] = AnswerState(fib[s], how)]
BY DEF BaseInv, TypeOK, Answer, AnswerState

AskedState(x, P, F) == [x EXCEPT !.pending = P, !.found = F]

LEMMA AskedType ==
  ASSUME NEW x \in FiberState, NEW P \in SUBSET Logic,
         NEW F \in SUBSET (Logic \X Roid)
  PROVE  LET y == AskedState(x, P, F) IN
         /\ y \in FiberState /\ y.pc = x.pc /\ y.avatars = x.avatars
         /\ y.pending = P /\ y.found = F
BY DEF AskedState, FiberState

(* A logic server has answered logic/role/reconnect.                       *)
LEMMA ReconnectExecStep ==
  ASSUME BaseInv, NEW s \in Session, NEW l \in Logic, ReconnectExec(s, l)
  PROVE  \E F \in SUBSET (Logic \X Roid) :
           /\ fib' = [fib EXCEPT ![s] = AskedState(fib[s], fib[s].pending \ {l}, F)]
           /\ \/ \E r \in HasRole(l, fib[s].avatars) :
                   /\ online' = [online EXCEPT ![l][r] = "on"]
                   /\ F = fib[s].found \cup {<<l, r>>}
              \/ /\ HasRole(l, fib[s].avatars) = {}
                 /\ F = fib[s].found /\ UNCHANGED online
<1>c. /\ fib[s] \in FiberState /\ fib \in [Session -> FiberState]
      /\ fib[s].avatars \subseteq Roid /\ fib[s].found \subseteq Logic \X Roid
  BY BaseFact DEF BaseInv, TypeOK, FiberState
<1>1. CASE \E r \in HasRole(l, fib[s].avatars) :
             /\ online' = [online EXCEPT ![l][r] = "on"]
             /\ fib' = [fib EXCEPT ![s].pending = @ \ {l},
                                   ![s].found = @ \cup {<<l, r>>}]
  <2> PICK r \in HasRole(l, fib[s].avatars) :
             /\ online' = [online EXCEPT ![l][r] = "on"]
             /\ fib' = [fib EXCEPT ![s].pending = @ \ {l},
                                   ![s].found = @ \cup {<<l, r>>}]
    BY <1>1
  <2>1. fib[s].found \cup {<<l, r>>} \in SUBSET (Logic \X Roid)
    BY <1>c DEF HasRole
  <2>2. fib' = [fib EXCEPT ![s] = AskedState(fib[s], fib[s].pending \ {l},
                                             fib[s].found \cup {<<l, r>>})]
    BY <1>c DEF AskedState
  <2> QED
    BY <2>1, <2>2
<1>2. CASE /\ HasRole(l, fib[s].avatars) = {}
           /\ fib' = [fib EXCEPT ![s].pending = @ \ {l}]
           /\ UNCHANGED online
  <2>1. fib' = [fib EXCEPT ![s] = [fib[s] EXCEPT !.pending = @ \ {l}]]
    BY <1>c, <1>2
  <2>2. [fib[s] EXCEPT !.pending = @ \ {l}]
          = AskedState(fib[s], fib[s].pending \ {l}, fib[s].found)
    BY <1>c DEF AskedState, FiberState
  <2> QED
    BY <1>c, <1>2, <2>1, <2>2
<1> QED
  BY <1>1, <1>2 DEF ReconnectExec

LEMMA ServerBase ==
  ASSUME BaseInv, NEW s \in Session, Server(s) \/ Lost(s)
  PROVE  BaseInv'
<1>c. /\ created \subseteq Roid /\ TypeOK /\ CreatedInv
      /\ fib[s] \in FiberState /\ Fits(fib[s], created)
      /\ fib \in [Session -> FiberState]
      /\ online \in [Logic -> [Roid -> {"off", "on", "away"}]]
      /\ calm \in BOOLEAN
  BY BaseFact DEF BaseInv, TypeOK
<1>o. \A l \in Logic, r \in Roid : online[l][r] # "off" => r \in created
  BY <1>c DEF CreatedInv
<1>1. CASE NicknameExec(s) \/ Lost(s)
  <2>1. /\ UNCHANGED <<conn, sess, created, online, check>>
        /\ calm' \in BOOLEAN
    BY <1>1, <1>c DEF NicknameExec, Lost
  <2>2. PICK how \in {"yes", "refused", "lost"} :
           /\ Answer(s, how)
           /\ how = "yes" => fib[s].pc # "create"
    BY <1>1 DEF NicknameExec, Lost, Checked
  <2>3. Fits(AnswerState(fib[s], how), created)
    BY <1>c, <2>2, AnswerFits
  <2>4. AnswerState(fib[s], how) \in FiberState
    BY <1>c, AnswerType
  <2>5. fib' = [fib EXCEPT ![s] = AnswerState(fib[s], how)]
    BY <2>2, AnswerStep
  <2> QED
    BY <1>c, <1>o, <2>1, <2>3, <2>4, <2>5, ServerStep
<1>2. CASE MonitorExec(s)
  <2>1. /\ UNCHANGED <<conn, sess, online, check, calm>>
        /\ fib[s].pc \in {"create", "load"}
    BY <1>2 DEF MonitorExec
  <2>h. PICK how \in {"yes", "refused"} :
          /\ Answer(s, how)
          /\ \/ created' = IF fib[s].pc = "create"
                           THEN created \cup {fib[s].target} ELSE created
             \/ how = "refused" /\ created' = created
    BY <1>2 DEF MonitorExec
  <2>2. fib[s].target \in Roid
    BY <1>c, <2>1 DEF Fits
  <2>3. created \subseteq created' /\ created' \subseteq Roid
        /\ (fib[s].pc = "create" /\ how = "yes" => fib[s].target \in created')
    BY <1>c, <2>1, <2>2, <2>h
  <2>4. Fits(AnswerState(fib[s], how), created')
    BY <1>c, <2>3, AnswerFits
  <2>5. AnswerState(fib[s], how) \in FiberState
    BY <1>c, AnswerType
  <2>6. fib' = [fib EXCEPT ![s] = AnswerState(fib[s], how)]
    BY <2>h, AnswerStep
  <2> QED
    BY <1>c, <1>o, <2>1, <2>3, <2>4, <2>5, <2>6, ServerStep
<1>3. CASE LogicExec(s)
  <2> DEFINE l == fib[s].srv
             r == fib[s].roid
             state == CASE fib[s].pc = "login" -> "on"
                        [] fib[s].pc = "disconnect" /\ online[l][r] # "off" -> "away"
                        [] OTHER -> "off"
  <2>1. /\ UNCHANGED <<conn, sess, created, check, calm>>
        /\ fib[s].pc \in {"login", "logout", "disconnect"}
        /\ fib[s].done = "no" /\ Answer(s, "yes")
        /\ online' = [online EXCEPT ![l][r] = state]
    BY <1>3 DEF LogicExec
  <2>2. /\ r \in Roid /\ l \in Logic /\ state \in {"off", "on", "away"}
        /\ state # "off" => r \in created
    BY <1>c, <1>o, <2>1 DEF Fits
  <2>3. Fits(AnswerState(fib[s], "yes"), created)
    BY <1>c, <2>1, AnswerFits
  <2>4. AnswerState(fib[s], "yes") \in FiberState
    BY <1>c, AnswerType
  <2>5. fib' = [fib EXCEPT ![s] = AnswerState(fib[s], "yes")]
    BY <2>1, AnswerStep
  <2> HIDE DEF l, r, state
  <2>6. /\ online' \in [Logic -> [Roid -> {"off", "on", "away"}]]
        /\ \A m \in Logic, q \in Roid : online'[m][q] # "off" => q \in created
    BY <1>c, <1>o, <2>1, <2>2
  <2> QED
    BY <1>c, <2>1, <2>3, <2>4, <2>5, <2>6, ServerStep
<1>4. ASSUME NEW l \in Logic, ReconnectExec(s, l) PROVE BaseInv'
  <2>1. UNCHANGED <<conn, sess, created, check, calm>>
        /\ fib[s].pc = "reconnect"
    BY <1>4 DEF ReconnectExec
  <2>2. PICK F \in SUBSET (Logic \X Roid) :
           /\ fib' = [fib EXCEPT ![s] = AskedState(fib[s], fib[s].pending \ {l}, F)]
           /\ \/ \E r \in HasRole(l, fib[s].avatars) :
                   /\ online' = [online EXCEPT ![l][r] = "on"]
                   /\ F = fib[s].found \cup {<<l, r>>}
              \/ /\ HasRole(l, fib[s].avatars) = {}
                 /\ F = fib[s].found /\ UNCHANGED online
    BY <1>4, ReconnectExecStep
  <2> DEFINE x == AskedState(fib[s], fib[s].pending \ {l}, F)
  <2>3. fib[s].pending \ {l} \in SUBSET Logic
    BY <1>c DEF FiberState
  <2>4. x \in FiberState /\ x.pc = fib[s].pc /\ x.avatars = fib[s].avatars
    BY <1>c, <2>3, AskedType
  <2>5. fib' = [fib EXCEPT ![s] = x]
    BY <2>2
  <2> HIDE DEF x
  <2>6. Fits(x, created)
    BY <1>c, <2>1, <2>4 DEF Fits
  <2>7. /\ online' \in [Logic -> [Roid -> {"off", "on", "away"}]]
        /\ \A m \in Logic, q \in Roid : online'[m][q] # "off" => q \in created
    <3>1. CASE UNCHANGED online
      BY <1>c, <1>o, <3>1
    <3>2. CASE \E r \in HasRole(l, fib[s].avatars) :
                 online' = [online EXCEPT ![l][r] = "on"]
      <4> PICK r \in HasRole(l, fib[s].avatars) :
                 online' = [online EXCEPT ![l][r] = "on"]
        BY <3>2
      <4>1. r \in created /\ r \in Roid
        BY <1>c DEF HasRole, Fits
      <4> QED
        BY <1>c, <1>o, <4>1
    <3> QED
      BY <2>2, <3>1, <3>2
  <2> QED
    BY <1>c, <2>1, <2>4, <2>5, <2>6, <2>7, ServerStep
<1> QED
  BY <1>1, <1>2, <1>3, <1>4 DEF Server

LEMMA ReconnectLostBase ==
  ASSUME BaseInv, NEW s \in Session, NEW l \in Logic, ReconnectLost(s, l)
  PROVE  BaseInv'
<1>c. /\ created \subseteq Roid /\ TypeOK /\ CreatedInv
      /\ fib[s] \in FiberState /\ Fits(fib[s], created)
      /\ fib \in [Session -> FiberState]
      /\ online \in [Logic -> [Roid -> {"off", "on", "away"}]]
  BY BaseFact DEF BaseInv, TypeOK
<1>o. \A m \in Logic, r \in Roid : online[m][r] # "off" => r \in created
  BY <1>c DEF CreatedInv
<1> DEFINE x == [fib[s] EXCEPT !.pending = @ \ {l}]
<1>1. x \in FiberState /\ x.pc = fib[s].pc /\ x.avatars = fib[s].avatars
  BY <1>c DEF FiberState
<1>2. fib' = [fib EXCEPT ![s] = x]
  BY <1>c DEF ReconnectLost
<1> HIDE DEF x
<1>3. Fits(x, created)
  BY <1>c, <1>1 DEF Fits, ReconnectLost
<1>4. /\ online' \in [Logic -> [Roid -> {"off", "on", "away"}]]
      /\ \A m \in Logic, q \in Roid : online'[m][q] # "off" => q \in created
  <2>1. CASE UNCHANGED online
    BY <1>c, <1>o, <2>1
  <2>2. CASE \E r \in HasRole(l, fib[s].avatars) :
               online' = [online EXCEPT ![l][r] = "on"]
    <3> PICK r \in HasRole(l, fib[s].avatars) :
               online' = [online EXCEPT ![l][r] = "on"]
      BY <2>2
    <3>1. r \in created /\ r \in Roid
      BY <1>c DEF HasRole, Fits
    <3> QED
      BY <1>c, <1>o, <3>1
  <2> QED
    BY <2>1, <2>2 DEF ReconnectLost
<1>5. UNCHANGED <<conn, sess, created, check>> /\ calm' \in BOOLEAN
  BY DEF ReconnectLost
<1> QED
  BY <1>c, <1>1, <1>2, <1>3, <1>4, <1>5, ServerStep

(* The timers switch nothing on.                                           *)
LEMMA TimerFact ==
  ASSUME BaseInv, NEW l \in Logic,
         Timer(l) \/ \E r \in Roid : Expire(l, r)
  PROVE  /\ online' \in [Logic -> [Roid -> {"off", "on", "away"}]]
         /\ \A m \in Logic, q \in Roid : online'[m][q] # "off" => online[m][q] # "off"
         /\ check' \in [Logic -> [roid : Roid \cup {None}, elsewhere : BOOLEAN]]
         /\ UNCHANGED <<conn, sess, fib, created, calm>>
<1>c. /\ online \in [Logic -> [Roid -> {"off", "on", "away"}]]
      /\ check \in [Logic -> [roid : Roid \cup {None}, elsewhere : BOOLEAN]]
  BY DEF BaseInv, TypeOK
<1>1. CASE CheckStart(l)
  BY <1>1, <1>c DEF CheckStart
<1>2. CASE CheckExec(l)
  BY <1>2, <1>c DEF CheckExec, NoCheck
<1>3. CASE CheckDone(l)
  <2> DEFINE r == check[l].roid
  <2>1. online' = [online EXCEPT ![l][r] = IF @ = "on" THEN "away" ELSE @]
        /\ check' = [check EXCEPT ![l] = NoCheck]
        /\ UNCHANGED <<conn, sess, fib, created, calm>>
    BY <1>3 DEF CheckDone
  <2>2. online' = [online EXCEPT ![l] = [online[l] EXCEPT ![r] =
                     IF online[l][r] = "on" THEN "away" ELSE online[l][r]]]
    BY <1>c, <2>1
  <2> HIDE DEF r
  <2>3. /\ online' \in [Logic -> [Roid -> {"off", "on", "away"}]]
        /\ \A m \in Logic, q \in Roid : online'[m][q] # "off" => online[m][q] # "off"
    BY <1>c, <2>2
  <2> QED
    BY <1>c, <2>1, <2>3 DEF NoCheck
<1>4. ASSUME NEW r \in Roid, Expire(l, r)
      PROVE  /\ online' \in [Logic -> [Roid -> {"off", "on", "away"}]]
             /\ \A m \in Logic, q \in Roid :
                  online'[m][q] # "off" => online[m][q] # "off"
             /\ UNCHANGED <<conn, sess, fib, created, check, calm>>
  BY <1>4, <1>c DEF Expire
<1> QED
  BY <1>1, <1>2, <1>3, <1>4, <1>c DEF Timer

LEMMA TimerBase ==
  ASSUME BaseInv, NEW l \in Logic,
         Timer(l) \/ \E r \in Roid : Expire(l, r)
  PROVE  BaseInv'
<1>1. TypeOK'
  BY TimerFact DEF BaseInv, TypeOK
<1>2. CreatedInv'
  BY TimerFact DEF BaseInv, CreatedInv
<1>3. \A s \in Session : FiberInv(s)'
  BY TimerFact DEF BaseInv, FiberInv
<1> QED
  BY <1>1, <1>2, <1>3 DEF BaseInv

LEMMA NextBase == ASSUME BaseInv, [Next]_vars PROVE BaseInv'
<1>1. ASSUME NEW s \in Session, Handler(s) PROVE BaseInv'
  BY <1>1, ConnectBase, RepliedBase, EndBase DEF Handler
<1>2. ASSUME NEW s \in Session, Event(s) \/ Server(s) \/ Lost(s) PROVE BaseInv'
  BY <1>2, EventBase, ServerBase
<1>3. ASSUME NEW s \in Session, Open(s) \/ ClientCloses(s) PROVE BaseInv'
  BY <1>3, EndBase
<1>4. CASE PingTimeout
  <2>1. conn # None
    BY <1>4 DEF PingTimeout
  <2>2. conn.session \in Session
    BY <2>1 DEF BaseInv, TypeOK, Connection
  <2> QED
    BY <1>4, <2>2, EndBase
<1>5. CASE UNCHANGED vars
  BY <1>5 DEF vars, BaseInv, TypeOK, CreatedInv, FiberInv
<1> QED
  BY <1>1, <1>2, <1>3, <1>4, <1>5, ReconnectLostBase, TimerBase DEF Next

(***************************************************************************)
(* Calm conditions: what is known when session s has the fiber x, c is the *)
(* connection and o what the logic servers have.                           *)
(***************************************************************************)
OnlyOn(o, l, r) ==
  \A m \in Logic, q \in Roid : o[m][q] # "off" => m = l /\ q = r

NoneOn(o) == \A l \in Logic, r \in Roid : o[l][r] = "off"

OneOn(o) ==
  \A l, m \in Logic, r, q \in Roid :
    o[l][r] # "off" /\ o[m][q] # "off" => l = m /\ r = q

FiberCalm(x, o) ==
  /\ x.pc \in {"login", "logout"} /\ x.done = "no" => OnlyOn(o, x.srv, x.roid)
  /\ x.pc = "logout" /\ x.done # "no" => NoneOn(o)
  /\ x.pc \in {"insert", "reconnect"} =>
       \A l \in Logic, r \in Roid : o[l][r] # "off" => r \in x.avatars
  /\ x.pc = "insert" => x.found = {}
  /\ x.pc = "reconnect" =>
       /\ \A p \in x.found : OnlyOn(o, p[1], p[2])
       /\ \A p, q \in x.found : p = q
       /\ \A l \in Logic, r \in Roid : o[l][r] # "off" =>
            l \in x.pending \/ <<l, r>> \in x.found

ConnCalm(s, x, c, o) ==
  c # None =>
    /\ c.session = s
    /\ x.pc \notin {"new", "gone", "insert", "disconnect"}
    /\ IF x.pc = "reconnect" THEN c.roid = None ELSE OnlyOn(o, c.srv, c.roid)
    /\ x.pc = "login" /\ x.done = "no" => c.srv = x.srv /\ c.roid = x.roid

CalmFits(s, x, c, o) == OneOn(o) /\ FiberCalm(x, o) /\ ConnCalm(s, x, c, o)

LEMMA CalmFact ==
  ASSUME BaseInv, CalmInv, NEW s \in Session, Active(s)
  PROVE  CalmFits(s, fib[s], conn, online)
<1>1. OneOn(online)
  BY DEF CalmInv, OneInv, OneOn
<1>2. FiberCalm(fib[s], online)
  BY DEF CalmInv, PendingInv, ReconnectInv, Only, FiberCalm, OnlyOn, NoneOn
<1>3. CASE conn # None
  <2>1. conn.session \in Session
    BY <1>3 DEF BaseInv, TypeOK, Connection
  <2>2. Active(conn.session)
    BY <1>3 DEF CalmInv, OneInv
  <2>3. conn.session = s
    BY <2>1, <2>2 DEF CalmInv, OneInv
  <2>4. /\ fib[s].pc \notin {"insert", "disconnect"}
        /\ IF fib[s].pc = "reconnect" THEN conn.roid = None
           ELSE Only(conn.srv, conn.roid)
        /\ fib[s].pc = "login" /\ fib[s].done = "no" =>
             conn.srv = fib[s].srv /\ conn.roid = fib[s].roid
    BY <1>3, <2>3 DEF CalmInv, OneInv
  <2>5. ConnCalm(s, fib[s], conn, online)
    BY <2>3, <2>4 DEF ConnCalm, Active, Only, OnlyOn
  <2> QED
    BY <1>1, <1>2, <2>5 DEF CalmFits
<1>4. CASE conn = None
  BY <1>1, <1>2, <1>4 DEF CalmFits, ConnCalm
<1> QED
  BY <1>3, <1>4

(* The only session that is there takes a step.                            *)
LEMMA CalmStep ==
  ASSUME BaseInv, NEW s \in Session, NEW x \in FiberState,
         \A t \in Session \ {s} : ~Active(t),
         fib' = [fib EXCEPT ![s] = x], CalmFits(s, x, conn', online')
  PROVE  CalmInv'
<1>1. fib'[s] = x /\ \A t \in Session \ {s} : fib'[t] = fib[t]
  BY DEF BaseInv, TypeOK
<1>2. ASSUME NEW t \in Session, t # s PROVE fib'[t].pc \in {"new", "gone"}
  BY <1>1, <1>2 DEF Active
<1>3. OneInv'
  <2>1. \A t, u \in Session : Active(t)' /\ Active(u)' => t = u
    BY <1>2 DEF Active
  <2>2. OneOn(online')
    BY DEF CalmFits
  <2>3. conn' # None =>
          /\ conn'.session = s
          /\ x.pc \notin {"new", "gone", "insert", "disconnect"}
          /\ IF x.pc = "reconnect" THEN conn'.roid = None
             ELSE OnlyOn(online', conn'.srv, conn'.roid)
          /\ x.pc = "login" /\ x.done = "no" =>
               conn'.srv = x.srv /\ conn'.roid = x.roid
    BY DEF CalmFits, ConnCalm
  <2> QED
    BY <1>1, <2>1, <2>2, <2>3 DEF OneInv, Active, OneOn, OnlyOn, Only
<1>4. FiberCalm(x, online')
  BY DEF CalmFits
<1>5. ASSUME NEW t \in Session PROVE PendingInv(t)' /\ ReconnectInv(t)'
  <2>1. CASE t = s
    <3>1. PendingInv(t)'
      BY <1>1, <1>4, <2>1 DEF PendingInv, FiberCalm, Only, OnlyOn, NoneOn
    <3>2. ReconnectInv(t)'
      BY <1>1, <1>4, <2>1 DEF ReconnectInv, FiberCalm, Only, OnlyOn
    <3> QED
      BY <3>1, <3>2
  <2>2. CASE t # s
    BY <1>2, <2>2 DEF PendingInv, ReconnectInv
  <2> QED
    BY <2>1, <2>2
<1> QED
  BY <1>3, <1>5 DEF CalmInv

LEMMA CalmAlone ==
  ASSUME CalmInv, NEW s \in Session, Active(s)
  PROVE  \A t \in Session \ {s} : ~Active(t)
BY DEF CalmInv, OneInv

LEMMA NoneOnFact ==
  ASSUME NEW o, NoneOn(o) \/ OnlyOn(o, None, None)
  PROVE  /\ NoneOn(o) /\ OneOn(o) /\ \A l, r : OnlyOn(o, l, r)
BY ConstantFact DEF NoneOn, OnlyOn, OneOn

LEMMA CalmReady ==
  ASSUME BaseInv, CalmInv, NEW s \in Session, Active(s), Ready(s),
         conn' # None => conn'.session = s /\ OnlyOn(online, conn'.srv, conn'.roid),
         UNCHANGED online
  PROVE  CalmInv'
<1>1. /\ ReadyState \in FiberState /\ ReadyState.pc = "ready"
      /\ fib' = [fib EXCEPT ![s] = ReadyState]
  BY ReadyType DEF Ready, ReadyState
<1>2. FiberCalm(ReadyState, online')
  BY <1>1 DEF FiberCalm
<1>3. OneOn(online')
  BY CalmFact DEF CalmFits
<1>4. ConnCalm(s, ReadyState, conn', online')
  BY <1>1 DEF ConnCalm
<1> QED
  BY <1>1, <1>2, <1>3, <1>4, CalmStep, CalmAlone DEF CalmFits

LEMMA CalmConn ==
  ASSUME BaseInv, CalmInv, NEW s \in Session, Active(s),
         fib[s].pc # "reconnect", conn # None
  PROVE  conn.session = s /\ OnlyOn(online, conn.srv, conn.roid)
BY CalmFact DEF CalmFits, ConnCalm

LEMMA CalmFail ==
  ASSUME BaseInv, CalmInv, NEW s \in Session, Active(s), Fail(s),
         conn = None \/ fib[s].pc # "reconnect", UNCHANGED online
  PROVE  CalmInv'
<1>1. Ready(s) /\ conn' = conn
  BY DEF Fail
<1> QED
  BY <1>1, CalmReady, CalmConn

LEMMA CalmRequest ==
  ASSUME BaseInv, CalmInv, NEW s \in Session, Active(s),
         NEW pc \in Waiting, NEW target \in Roid \cup {None},
         NEW roid \in Roid \cup {None}, NEW srv \in Logic \cup {None},
         Request(s, pc, target, roid, srv),
         conn' # None => conn'.session = s /\ OnlyOn(online, conn'.srv, conn'.roid),
         pc \in {"login", "logout"} => OnlyOn(online, srv, roid),
         pc = "login" /\ conn' # None => conn'.srv = srv /\ conn'.roid = roid,
         pc = "disconnect" => conn' = None,
         UNCHANGED online
  PROVE  CalmInv'
<1> DEFINE x == RequestState(pc, target, roid, srv)
<1>1. /\ x \in FiberState /\ x.pc = pc /\ x.roid = roid
      /\ x.srv = srv /\ x.done = "no"
  BY IdleType DEF RequestState, FiberState
<1>2. fib' = [fib EXCEPT ![s] = x]
  BY DEF Request, RequestState
<1> HIDE DEF x
<1>3. FiberCalm(x, online')
  BY <1>1 DEF FiberCalm, Waiting
<1>4. OneOn(online')
  BY CalmFact DEF CalmFits
<1>5. ConnCalm(s, x, conn', online')
  BY <1>1 DEF ConnCalm, Waiting
<1> QED
  BY <1>1, <1>2, <1>3, <1>4, <1>5, CalmStep, CalmAlone DEF CalmFits

(***************************************************************************)
(* Every action keeps the calm.                                            *)
(***************************************************************************)
LEMMA CalmLogged ==
  ASSUME BaseInv, CalmInv, NEW s \in Session, Active(s), NEW r \in Roid, NEW c,
         ConnFits(c, created), Logged(s, r, c), c = None => conn = None,
         c # None => c.session = s /\ OnlyOn(online, c.srv, c.roid),
         UNCHANGED online
  PROVE  CalmInv'
<1>1. CASE /\ conn' \in {c, conn} /\ (conn' = c \/ c = None)
           /\ fib' = [fib EXCEPT ![s] = ReadyState]
  <2>1. Ready(s)
    BY <1>1 DEF Ready, ReadyState
  <2>2. conn' # None => conn'.session = s /\ OnlyOn(online, conn'.srv, conn'.roid)
    BY <1>1
  <2> QED
    BY <2>1, <2>2, CalmReady
<1>2. CASE /\ c # None /\ c.roid \notin {None, r} /\ conn' = c
           /\ fib' = [fib EXCEPT ![s] = RequestState("logout", r, c.roid, c.srv)]
  <2>1. c.roid \in Roid /\ c.srv \in Logic
    BY <1>2 DEF ConnFits, Connection
  <2>2. Request(s, "logout", r, c.roid, c.srv)
    BY <1>2 DEF Request, RequestState
  <2> QED
    BY <1>2, <2>1, <2>2, CalmRequest DEF Waiting
<1>3. CASE /\ c # None /\ c.roid = None
           /\ \E l \in Logic :
                /\ conn' = [c EXCEPT !.roid = r, !.srv = l]
                /\ fib' = [fib EXCEPT ![s] = RequestState("login", None, r, l)]
  <2> PICK l \in Logic :
         /\ conn' = [c EXCEPT !.roid = r, !.srv = l]
         /\ fib' = [fib EXCEPT ![s] = RequestState("login", None, r, l)]
    BY <1>3
  <2>1. /\ conn'.session = s /\ conn'.srv = l /\ conn'.roid = r
        /\ c.srv = None
    BY <1>3 DEF ConnFits, Connection
  <2>2. \A m, q : OnlyOn(online, m, q)
    BY <1>3, <2>1, NoneOnFact
  <2>3. Request(s, "login", None, r, l)
    BY DEF Request, RequestState
  <2> QED
    BY <2>1, <2>2, <2>3, CalmRequest DEF Waiting
<1> QED
  BY <1>1, <1>2, <1>3 DEF Logged

LEMMA EventCalm ==
  ASSUME BaseInv, CalmInv, NEW s \in Session, Event(s)
  PROVE  CalmInv'
<1>1. /\ fib[s].pc = "ready" /\ conn # None /\ conn' = conn
      /\ UNCHANGED online
  BY DEF Event, Create, Login, Logout, Handles, SendLogout
<1>2. Active(s)
  BY <1>1 DEF Active
<1>3. conn.session = s /\ OnlyOn(online, conn.srv, conn.roid)
  BY <1>1, <1>2, CalmConn
<1>4. ASSUME NEW r \in Roid, Create(s, r) PROVE CalmInv'
  <2>1. Request(s, "acquire", r, None, None)
    BY <1>4 DEF Create
  <2> QED
    BY <1>1, <1>2, <1>3, <2>1, CalmRequest DEF Waiting
<1>5. ASSUME NEW r \in Roid, Login(s, r) PROVE CalmInv'
  <2>1. Request(s, "load", r, None, None)
    BY <1>5 DEF Login
  <2> QED
    BY <1>1, <1>2, <1>3, <2>1, CalmRequest DEF Waiting
<1>6. CASE Logout(s)
  <2>1. conn.roid # None /\ Request(s, "logout", None, conn.roid, conn.srv)
    BY <1>6 DEF Logout, SendLogout
  <2>2. conn.roid \in Roid /\ conn.srv \in Logic
    BY <1>1, <2>1, BaseFact DEF ConnFits, Connection
  <2> QED
    BY <1>1, <1>2, <1>3, <2>1, <2>2, CalmRequest DEF Waiting
<1> QED
  BY <1>4, <1>5, <1>6 DEF Event

LEMMA RepliedCalm ==
  ASSUME BaseInv, CalmInv, NEW s \in Session,
         Acquired(s) \/ Created(s) \/ Loaded(s) \/ LoggedIn(s)
  PROVE  CalmInv'
<1>1. /\ fib[s].pc \in {"acquire", "create", "load", "login"}
      /\ UNCHANGED online
  BY DEF Acquired, Created, Loaded, LoggedIn, Resumed
<1>2. Active(s)
  BY <1>1 DEF Active
<1>3. conn # None => conn.session = s /\ OnlyOn(online, conn.srv, conn.roid)
  BY <1>1, <1>2, CalmConn
<1>4. CASE Ready(s) /\ UNCHANGED conn
  BY <1>1, <1>2, <1>3, <1>4, CalmReady
<1>5. CASE Fail(s)
  BY <1>1, <1>2, <1>5, CalmFail
<1>6. CASE Acquired(s) /\ UNCHANGED conn
           /\ Request(s, "create", fib[s].target, None, None)
  <2>1. fib[s].target \in Roid
    BY <1>6, BaseFact DEF Acquired, Resumed, Fits
  <2> QED
    BY <1>1, <1>2, <1>3, <1>6, <2>1, CalmRequest DEF Waiting
<1>7. ASSUME Created(s),
             LoginCommon(s, fib[s].target,
                         IF conn = None THEN None
                         ELSE [conn EXCEPT !.avatars = @ \cup {fib[s].target}])
      PROVE  CalmInv'
  <2> DEFINE r == fib[s].target
             c == IF conn = None THEN None ELSE [conn EXCEPT !.avatars = @ \cup {r}]
  <2>1. r \in Roid
    BY <1>7, BaseFact DEF Created, Resumed, Fits
  <2>2. r \in created \/ ~Ok(s)
    BY <1>7, BaseFact DEF Created, Resumed, Ok, Fits
  <2>3. CASE conn = None
    <3>1. LoginCommon(s, r, None)
      BY <1>7, <2>3
    <3>2. Logged(s, r, None) /\ ConnFits(None, created)
      BY <2>1, <3>1, LoginCommonCases DEF BaseInv, ConnFits
    <3> QED
      BY <1>1, <1>2, <2>1, <2>3, <3>2, CalmLogged
  <2>4. CASE conn # None /\ ~Ok(s)
    BY <1>4, <1>5, <1>7, <2>4 DEF Created
  <2>5. CASE conn # None /\ Ok(s)
    <3>1. /\ conn \in Connection /\ (conn.roid = None <=> conn.srv = None)
          /\ conn.avatars \subseteq created
      BY <2>5, BaseFact DEF ConnFits
    <3>2. /\ c \in Connection /\ c.session = conn.session /\ c.roid = conn.roid
          /\ c.srv = conn.srv /\ c.avatars = conn.avatars \cup {r}
      BY <2>1, <2>5, <3>1 DEF Connection
    <3>3. LoginCommon(s, r, c)
      BY <1>7
    <3> HIDE DEF c, r
    <3>4. ConnFits(c, created)
      BY <2>2, <2>5, <3>1, <3>2 DEF ConnFits
    <3>5. Logged(s, r, c)
      BY <2>1, <3>3, LoginCommonCases DEF BaseInv
    <3>6. CASE c = None
      BY <1>5, <3>3, <3>6 DEF LoginCommon
    <3>7. CASE c # None
      BY <1>1, <1>2, <1>3, <2>1, <2>5, <3>2, <3>4, <3>5, <3>7, CalmLogged
    <3> QED
      BY <3>6, <3>7
  <2> QED
    BY <2>3, <2>4, <2>5
<1>8. CASE Loaded(s)
  <2>1. fib[s].target \in Roid /\ LoginCommon(s, fib[s].target, conn)
    BY <1>8, BaseFact DEF Loaded, Resumed, Fits
  <2>2. Logged(s, fib[s].target, conn)
    BY <2>1, LoginCommonCases DEF BaseInv
  <2> QED
    BY <1>1, <1>2, <1>3, <2>1, <2>2, BaseFact, CalmLogged
<1> QED
  BY <1>4, <1>5, <1>6, <1>7, <1>8 DEF Acquired, Created, Loaded, LoggedIn

LEMMA LoggedOutCalm ==
  ASSUME BaseInv, CalmInv, NEW s \in Session, LoggedOut(s)
  PROVE  CalmInv'
<1>1. fib[s].pc = "logout" /\ fib[s].done # "no" /\ UNCHANGED online
  BY DEF LoggedOut, Resumed
<1>2. Active(s)
  BY <1>1 DEF Active
<1>3. conn # None => conn.session = s
  BY <1>1, <1>2, CalmConn
<1>4. \A l, r : OnlyOn(online, l, r)
  <2>1. NoneOn(online)
    BY <1>1, <1>2, CalmFact DEF CalmFits, FiberCalm
  <2> QED
    BY <2>1, NoneOnFact
<1>5. CASE conn = None /\ Fail(s)
  BY <1>1, <1>2, <1>5, CalmFail
<1>6. CASE conn # None /\ Ready(s) /\ conn' = Unlocked(conn)
  <2>1. conn \in Connection
    BY <1>6, BaseFact DEF ConnFits
  <2>2. conn'.session = s
    BY <1>3, <1>6, <2>1 DEF Unlocked, Connection
  <2> QED
    BY <1>1, <1>2, <1>4, <1>6, <2>2, CalmReady
<1>7. CASE /\ conn # None /\ fib[s].target # None
           /\ SendLogin(s, fib[s].target, Unlocked(conn))
  <2>1. conn \in Connection /\ fib[s].target \in Roid
    BY <1>7, BaseFact DEF ConnFits, FiberState
  <2>2. CASE Ready(s) /\ conn' = Unlocked(conn)
    BY <1>6, <1>7, <2>2
  <2>3. ASSUME NEW l \in Logic,
               conn' = [Unlocked(conn) EXCEPT !.roid = fib[s].target, !.srv = l],
               Request(s, "login", None, fib[s].target, l)
        PROVE  CalmInv'
    <3>1. conn'.session = s /\ conn'.roid = fib[s].target /\ conn'.srv = l
      BY <1>3, <1>7, <2>1, <2>3 DEF Unlocked, Connection
    <3> QED
      BY <1>1, <1>2, <1>4, <2>1, <2>3, <3>1, CalmRequest DEF Waiting
  <2> QED
    BY <1>7, <2>2, <2>3 DEF SendLogin
<1> QED
  BY <1>5, <1>6, <1>7 DEF LoggedOut

LEMMA InsertCalm ==
  ASSUME BaseInv, CalmInv, NEW s \in Session, Insert(s)
  PROVE  CalmInv'
<1>c. /\ fib[s] \in FiberState /\ fib \in [Session -> FiberState]
      /\ online \in [Logic -> [Roid -> {"off", "on", "away"}]]
  BY BaseFact DEF BaseInv, TypeOK
<1>1. /\ fib[s].pc = "insert" /\ UNCHANGED online
      /\ conn'.session = s /\ conn'.roid = None /\ conn'.srv = None
  BY DEF Insert
<1>2. Active(s)
  BY <1>1 DEF Active
<1>3. /\ \A l \in Logic, r \in Roid : online[l][r] # "off" => r \in fib[s].avatars
      /\ fib[s].found = {} /\ OneOn(online)
  BY <1>1, <1>2, CalmFact DEF CalmFits, FiberCalm
<1>4. CASE fib[s].avatars = {} /\ Ready(s)
  <2>1. NoneOn(online)
    BY <1>3, <1>4 DEF NoneOn
  <2> QED
    BY <1>1, <1>2, <1>4, <2>1, NoneOnFact, CalmReady
<1>5. CASE fib' = [fib EXCEPT ![s].pc = "reconnect", ![s].pending = Logic]
  <2> DEFINE x == [fib[s] EXCEPT !.pc = "reconnect", !.pending = Logic]
  <2>1. /\ x \in FiberState /\ x.pc = "reconnect" /\ x.pending = Logic
        /\ x.avatars = fib[s].avatars /\ x.found = {}
    BY <1>c, <1>3 DEF FiberState
  <2>2. fib' = [fib EXCEPT ![s] = x]
    BY <1>c, <1>5
  <2> HIDE DEF x
  <2>3. FiberCalm(x, online')
    BY <1>1, <1>3, <2>1 DEF FiberCalm
  <2>4. ConnCalm(s, x, conn', online')
    BY <1>1, <2>1 DEF ConnCalm
  <2>5. CalmFits(s, x, conn', online')
    BY <1>1, <1>3, <2>3, <2>4 DEF CalmFits
  <2> QED
    BY <1>2, <2>1, <2>2, <2>5, CalmStep, CalmAlone
<1> QED
  BY <1>4, <1>5 DEF Insert

LEMMA ReconnectedCalm ==
  ASSUME BaseInv, CalmInv, NEW s \in Session, Reconnected(s)
  PROVE  CalmInv'
<1>1. /\ fib[s].pc = "reconnect" /\ fib[s].pending = {} /\ UNCHANGED online
  BY DEF Reconnected
<1>2. Active(s)
  BY <1>1 DEF Active
<1>3. /\ \A p \in fib[s].found : OnlyOn(online, p[1], p[2])
      /\ \A l \in Logic, r \in Roid : online[l][r] # "off" => <<l, r>> \in fib[s].found
      /\ conn # None => conn.session = s
  BY <1>1, <1>2, CalmFact DEF CalmFits, FiberCalm, ConnCalm
<1>4. CASE conn = None /\ Fail(s)
  BY <1>1, <1>2, <1>4, CalmFail
<1>5. ASSUME conn # None, Ready(s), NEW p \in fib[s].found,
             conn' = [conn EXCEPT !.srv = p[1], !.roid = p[2]]
      PROVE  CalmInv'
  <2>1. conn \in Connection
    BY <1>5, BaseFact DEF ConnFits
  <2>2. conn'.session = s /\ conn'.srv = p[1] /\ conn'.roid = p[2]
    BY <1>3, <1>5, <2>1 DEF Connection
  <2> QED
    BY <1>1, <1>2, <1>3, <1>5, <2>2, CalmReady
<1>6. CASE conn # None /\ fib[s].found = {} /\ UNCHANGED conn
  <2>1. \A l, r : OnlyOn(online, l, r)
    <3>1. NoneOn(online)
      BY <1>3, <1>6 DEF NoneOn
    <3> QED
      BY <3>1, NoneOnFact
  <2>2. CASE Ready(s)
    BY <1>1, <1>2, <1>3, <1>6, <2>1, <2>2, CalmReady
  <2>3. ASSUME NEW r \in conn.avatars, Request(s, "load", r, None, None)
        PROVE  CalmInv'
    <3>1. r \in Roid
      BY <1>6, BaseFact DEF ConnFits
    <3> QED
      BY <1>1, <1>2, <1>3, <1>6, <2>1, <2>3, <3>1, CalmRequest DEF Waiting
  <2> QED
    BY <1>6, <2>2, <2>3 DEF Reconnected
<1> QED
  BY <1>4, <1>5, <1>6 DEF Reconnected

(* Sessions stay where they are, and no role is switched on.               *)
LEMMA CalmShrink ==
  ASSUME BaseInv, CalmInv, conn' \in {conn, None}, UNCHANGED fib,
         \A m \in Logic, q \in Roid : online'[m][q] # "off" => online[m][q] # "off",
         online' \in [Logic -> [Roid -> {"off", "on", "away"}]]
  PROVE  CalmInv'
<1>1. OneInv'
  <2>1. \A s, t \in Session : Active(s)' /\ Active(t)' => s = t
    BY DEF CalmInv, OneInv, Active
  <2>2. \A l, m \in Logic, r, q \in Roid :
          online'[l][r] # "off" /\ online'[m][q] # "off" => l = m /\ r = q
    BY DEF CalmInv, OneInv
  <2>3. ASSUME conn' # None
        PROVE  (/\ Active(conn.session)
                /\ fib[conn.session].pc \notin {"insert", "disconnect"}
                /\ IF fib[conn.session].pc = "reconnect" THEN conn.roid = None
                   ELSE Only(conn.srv, conn.roid)
                /\ fib[conn.session].pc = "login" /\ fib[conn.session].done = "no" =>
                     /\ conn.srv = fib[conn.session].srv
                     /\ conn.roid = fib[conn.session].roid)'
    <3>1. conn' = conn /\ conn # None
      BY <2>3
    <3> QED
      BY <3>1 DEF CalmInv, OneInv, Active, Only
  <2> QED
    BY <2>1, <2>2, <2>3 DEF OneInv
<1>2. ASSUME NEW s \in Session PROVE PendingInv(s)' /\ ReconnectInv(s)'
  <2>1. PendingInv(s)'
    BY DEF CalmInv, PendingInv, Only
  <2>2. ReconnectInv(s)'
    BY DEF CalmInv, ReconnectInv, Only
  <2> QED
    BY <2>1, <2>2
<1> QED
  BY <1>1, <1>2 DEF CalmInv

LEMMA EndCalm ==
  ASSUME BaseInv, CalmInv, NEW s \in Session, Close(s) \/ Closed(s)
  PROVE  CalmInv'
<1>c. fib[s] \in FiberState /\ fib \in [Session -> FiberState]
  BY BaseFact DEF BaseInv, TypeOK
<1>1. CASE Close(s)
  <2>1. /\ fib[s].pc = "ready" /\ UNCHANGED online
        /\ conn' = IF Handles(s) THEN None ELSE conn
    BY <1>1 DEF Close
  <2>2. Active(s)
    BY <2>1 DEF Active
  <2>3. conn' = None
    <3>1. conn # None => conn.session = s
      BY <2>1, <2>2, CalmConn
    <3> QED
      BY <2>1, <3>1 DEF Handles
  <2>4. CASE /\ conn # None /\ conn.roid # None
             /\ Request(s, "disconnect", None, conn.roid, conn.srv)
    <3>1. conn.roid \in Roid /\ conn.srv \in Logic
      BY <2>4, BaseFact DEF ConnFits, Connection
    <3> QED
      BY <2>1, <2>2, <2>3, <2>4, <3>1, CalmRequest DEF Waiting
  <2>5. CASE fib' = [fib EXCEPT ![s].pc = "gone"]
    <3> DEFINE x == [fib[s] EXCEPT !.pc = "gone"]
    <3>1. x \in FiberState /\ x.pc = "gone"
      BY <1>c DEF FiberState
    <3>2. fib' = [fib EXCEPT ![s] = x]
      BY <1>c, <2>5
    <3> HIDE DEF x
    <3>3. CalmFits(s, x, conn', online')
      BY <2>1, <2>2, <2>3, <3>1, CalmFact DEF CalmFits, FiberCalm, ConnCalm
    <3> QED
      BY <2>2, <3>1, <3>2, <3>3, CalmStep, CalmAlone
  <2> QED
    BY <1>1, <2>4, <2>5 DEF Close, Handles
<1>2. CASE Closed(s)
  <2>1. /\ fib[s].pc = "disconnect"
        /\ fib' = [fib EXCEPT ![s] = [Idle EXCEPT !.pc = "gone"]]
        /\ UNCHANGED <<conn, online>>
    BY <1>2 DEF Closed, Resumed
  <2>2. Active(s)
    BY <2>1 DEF Active
  <2>3. conn = None /\ OneOn(online)
    BY <2>1, <2>2, CalmFact DEF CalmFits, ConnCalm
  <2> DEFINE x == [Idle EXCEPT !.pc = "gone"]
  <2>4. x \in FiberState /\ x.pc = "gone"
    BY IdleType DEF FiberState
  <2>5. fib' = [fib EXCEPT ![s] = x]
    BY <2>1
  <2> HIDE DEF x
  <2>6. CalmFits(s, x, conn', online')
    BY <2>1, <2>3, <2>4 DEF CalmFits, FiberCalm, ConnCalm
  <2> QED
    BY <2>2, <2>4, <2>5, <2>6, CalmStep, CalmAlone
<1> QED
  BY <1>1, <1>2

(* A client connects when no earlier session is there any more.            *)
LEMMA OpenCalm ==
  ASSUME BaseInv, calm => CalmInv, NEW s \in Session, Open(s), calm'
  PROVE  CalmInv'
<1>1. /\ calm /\ CalmInv
      /\ \A t \in Session : ~Active(t)
      /\ fib' = [fib EXCEPT ![s] = [Idle EXCEPT !.pc = "insert",
                                                !.avatars = created]]
      /\ UNCHANGED <<conn, online>>
  BY DEF Open, Active
<1>2. conn = None
  <2>1. conn # None => conn.session \in Session /\ Active(conn.session)
    BY <1>1 DEF BaseInv, TypeOK, Connection, CalmInv, OneInv
  <2> QED
    BY <1>1, <2>1
<1> DEFINE x == [Idle EXCEPT !.pc = "insert", !.avatars = created]
<1>3. x \in FiberState /\ x.pc = "insert" /\ x.avatars = created /\ x.found = {}
  BY IdleType, BaseFact DEF FiberState
<1>4. fib' = [fib EXCEPT ![s] = x]
  BY <1>1
<1> HIDE DEF x
<1>5. /\ OneOn(online)
      /\ \A l \in Logic, r \in Roid : online[l][r] # "off" => r \in created
  BY <1>1 DEF CalmInv, OneInv, OneOn, BaseInv, CreatedInv
<1>6. CalmFits(s, x, conn', online')
  BY <1>1, <1>2, <1>3, <1>5 DEF CalmFits, FiberCalm, ConnCalm
<1> QED
  BY <1>1, <1>3, <1>4, <1>6, CalmStep

(* A server answers: the request of a fiber that waits is done.            *)
LEMMA ServerCalm ==
  ASSUME BaseInv, CalmInv, NEW s \in Session,
         NicknameExec(s) \/ MonitorExec(s) \/ LogicExec(s)
  PROVE  CalmInv'
<1>c. /\ fib[s] \in FiberState /\ fib \in [Session -> FiberState]
      /\ Fits(fib[s], created)
      /\ online \in [Logic -> [Roid -> {"off", "on", "away"}]]
  BY BaseFact DEF BaseInv, TypeOK
<1>1. /\ fib[s].pc \in Waiting /\ fib[s].done = "no" /\ UNCHANGED conn
      /\ \E how \in {"yes", "refused"} : Answer(s, how)
  BY DEF NicknameExec, MonitorExec, LogicExec, Waiting
<1>2. Active(s)
  BY <1>1 DEF Active, Waiting
<1>3. PICK how \in {"yes", "refused"} : Answer(s, how)
  BY <1>1
<1> DEFINE x == AnswerState(fib[s], how)
<1>4. /\ x \in FiberState /\ x.pc = fib[s].pc /\ x.done = how
      /\ x.found = fib[s].found /\ x.avatars = fib[s].avatars
  BY <1>c, AnswerType
<1>5. fib' = [fib EXCEPT ![s] = x]
  BY <1>3, AnswerStep
<1> HIDE DEF x
<1>6. CalmFits(s, fib[s], conn, online)
  BY <1>2, CalmFact
<1>7. CASE UNCHANGED online /\ fib[s].pc \in {"acquire", "create", "load"}
  <2>1. CalmFits(s, x, conn', online')
    BY <1>1, <1>4, <1>6, <1>7 DEF CalmFits, FiberCalm, ConnCalm
  <2> QED
    BY <1>2, <1>4, <1>5, <2>1, CalmStep, CalmAlone
<1>8. CASE LogicExec(s)
  <2> DEFINE l == fib[s].srv
             r == fib[s].roid
             state == CASE fib[s].pc = "login" -> "on"
                        [] fib[s].pc = "disconnect" /\ online[l][r] # "off" -> "away"
                        [] OTHER -> "off"
  <2>1. /\ fib[s].pc \in {"login", "logout", "disconnect"}
        /\ online' = [online EXCEPT ![l][r] = state]
        /\ l \in Logic /\ r \in Roid
    BY <1>8, <1>c DEF LogicExec, Fits
  <2>2. /\ fib[s].pc = "logout" => state = "off"
        /\ fib[s].pc = "disconnect" => state = "off" \/ online[l][r] # "off"
    OBVIOUS
  <2>3. fib[s].pc \in {"login", "logout"} => OnlyOn(online, l, r)
    BY <1>1, <1>6 DEF CalmFits, FiberCalm
  <2>4. conn # None => /\ conn.session = s /\ fib[s].pc # "disconnect"
                       /\ fib[s].pc = "login" => conn.srv = l /\ conn.roid = r
    BY <1>1, <1>6 DEF CalmFits, ConnCalm
  <2>5. OneOn(online)
    BY <1>6 DEF CalmFits
  <2> HIDE DEF l, r, state
  <2>6. \A m \in Logic, q \in Roid :
          online'[m][q] = IF m = l /\ q = r THEN state ELSE online[m][q]
    BY <1>c, <2>1
  <2>7. CASE fib[s].pc = "login"
    <3>1. OnlyOn(online', l, r)
      BY <2>3, <2>6, <2>7 DEF OnlyOn
    <3>2. OneOn(online')
      BY <3>1 DEF OnlyOn, OneOn
    <3>3. CalmFits(s, x, conn', online')
      BY <1>1, <1>4, <2>4, <2>7, <3>1, <3>2 DEF CalmFits, FiberCalm, ConnCalm
    <3> QED
      BY <1>2, <1>4, <1>5, <3>3, CalmStep, CalmAlone
  <2>8. CASE fib[s].pc = "logout"
    <3>1. NoneOn(online')
      BY <2>2, <2>3, <2>6, <2>8 DEF OnlyOn, NoneOn
    <3>2. OneOn(online') /\ \A m, q : OnlyOn(online', m, q)
      BY <3>1, NoneOnFact
    <3>3. CalmFits(s, x, conn', online')
      BY <1>1, <1>4, <2>4, <2>8, <3>1, <3>2 DEF CalmFits, FiberCalm, ConnCalm
    <3> QED
      BY <1>2, <1>4, <1>5, <3>3, CalmStep, CalmAlone
  <2>9. CASE fib[s].pc = "disconnect"
    <3>1. \A m \in Logic, q \in Roid : online'[m][q] # "off" => online[m][q] # "off"
      BY <2>2, <2>6, <2>9
    <3>2. OneOn(online')
      BY <2>5, <3>1 DEF OneOn
    <3>3. CalmFits(s, x, conn', online')
      BY <1>1, <1>4, <2>4, <2>9, <3>2 DEF CalmFits, FiberCalm, ConnCalm
    <3> QED
      BY <1>2, <1>4, <1>5, <3>3, CalmStep, CalmAlone
  <2> QED
    BY <2>1, <2>7, <2>8, <2>9
<1> QED
  BY <1>7, <1>8 DEF NicknameExec, MonitorExec

(* A logic server is asked for the roles of the user that are online.      *)
LEMMA ReconnectExecCalm ==
  ASSUME BaseInv, CalmInv, NEW s \in Session, NEW l \in Logic,
         ReconnectExec(s, l)
  PROVE  CalmInv'
<1>c. /\ fib[s] \in FiberState /\ fib \in [Session -> FiberState]
      /\ online \in [Logic -> [Roid -> {"off", "on", "away"}]]
  BY BaseFact DEF BaseInv, TypeOK
<1>1. fib[s].pc = "reconnect" /\ l \in fib[s].pending /\ UNCHANGED conn
  BY DEF ReconnectExec
<1>2. Active(s)
  BY <1>1 DEF Active
<1>3. PICK F \in SUBSET (Logic \X Roid) :
         /\ fib' = [fib EXCEPT ![s] = AskedState(fib[s], fib[s].pending \ {l}, F)]
         /\ \/ \E r \in HasRole(l, fib[s].avatars) :
                 /\ online' = [online EXCEPT ![l][r] = "on"]
                 /\ F = fib[s].found \cup {<<l, r>>}
            \/ /\ HasRole(l, fib[s].avatars) = {}
               /\ F = fib[s].found /\ UNCHANGED online
  BY ReconnectExecStep
<1> DEFINE P == fib[s].pending \ {l}
           x == AskedState(fib[s], P, F)
<1>4. P \in SUBSET Logic
  BY <1>c DEF FiberState
<1>5. /\ x \in FiberState /\ x.pc = "reconnect" /\ x.avatars = fib[s].avatars
      /\ x.pending = P /\ x.found = F
  BY <1>c, <1>1, <1>4, AskedType
<1>6. fib' = [fib EXCEPT ![s] = x]
  BY <1>3
<1> HIDE DEF x
<1>7. CalmFits(s, fib[s], conn, online)
  BY <1>2, CalmFact
<1>8. /\ OneOn(online)
      /\ \A m \in Logic, q \in Roid : online[m][q] # "off" => q \in fib[s].avatars
      /\ \A p \in fib[s].found : OnlyOn(online, p[1], p[2])
      /\ \A p, q \in fib[s].found : p = q
      /\ \A m \in Logic, q \in Roid : online[m][q] # "off" =>
           m \in fib[s].pending \/ <<m, q>> \in fib[s].found
  BY <1>1, <1>7 DEF CalmFits, FiberCalm
<1>9. ConnCalm(s, x, conn', online')
  BY <1>1, <1>5, <1>7 DEF CalmFits, ConnCalm
<1>10. CASE \E r \in HasRole(l, fib[s].avatars) :
              /\ online' = [online EXCEPT ![l][r] = "on"]
              /\ F = fib[s].found \cup {<<l, r>>}
  <2> PICK r \in HasRole(l, fib[s].avatars) :
              /\ online' = [online EXCEPT ![l][r] = "on"]
              /\ F = fib[s].found \cup {<<l, r>>}
    BY <1>10
  <2>1. r \in Roid /\ online[l][r] # "off"
    BY <1>c DEF HasRole, FiberState
  <2>2. \A m \in Logic, q \in Roid : online'[m][q] # "off" <=> online[m][q] # "off"
    BY <1>c, <2>1
  <2>3. OnlyOn(online, l, r)
    BY <1>8, <2>1 DEF OneOn, OnlyOn
  <2>4. \A m, q : OnlyOn(online, m, q) => OnlyOn(online', m, q)
    BY <2>2 DEF OnlyOn
  <2>5. OneOn(online')
    BY <1>8, <2>2 DEF OneOn
  <2>6. OnlyOn(online', l, r)
    BY <2>3, <2>4
  <2>7. \A p \in F : p = <<l, r>>
    <3>1. ASSUME NEW p \in fib[s].found PROVE p = <<l, r>>
      <4>1. p \in Logic \X Roid /\ OnlyOn(online, p[1], p[2])
        BY <1>8, <1>c DEF FiberState
      <4>2. l = p[1] /\ r = p[2]
        BY <2>1, <4>1 DEF OnlyOn
      <4> QED
        BY <4>1, <4>2
    <3> QED
      BY <3>1
  <2>8. \A m \in Logic, q \in Roid : online'[m][q] # "off" => m \in P \/ <<m, q>> \in F
    <3>1. ASSUME NEW m \in Logic, NEW q \in Roid, online'[m][q] # "off"
          PROVE  <<m, q>> \in F
      <4>1. m = l /\ q = r
        BY <2>2, <2>3, <3>1 DEF OnlyOn
      <4> QED
        BY <4>1
    <3> QED
      BY <3>1
  <2>9. \A p, q \in F : p = q
    BY <2>7
  <2>10. FiberCalm(x, online')
    <3>1. \A p \in F : OnlyOn(online', p[1], p[2])
      BY <2>6, <2>7
    <3> QED
      BY <1>5, <1>8, <2>2, <2>8, <2>9, <3>1 DEF FiberCalm
  <2>11. CalmFits(s, x, conn', online')
    BY <1>9, <2>5, <2>10 DEF CalmFits
  <2> QED
    BY <1>2, <1>5, <1>6, <2>11, CalmStep, CalmAlone
<1>11. CASE /\ HasRole(l, fib[s].avatars) = {}
            /\ F = fib[s].found /\ UNCHANGED online
  <2>1. ASSUME NEW m \in Logic, NEW q \in Roid, online[m][q] # "off"
        PROVE  m \in P \/ <<m, q>> \in F
    <3>1. m # l
      BY <1>8, <1>11, <2>1 DEF HasRole
    <3> QED
      BY <1>8, <1>11, <2>1, <3>1
  <2>2. FiberCalm(x, online')
    BY <1>5, <1>8, <1>11, <2>1 DEF FiberCalm
  <2>3. CalmFits(s, x, conn', online')
    BY <1>8, <1>9, <1>11, <2>2 DEF CalmFits
  <2> QED
    BY <1>2, <1>5, <1>6, <2>3, CalmStep, CalmAlone
<1> QED
  BY <1>3, <1>10, <1>11

LEMMA NextCalm ==
  ASSUME BaseInv, calm => CalmInv, [Next]_vars, calm'
  PROVE  CalmInv'
<1>o. online \in [Logic -> [Roid -> {"off", "on", "away"}]]
  BY DEF BaseInv, TypeOK
<1>1. ASSUME NEW s \in Session, Open(s) PROVE CalmInv'
  BY <1>1, OpenCalm
<1>2. ASSUME NEW s \in Session, Lost(s) \/ \E l \in Logic : ReconnectLost(s, l)
      PROVE  FALSE
  BY <1>2 DEF Lost, ReconnectLost
<1>3. ASSUME NEW s \in Session, Event(s) PROVE CalmInv'
  <2>1. UNCHANGED calm
    BY <1>3 DEF Event, Create, Login, Logout
  <2> QED
    BY <1>3, <2>1, EventCalm
<1>4. ASSUME NEW s \in Session, Handler(s) PROVE CalmInv'
  <2>1. UNCHANGED calm
    BY <1>4 DEF Handler, Insert, Reconnected, Acquired, Created, Loaded,
                LoggedOut, LoggedIn, Close, Closed
  <2> QED
    BY <1>4, <2>1, InsertCalm, ReconnectedCalm, RepliedCalm, LoggedOutCalm,
       EndCalm DEF Handler
<1>5. ASSUME NEW s \in Session, Server(s) PROVE CalmInv'
  <2>1. UNCHANGED calm
    BY <1>5 DEF Server, NicknameExec, MonitorExec, LogicExec, ReconnectExec
  <2> QED
    BY <1>5, <2>1, ServerCalm, ReconnectExecCalm DEF Server
<1>6. CASE (\E s \in Session : ClientCloses(s)) \/ PingTimeout \/ UNCHANGED vars
  <2>1. UNCHANGED <<fib, online, calm>> /\ conn' \in {conn, None}
    BY <1>6 DEF ClientCloses, PingTimeout, vars
  <2> QED
    BY <1>o, <2>1, CalmShrink
<1>7. ASSUME NEW l \in Logic, Timer(l) \/ \E r \in Roid : Expire(l, r)
      PROVE  CalmInv'
  BY <1>7, TimerFact, CalmShrink
<1> QED
  BY <1>1, <1>2, <1>3, <1>4, <1>5, <1>6, <1>7 DEF Next

(***************************************************************************)
(* The theorems.                                                           *)
(***************************************************************************)
LEMMA InitInv == Init => Inv
<1> SUFFICES ASSUME Init PROVE Inv
  OBVIOUS
<1>1. \A s \in Session : fib[s] = Idle
  BY DEF Init
<1>2. TypeOK
  BY IdleType DEF Init, TypeOK, NoCheck
<1>3. CreatedInv
  BY DEF Init, CreatedInv
<1>4. \A s \in Session : FiberInv(s)
  BY <1>1, IdleType DEF FiberInv
<1>5. OneInv
  BY <1>1, IdleType DEF Init, OneInv, Active
<1>6. \A s \in Session : PendingInv(s) /\ ReconnectInv(s)
  BY <1>1, IdleType DEF PendingInv, ReconnectInv
<1> QED
  BY <1>2, <1>3, <1>4, <1>5, <1>6 DEF Inv

LEMMA NextInv == Inv /\ [Next]_vars => Inv'
<1> SUFFICES ASSUME Inv, [Next]_vars PROVE Inv'
  OBVIOUS
<1>1. BaseInv /\ (calm => CalmInv)
  BY InvParts
<1>2. BaseInv' /\ (calm' => CalmInv')
  BY <1>1, NextBase, NextCalm
<1> QED
  BY <1>2 DEF Inv, BaseInv, CalmInv

(* The invariant of the agent: whatever is logged in has been created, and *)
(* while no sessions overlap and no request fails, only the role that      *)
(* locks the connection, or is about to, is known to any logic server.     *)
THEOREM InvAlways == Spec => []Inv
<1>1. Init => Inv
  BY InitInv
<1>2. Inv /\ [Next]_vars => Inv'
  BY NextInv
<1> QED
  BY <1>1, <1>2, PTL DEF Spec

(* Connections, fibers and the roles on the logic servers have their types; *)
(* current_roid and current_logic_srv are set and cleared together.        *)
THEOREM TypeOKAlways == Spec => []TypeOK
<1>1. Inv => TypeOK
  BY DEF Inv
<1> QED
  BY <1>1, InvAlways, PTL

LEMMA InvOneAtATime == Inv => OneAtATime
<1> SUFFICES ASSUME Inv, calm PROVE Cardinality(Connected) <= 1
  BY DEF OneAtATime
<1>1. \A p, q \in Connected : p = q
  <2> SUFFICES ASSUME NEW p \in Connected, NEW q \in Connected PROVE p = q
    OBVIOUS
  <2>1. /\ p \in Logic \X Roid /\ q \in Logic \X Roid
        /\ online[p[1]][p[2]] = "on" /\ online[q[1]][q[2]] = "on"
    BY DEF Connected
  <2>2. p[1] = q[1] /\ p[2] = q[2]
    BY <2>1 DEF Inv, OneInv
  <2> QED
    BY <2>1, <2>2
<1>2. CASE Connected = {}
  BY <1>2, FS_EmptySet
<1>3. CASE Connected # {}
  <2> PICK p : p \in Connected
    BY <1>3
  <2>1. Connected = {p}
    BY <1>1
  <2>2. Cardinality({p}) = 1
    BY FS_Singleton, Zenon
  <2> QED
    BY <2>1, <2>2
<1> QED
  BY <1>2, <1>3

(* "In order to prevent multiple logins", user_service.cpp:135: as long    *)
(* as no two sessions of the user overlap and no request fails, no two of  *)
(* its roles are connected, on whatever logic servers.                     *)
THEOREM OneAtATimeAlways == Spec => []OneAtATime
BY InvAlways, InvOneAtATime, PTL

=============================================================================
