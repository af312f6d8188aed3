--------------------------- MODULE RemoteCallProofs ---------------------------
(***************************************************************************)
(* Theorems about RemoteCall, for any services, calls, scanning timers and *)
(* numbers of sessions: nobody waits for nothing, what was lost stays      *)
(* lost, and the calls behave as ServiceCall promises.                     *)
(***************************************************************************)
EXTENDS RemoteCall, TLAPS

(***************************************************************************)
(* What the pieces of an action do.                                        *)
(***************************************************************************)
Req == [stage : Stages, session : Session \cup {NoSession}]

LEMMA TargetFact ==
  /\ Self \in Target /\ Self \notin Remote
  /\ \A t \in Remote : t \in Target /\ t # Self
  /\ \A t \in Target : t = Self \/ t \in Remote
  /\ \A s \in Session : s # NoSession
BY RemoteAssumption DEF Target, Session, NoSession

(* TypeOK without its conditions on the network and on records.            *)
LEMMA TypeFact ==
  ASSUME TypeOK
  PROVE  /\ remote_connections \in [Remote -> Connection]
         /\ \A t \in Remote :
              /\ remote_connections[t] \in Connection
              /\ remote_connections[t].session \in Session \cup {NoSession}
              /\ remote_connections[t].futures \in SUBSET Call
              /\ \A c \in remote_connections[t].futures :
                   c \in Call /\ future[c] \in {"waiting", "done"}
         /\ sess \in [Remote -> [Session -> {"new", "open", "shut", "gone"}]]
         /\ req \in [Call -> [Target -> Req]]
         /\ resp \in [Call -> [Target -> {"absent", "none", "ok", "lost"}]]
         /\ future \in [Call -> {"new", "waiting", "done", "gone"}]
         /\ ran \in [Call -> SUBSET Target]
BY DEF TypeOK, Connection, Req

(* The types, of the network, and of records and calls.                    *)
NetworkOK ==
  /\ process \in [Remote -> {"new", "up", "down"}]
  /\ registered \subseteq Remote /\ lapses \in Nat
  /\ remote_services \subseteq Remote
  /\ scan \in [Scanner -> [busy : BOOLEAN, found : SUBSET Remote]]

LEMMA NetworkFact ==
  ASSUME TypeOK
  PROVE  /\ NetworkOK
         /\ UNCHANGED <<network, remote_services, scan>> => NetworkOK'
BY DEF TypeOK, NetworkOK, network

LEMMA TypeStep ==
  ASSUME NetworkOK',
         remote_connections' \in [Remote -> Connection],
         \A t \in Remote :
           /\ remote_connections'[t].session = NoSession =>
                remote_connections'[t].futures = {}
           /\ \A c \in remote_connections'[t].futures :
                future'[c] \in {"waiting", "done"},
         sess' \in [Remote -> [Session -> {"new", "open", "shut", "gone"}]],
         req' \in [Call -> [Target -> Req]],
         resp' \in [Call -> [Target -> {"absent", "none", "ok", "lost"}]],
         future' \in [Call -> {"new", "waiting", "done", "gone"}],
         ran' \in [Call -> SUBSET Target]
  PROVE  TypeOK'
BY DEF TypeOK, NetworkOK, Req

LEMMA StageFact ==
  ASSUME TypeOK, NEW c \in Call, NEW t \in Target, NEW stage \in Stages,
         Stage(c, t, stage)
  PROVE  /\ req' \in [Call -> [Target -> Req]]
         /\ req'[c][t].stage = stage
         /\ req'[c][t].session = req[c][t].session
         /\ \A d \in Call, u \in Target :
              d # c \/ u # t => req'[d][u] = req[d][u]
<1>1. req \in [Call -> [Target -> Req]]
  BY DEF TypeOK, Req
<1>a. req[c] \in [Target -> Req] /\ req[c][t] \in Req
  BY <1>1
<1>b. [req[c][t] EXCEPT !.stage = stage] =
        [stage |-> stage, session |-> req[c][t].session]
  BY <1>a DEF Req
<1>c. req' = [req EXCEPT ![c] = [req[c] EXCEPT ![t] =
                [req[c][t] EXCEPT !.stage = stage]]]
  BY DEF Stage
<1>2. req' = [req EXCEPT ![c] = [req[c] EXCEPT ![t] =
                [stage |-> stage, session |-> req[c][t].session]]]
  BY <1>b, <1>c
<1>3. [stage |-> stage, session |-> req[c][t].session] \in Req
  BY <1>a DEF Req
<1>4. req'[c][t] = [stage |-> stage, session |-> req[c][t].session]
  BY <1>1, <1>2, <1>3
<1>5. QED
  BY <1>1, <1>2, <1>3, <1>4

LEMMA FinishFact ==
  ASSUME TypeOK, NEW c \in Call, NEW t \in Target, Finish(c, t)
  PROVE  /\ req' \in [Call -> [Target -> Req]]
         /\ req'[c][t] = Quiet /\ Quiet.stage = "none"
         /\ \A d \in Call, u \in Target :
              d # c \/ u # t => req'[d][u] = req[d][u]
<1>1. req \in [Call -> [Target -> Req]]
  BY DEF TypeOK, Req
<1>2. Quiet \in Req /\ Quiet.stage = "none"
  BY DEF Quiet, Req, Stages
<1>3. QED
  BY <1>1, <1>2 DEF Finish

(* An answer for a future that may still wait.                             *)
LEMMA SetResponseFact ==
  ASSUME Inv, NEW c \in Call, NEW t \in Target, SetResponse(c, t)
  PROVE  /\ resp' \in [Call -> [Target -> {"absent", "none", "ok", "lost"}]]
         /\ future' \in [Call -> {"new", "waiting", "done", "gone"}]
         /\ IF future[c] \in {"waiting", "done"}
            THEN /\ resp'[c] = [resp[c] EXCEPT ![t] = "ok"]
                 /\ future'[c] = IF AllReceived(resp'[c]) THEN "done"
                                                          ELSE future[c]
            ELSE resp' = resp /\ future' = future
         /\ \A d \in Call \ {c} : resp'[d] = resp[d] /\ future'[d] = future[d]
<1>1. /\ resp \in [Call -> [Target -> {"absent", "none", "ok", "lost"}]]
      /\ future \in [Call -> {"new", "waiting", "done", "gone"}]
  BY DEF Inv, TypeOK
<1>2. CASE future[c] \in {"waiting", "done"}
  <2>1. /\ resp' = [resp EXCEPT ![c] = [resp[c] EXCEPT ![t] = "ok"]]
        /\ future' = [d \in Call |-> IF d \in {c} /\ AllReceived(resp'[d])
                                     THEN "done" ELSE future[d]]
    BY <1>1, <1>2 DEF SetResponse, Respond
  <2>2. [resp[c] EXCEPT ![t] = "ok"] \in
          [Target -> {"absent", "none", "ok", "lost"}]
    BY <1>1
  <2>3. QED
    BY <1>1, <1>2, <2>1, <2>2
<1>3. CASE future[c] \notin {"waiting", "done"}
  BY <1>1, <1>3 DEF SetResponse, calls
<1>4. QED
  BY <1>2, <1>3

(* Losing the services of T, and erasing their records.                    *)
Lost(T, c, t) == t \in T /\ c \in remote_connections[t].futures

LEMMA LoseFact ==
  ASSUME TypeOK, NEW T \in SUBSET Remote, Lose(T)
  PROVE  /\ resp' \in [Call -> [Target -> {"absent", "none", "ok", "lost"}]]
         /\ future' \in [Call -> {"new", "waiting", "done", "gone"}]
         /\ \A c \in Call, t \in Target :
              resp'[c][t] = IF Lost(T, c, t) THEN "lost" ELSE resp[c][t]
         /\ \A c \in Call :
              future'[c] = IF /\ \E t \in T : Lost(T, c, t)
                              /\ AllReceived(resp'[c])
                           THEN "done" ELSE future[c]
<1>1. /\ resp \in [Call -> [Target -> {"absent", "none", "ok", "lost"}]]
      /\ future \in [Call -> {"new", "waiting", "done", "gone"}]
  BY DEF TypeOK
<1> DEFINE F == {c \in Call : \E t \in T : c \in remote_connections[t].futures}
           row(c) == [t \in Target |->
             IF t \in T /\ c \in remote_connections[t].futures
             THEN "lost" ELSE resp[c][t]]
<1>2. /\ resp' = [c \in Call |-> row(c)]
      /\ future' = [c \in Call |-> IF c \in F /\ AllReceived(resp'[c])
                                   THEN "done" ELSE future[c]]
  BY DEF Lose, Respond
<1>3. \A c \in Call : row(c) \in [Target -> {"absent", "none", "ok", "lost"}]
  BY <1>1
<1>4. QED
  BY <1>1, <1>2, <1>3 DEF Lost

LEMMA EraseFact ==
  ASSUME TypeOK, NEW T \in SUBSET Remote, Erase(T)
  PROVE  /\ remote_connections' \in [Remote -> Connection]
         /\ \A t \in T : /\ remote_connections'[t].session = NoSession
                         /\ remote_connections'[t].futures = {}
         /\ \A t \in Remote \ T :
              remote_connections'[t] = remote_connections[t]
<1>1. remote_connections \in [Remote -> Connection]
  BY DEF TypeOK
<1>2. [session |-> NoSession, futures |-> {}] \in Connection
  BY DEF Connection
<1>3. QED
  BY <1>1, <1>2 DEF Erase, Erased

(* A complete row stays complete, and a future that is completed by it     *)
(* cannot miss a response.                                                 *)
LEMMA ReceivedFact ==
  ASSUME NEW row \in [Target -> {"absent", "none", "ok", "lost"}],
         NEW t \in Target, NEW x \in {"ok", "lost"}, AllReceived(row)
  PROVE  AllReceived([row EXCEPT ![t] = x])
BY DEF AllReceived

(***************************************************************************)
(* The invariant holds initially.                                          *)
(***************************************************************************)
LEMMA InitInv ==
  ASSUME Init PROVE Inv
<1> USE TargetFact, RemoteAssumption
<1>1. TypeOK
  BY DEF Init, TypeOK, Connection, Stages, Quiet
<1>2. PendingIsConnected
  BY DEF Init, PendingIsConnected
<1>3. ASSUME NEW c \in Call PROVE CallInv(c)
  BY DEF Init, CallInv, Quiet
<1>4. ASSUME NEW t \in Remote PROVE RecordInv(t)
  BY DEF Init, RecordInv
<1>5. QED
  BY <1>1, <1>2, <1>3, <1>4 DEF Inv

(***************************************************************************)
(* Every action preserves it.                                              *)
(***************************************************************************)
(* The actions of other services and of a scan leave all calls alone.      *)
LEMMA NetworkInv ==
  ASSUME Inv, TypeOK',
         UNCHANGED <<remote_connections, sess, req, resp, future, ran>>
  PROVE  Inv'
BY DEF Inv, PendingIsConnected, IsComing, CallInv, RecordInv, AllReceived

LEMMA ForgetInv ==
  ASSUME Inv, NEW c \in Call, Forget(c) PROVE Inv'
<1> USE TargetFact
<1>t. TypeOK
  BY DEF Inv
<1>1. /\ future' = [future EXCEPT ![c] = "gone"]
      /\ future \in [Call -> {"new", "waiting", "done", "gone"}]
      /\ UNCHANGED <<network, remote_services, scan, sess, req, resp, ran>>
  BY <1>t, TypeFact DEF Forget
<1>2. /\ remote_connections' \in [Remote -> Connection]
      /\ \A t \in Remote :
           /\ remote_connections'[t].session = remote_connections[t].session
           /\ remote_connections'[t].futures = remote_connections[t].futures \ {c}
  <2>1. ASSUME NEW t \in Remote
        PROVE  LET record == [remote_connections[t] EXCEPT
                                !.futures = remote_connections[t].futures \ {c}]
               IN  /\ record \in Connection
                   /\ record.session = remote_connections[t].session
                   /\ record.futures = remote_connections[t].futures \ {c}
    BY <1>t, TypeFact DEF Connection
  <2>2. QED
    BY <2>1 DEF Forget
<1>3. TypeOK'
  <2>1. ASSUME NEW t \in Remote
        PROVE  /\ remote_connections'[t].session = NoSession =>
                    remote_connections'[t].futures = {}
               /\ \A d \in remote_connections'[t].futures :
                    future'[d] \in {"waiting", "done"}
    <3>1. remote_connections[t].session = NoSession =>
            remote_connections[t].futures = {}
      BY <1>t DEF TypeOK
    <3>2. QED
      BY <1>t, <1>1, <1>2, <3>1, TypeFact
  <2>2. QED
    BY <1>t, <1>1, <1>2, <2>1, TypeFact, NetworkFact, TypeStep
<1>4. PendingIsConnected'
  <2>1. SUFFICES ASSUME NEW d \in Call, NEW t \in Target,
                        future'[d] = "waiting", resp'[d][t] = "none"
                 PROVE  IsComing(d, t)'
    BY DEF PendingIsConnected
  <2>2. d # c /\ IsComing(d, t)
    BY <1>1, <2>1 DEF Inv, PendingIsConnected
  <2>3. QED
    BY <1>1, <1>2, <2>2 DEF IsComing
<1>5. ASSUME NEW d \in Call PROVE CallInv(d)'
  BY <1>1 DEF Inv, CallInv, AllReceived
<1>6. ASSUME NEW t \in Remote PROVE RecordInv(t)'
  BY <1>1, <1>2 DEF Inv, RecordInv
<1>7. QED
  BY <1>3, <1>4, <1>5, <1>6 DEF Inv

(* A response of t to c replaces one that is missing.                      *)
LEMMA AnswerFact ==
  ASSUME Inv, NEW c \in Call, NEW t \in Target, SetResponse(c, t),
         resp[c][t] = "none"
  PROVE  /\ \A d \in Call :
              /\ future'[d] = "waiting" =>
                   future[d] = "waiting" /\ ~AllReceived(resp'[d])
              /\ future'[d] = "done" => AllReceived(resp'[d])
              /\ future'[d] = "new" => future[d] = "new"
              /\ future[d] \in {"waiting", "done"} =>
                   future'[d] \in {"waiting", "done"}
         /\ \A d \in Call, u \in Target :
              /\ resp'[d][u] = "none" => resp[d][u] = "none"
              /\ d # c \/ u # t => resp'[d][u] = resp[d][u]
         /\ resp'[c][t] = IF future[c] = "waiting" THEN "ok" ELSE "none"
         /\ future'[c] = IF future[c] = "waiting" /\ AllReceived(resp'[c])
                         THEN "done" ELSE future[c]
<1> DEFINE live == future[c] \in {"waiting", "done"}
<1>t. /\ resp \in [Call -> [Target -> {"absent", "none", "ok", "lost"}]]
      /\ future \in [Call -> {"new", "waiting", "done", "gone"}]
  BY TypeFact DEF Inv
<1>1. \A d \in Call : CallInv(d)
  BY DEF Inv
<1>2. future[c] # "done"
  BY <1>1 DEF CallInv, AllReceived
<1>3. /\ IF live
         THEN /\ resp'[c] = [resp[c] EXCEPT ![t] = "ok"]
              /\ future'[c] = IF AllReceived(resp'[c]) THEN "done" ELSE future[c]
         ELSE resp' = resp /\ future' = future
      /\ \A d \in Call \ {c} : resp'[d] = resp[d] /\ future'[d] = future[d]
  BY SetResponseFact
<1>4. ASSUME NEW d \in Call \ {c}
      PROVE  /\ future'[d] = "waiting" => ~AllReceived(resp'[d])
             /\ future'[d] = "done" => AllReceived(resp'[d])
  BY <1>1, <1>3, <1>4 DEF CallInv
<1>5. /\ future'[c] = "waiting" => ~AllReceived(resp'[c])
      /\ future'[c] = "done" => AllReceived(resp'[c])
  BY <1>1, <1>2, <1>3, <1>t DEF CallInv
<1>6. \A d \in Call :
        /\ future'[d] = "waiting" => future[d] = "waiting"
        /\ future'[d] = "new" => future[d] = "new"
        /\ future[d] \in {"waiting", "done"} => future'[d] \in {"waiting", "done"}
  BY <1>2, <1>3, <1>t
<1>7. \A d \in Call, u \in Target :
        /\ resp'[d][u] = "none" => resp[d][u] = "none"
        /\ d # c \/ u # t => resp'[d][u] = resp[d][u]
  BY <1>3, <1>t
<1>8. /\ resp'[c][t] = IF future[c] = "waiting" THEN "ok" ELSE "none"
      /\ future'[c] = IF future[c] = "waiting" /\ AllReceived(resp'[c])
                      THEN "done" ELSE future[c]
  BY <1>2, <1>3, <1>t
<1>9. QED
  BY <1>4, <1>5, <1>6, <1>7, <1>8

LEMMA LocalResponseInv ==
  ASSUME Inv, NEW c \in Call, LocalResponse(c) PROVE Inv'
<1> USE TargetFact
<1>t. TypeOK
  BY DEF Inv
<1>1. /\ req[c][Self].stage = "reply"
      /\ SetResponse(c, Self) /\ Finish(c, Self)
      /\ UNCHANGED <<network, remote_services, scan, remote_connections, sess, ran>>
  BY DEF LocalResponse
<1>2. resp[c][Self] = "none" /\ resp[c][Self] # "absent"
  BY <1>1 DEF Inv, CallInv
<1>3. /\ req' \in [Call -> [Target -> Req]]
      /\ req'[c][Self].stage = "none"
      /\ \A d \in Call, u \in Target :
           d # c \/ u # Self => req'[d][u] = req[d][u]
  BY <1>t, <1>1, FinishFact
<1>4. TypeOK'
  <2>1. ran' \in [Call -> SUBSET Target]
    BY <1>t, <1>1, TypeFact
  <2>2. ASSUME NEW t \in Remote
        PROVE  /\ remote_connections'[t].session = NoSession =>
                    remote_connections'[t].futures = {}
               /\ \A d \in remote_connections'[t].futures :
                    future'[d] \in {"waiting", "done"}
    <3>1. remote_connections[t].session = NoSession =>
            remote_connections[t].futures = {}
      BY <1>t DEF TypeOK
    <3>2. QED
      BY <1>t, <1>1, <1>2, <3>1, AnswerFact, TypeFact
  <2>3. /\ resp' \in [Call -> [Target -> {"absent", "none", "ok", "lost"}]]
        /\ future' \in [Call -> {"new", "waiting", "done", "gone"}]
    BY <1>1, SetResponseFact
  <2>4. remote_connections' \in [Remote -> Connection]
        /\ sess' \in [Remote -> [Session -> {"new", "open", "shut", "gone"}]]
    BY <1>t, <1>1, TypeFact
  <2>5. QED
    BY <1>t, <1>1, <1>3, <2>1, <2>2, <2>3, <2>4, NetworkFact, TypeStep
<1>5. PendingIsConnected'
  <2>1. SUFFICES ASSUME NEW d \in Call, NEW t \in Target,
                        future'[d] = "waiting", resp'[d][t] = "none"
                 PROVE  IsComing(d, t)'
    BY DEF PendingIsConnected
  <2>2. future[d] = "waiting" /\ resp[d][t] = "none" /\ IsComing(d, t)
    BY <1>1, <1>2, <2>1, AnswerFact DEF Inv, PendingIsConnected
  <2>3. d # c \/ t # Self
    BY <1>1, <1>2, <2>1, <2>2, AnswerFact
  <2>4. QED
    BY <1>1, <1>3, <2>2, <2>3 DEF IsComing
<1>6. ASSUME NEW d \in Call PROVE CallInv(d)'
  <2>1. CallInv(d) /\ CallInv(c)
    BY DEF Inv
  <2>2. future'[d] = "new" => d # c
    BY <1>1, <1>2, <2>1, AnswerFact DEF CallInv
  <2>3. d # c => ran'[d] = ran[d]
    BY <1>t, <1>1, TypeFact
  <2>4. \A t \in Target \ {Self} : t \in ran'[d] <=> t \in ran[d]
    BY <1>t, <1>1, TypeFact
  <2>5. ASSUME NEW t \in Target
        PROVE  /\ req'[d][t].stage \in {"local", "task", "sent"} =>
                    t \notin ran'[d] /\ resp'[d][t] # "absent"
               /\ req'[d][t].stage = "reply" => t \in ran'[d]
    <3>1. CASE d = c /\ t = Self
      BY <1>3, <3>1
    <3>2. CASE d # c \/ t # Self
      BY <1>1, <1>2, <1>3, <2>1, <2>3, <2>4, <3>2, AnswerFact DEF CallInv
    <3>3. QED
      BY <3>1, <3>2
  <2>6. req'[d][Self].stage \in {"local", "reply"} => resp'[d][Self] = "none"
    BY <1>1, <1>2, <1>3, <2>1, AnswerFact DEF CallInv
  <2>7. future'[d] = "new" =>
          /\ ran'[d] = {}
          /\ \A t \in Target : req'[d][t].stage = "none" /\ resp'[d][t] = "absent"
    BY <1>1, <1>2, <1>3, <2>1, <2>2, <2>3, AnswerFact DEF CallInv
  <2>8. QED
    BY <1>1, <1>2, <2>5, <2>6, <2>7, AnswerFact DEF CallInv
<1>7. ASSUME NEW t \in Remote PROVE RecordInv(t)'
  <2>1. RecordInv(t)
    BY DEF Inv
  <2>2. \A d \in Call : resp'[d][t] = resp[d][t] /\ req'[d][t] = req[d][t]
    BY <1>1, <1>2, <1>3, AnswerFact
  <2>3. QED
    BY <1>t, <1>1, <2>1, <2>2, TypeFact DEF RecordInv
<1>8. QED
  BY <1>4, <1>5, <1>6, <1>7 DEF Inv

(* A request moves on, or the end of its session takes it with it.         *)
LEMMA MoveInv ==
  ASSUME Inv, NEW c \in Call, NEW t \in Remote,
         UNCHANGED <<network, remote_services, scan, remote_connections, sess,
                     calls, ran>>,
         req' \in [Call -> [Target -> Req]],
         \A d \in Call, u \in Target :
           d # c \/ u # t => req'[d][u] = req[d][u],
         req[c][t].stage # "none",
         \/ req'[c][t].stage = "none" /\ SessionOf(c, t) # "open"
         \/ /\ req[c][t].stage = "task" /\ req'[c][t].stage = "sent"
            /\ req'[c][t].session = req[c][t].session
  PROVE  Inv'
<1> USE TargetFact DEF calls
<1>t. TypeOK
  BY DEF Inv
<1>1. TypeOK'
  <2>1. ASSUME NEW u \in Remote
        PROVE  /\ remote_connections'[u].session = NoSession =>
                    remote_connections'[u].futures = {}
               /\ \A d \in remote_connections'[u].futures :
                    future'[d] \in {"waiting", "done"}
    BY <1>t DEF TypeOK
  <2>2. /\ remote_connections' \in [Remote -> Connection]
        /\ sess' \in [Remote -> [Session -> {"new", "open", "shut", "gone"}]]
        /\ resp' \in [Call -> [Target -> {"absent", "none", "ok", "lost"}]]
        /\ future' \in [Call -> {"new", "waiting", "done", "gone"}]
        /\ ran' \in [Call -> SUBSET Target]
    BY <1>t, TypeFact
  <2>3. QED
    BY <1>t, <2>1, <2>2, NetworkFact, TypeStep
<1>2. PendingIsConnected'
  <2>1. SUFFICES ASSUME NEW d \in Call, NEW u \in Target,
                        future'[d] = "waiting", resp'[d][u] = "none"
                 PROVE  IsComing(d, u)'
    BY DEF PendingIsConnected
  <2>2. IsComing(d, u)
    BY <2>1 DEF Inv, PendingIsConnected
  <2>3. CASE d # c \/ u # t
    BY <2>2, <2>3 DEF IsComing
  <2>4. CASE d = c /\ u = t
    BY <2>2, <2>4 DEF IsComing, SessionOf
  <2>5. QED
    BY <2>3, <2>4
<1>3. ASSUME NEW d \in Call PROVE CallInv(d)'
  <2>1. CallInv(d)
    BY DEF Inv
  <2>2. ASSUME NEW u \in Target
        PROVE  /\ req'[d][u].stage \in {"local", "task", "sent"} =>
                    u \notin ran'[d] /\ resp'[d][u] # "absent"
               /\ req'[d][u].stage = "reply" => u \in ran'[d]
    BY <2>1 DEF CallInv
  <2>3. req'[d][Self].stage \in {"local", "reply"} => resp'[d][Self] = "none"
    BY <2>1 DEF CallInv
  <2>4. future'[d] = "new" =>
          /\ ran'[d] = {}
          /\ \A u \in Target : req'[d][u].stage = "none" /\ resp'[d][u] = "absent"
    BY <2>1 DEF CallInv
  <2>5. QED
    BY <2>1, <2>2, <2>3, <2>4 DEF CallInv, AllReceived
<1>4. ASSUME NEW u \in Remote PROVE RecordInv(u)'
  <2>1. RecordInv(u)
    BY DEF Inv
  <2>2. \A d \in remote_connections[u].futures : d \in Call
    BY <1>t, TypeFact
  <2>3. QED
    BY <2>1, <2>2 DEF RecordInv
<1>5. QED
  BY <1>1, <1>2, <1>3, <1>4 DEF Inv

LEMMA SendRequestInv ==
  ASSUME Inv, NEW c \in Call, NEW t \in Remote, SendRequest(c, t) PROVE Inv'
<1> USE TargetFact
<1>t. TypeOK
  BY DEF Inv
<1>1. CASE SessionOf(c, t) = "open"
  <2>1. Stage(c, t, "sent") /\ "sent" \in Stages
    BY <1>1 DEF SendRequest, Stages
  <2>2. /\ req' \in [Call -> [Target -> Req]]
        /\ req'[c][t].stage = "sent"
        /\ req'[c][t].session = req[c][t].session
        /\ \A d \in Call, u \in Target :
             d # c \/ u # t => req'[d][u] = req[d][u]
    BY <1>t, <2>1, StageFact
  <2>3. QED
    BY <2>2, MoveInv DEF SendRequest
<1>2. CASE SessionOf(c, t) # "open"
  <2>1. Finish(c, t)
    BY <1>2 DEF SendRequest
  <2>2. QED
    BY <1>t, <1>2, <2>1, FinishFact, MoveInv DEF SendRequest
<1>3. QED
  BY <1>1, <1>2

LEMMA DropInv ==
  ASSUME Inv, NEW c \in Call, NEW t \in Remote, Drop(c, t) PROVE Inv'
<1>1. TypeOK /\ t \in Target
  BY TargetFact DEF Inv
<1>2. QED
  BY <1>1, FinishFact, MoveInv DEF Drop

(* A service runs a call, this process itself or another one.              *)
LEMMA RunInv ==
  ASSUME Inv, NEW c \in Call, NEW t \in Target,
         req[c][t].stage = IF t = Self THEN "local" ELSE "sent",
         ran' = [ran EXCEPT ![c] = ran[c] \cup {t}],
         Stage(c, t, "reply"),
         UNCHANGED <<network, remote_services, scan, remote_connections, sess,
                     calls>>
  PROVE  Inv'
<1> USE TargetFact DEF calls
<1>t. TypeOK
  BY DEF Inv
<1>1. /\ req[c][t].stage \in {"local", "sent"}
      /\ t = Self => req[c][t].stage = "local"
      /\ ran' = [ran EXCEPT ![c] = ran[c] \cup {t}]
      /\ Stage(c, t, "reply") /\ "reply" \in Stages
      /\ UNCHANGED <<network, remote_services, scan, remote_connections, sess,
                     resp, future>>
  BY DEF Stages
<1>2. /\ req' \in [Call -> [Target -> Req]]
      /\ req'[c][t].stage = "reply"
      /\ req'[c][t].session = req[c][t].session
      /\ \A d \in Call, u \in Target :
           d # c \/ u # t => req'[d][u] = req[d][u]
  BY <1>t, <1>1, StageFact
<1>3. TypeOK'
  <2>1. ASSUME NEW u \in Remote
        PROVE  /\ remote_connections'[u].session = NoSession =>
                    remote_connections'[u].futures = {}
               /\ \A d \in remote_connections'[u].futures :
                    future'[d] \in {"waiting", "done"}
    BY <1>t, <1>1 DEF TypeOK
  <2>2. /\ remote_connections' \in [Remote -> Connection]
        /\ sess' \in [Remote -> [Session -> {"new", "open", "shut", "gone"}]]
        /\ resp' \in [Call -> [Target -> {"absent", "none", "ok", "lost"}]]
        /\ future' \in [Call -> {"new", "waiting", "done", "gone"}]
        /\ ran' \in [Call -> SUBSET Target]
    BY <1>t, <1>1, TypeFact
  <2>3. QED
    BY <1>t, <1>1, <1>2, <2>1, <2>2, NetworkFact, TypeStep
<1>4. PendingIsConnected'
  <2>1. SUFFICES ASSUME NEW d \in Call, NEW u \in Target,
                        future'[d] = "waiting", resp'[d][u] = "none"
                 PROVE  IsComing(d, u)'
    BY DEF PendingIsConnected
  <2>2. IsComing(d, u)
    BY <1>1, <2>1 DEF Inv, PendingIsConnected
  <2>3. CASE d # c \/ u # t
    BY <1>1, <1>2, <2>2, <2>3 DEF IsComing
  <2>4. CASE d = c /\ u = t
    BY <1>1, <1>2, <2>2, <2>4 DEF IsComing
  <2>5. QED
    BY <2>3, <2>4
<1>5. ASSUME NEW d \in Call PROVE CallInv(d)'
  <2>1. CallInv(d)
    BY DEF Inv
  <2>2. /\ d # c => ran'[d] = ran[d]
        /\ \A u \in Target \ {t} : u \in ran'[d] <=> u \in ran[d]
        /\ t \in ran'[c]
    BY <1>t, <1>1, TypeFact
  <2>3. ASSUME NEW u \in Target
        PROVE  /\ req'[d][u].stage \in {"local", "task", "sent"} =>
                    u \notin ran'[d] /\ resp'[d][u] # "absent"
               /\ req'[d][u].stage = "reply" => u \in ran'[d]
    <3>1. CASE d = c /\ u = t
      BY <1>2, <2>2, <3>1
    <3>2. CASE d # c \/ u # t
      BY <1>1, <1>2, <2>1, <2>2, <3>2 DEF CallInv
    <3>3. QED
      BY <3>1, <3>2
  <2>4. req'[d][Self].stage \in {"local", "reply"} => resp'[d][Self] = "none"
    BY <1>1, <1>2, <2>1 DEF CallInv
  <2>5. future'[d] = "new" =>
          /\ ran'[d] = {}
          /\ \A u \in Target : req'[d][u].stage = "none" /\ resp'[d][u] = "absent"
    BY <1>1, <1>2, <2>1, <2>2 DEF CallInv
  <2>6. QED
    BY <1>1, <2>1, <2>3, <2>4, <2>5 DEF CallInv, AllReceived
<1>6. ASSUME NEW u \in Remote PROVE RecordInv(u)'
  <2>1. RecordInv(u)
    BY DEF Inv
  <2>2. \A d \in remote_connections[u].futures : d \in Call
    BY <1>t, TypeFact
  <2>3. QED
    BY <1>1, <1>2, <2>1, <2>2 DEF RecordInv
<1>7. QED
  BY <1>3, <1>4, <1>5, <1>6 DEF Inv

LEMMA ServeInv ==
  ASSUME Inv, NEW c \in Call, NEW t \in Remote, Serve(c, t) PROVE Inv'
BY TargetFact, RunInv DEF Serve

LEMMA LocalRequestInv ==
  ASSUME Inv, NEW c \in Call, LocalRequest(c) PROVE Inv'
BY TargetFact, RunInv DEF LocalRequest

LEMMA ReceiveInv ==
  ASSUME Inv, NEW c \in Call, NEW t \in Remote, Receive(c, t) PROVE Inv'
<1> USE TargetFact DEF calls
<1>t. TypeOK
  BY DEF Inv
<1>1. /\ req[c][t].stage = "reply"
      /\ IF c \in remote_connections[t].futures THEN SetResponse(c, t)
                                                ELSE UNCHANGED calls
      /\ UNCHANGED <<network, remote_services, scan, remote_connections, sess, ran>>
  BY DEF Receive
<1>2. /\ req' \in [Call -> [Target -> Req]]
      /\ req'[c][t].stage = "none"
      /\ \A d \in Call, u \in Target :
           d # c \/ u # t => req'[d][u] = req[d][u]
  BY <1>t, FinishFact DEF Receive
<1>3. CASE c \in remote_connections[t].futures
  <2>1. resp[c][t] = "none" /\ SetResponse(c, t)
    BY <1>1, <1>3 DEF Inv, RecordInv
  <2>2. TypeOK'
    <3>1. ASSUME NEW u \in Remote
          PROVE  /\ remote_connections'[u].session = NoSession =>
                      remote_connections'[u].futures = {}
                 /\ \A d \in remote_connections'[u].futures :
                      future'[d] \in {"waiting", "done"}
      <4>1. remote_connections[u].session = NoSession =>
              remote_connections[u].futures = {}
        BY <1>t DEF TypeOK
      <4>2. QED
        BY <1>t, <1>1, <2>1, <4>1, AnswerFact, TypeFact
    <3>2. /\ remote_connections' \in [Remote -> Connection]
          /\ sess' \in [Remote -> [Session -> {"new", "open", "shut", "gone"}]]
          /\ ran' \in [Call -> SUBSET Target]
      BY <1>t, <1>1, TypeFact
    <3>3. /\ resp' \in [Call -> [Target -> {"absent", "none", "ok", "lost"}]]
          /\ future' \in [Call -> {"new", "waiting", "done", "gone"}]
      BY <2>1, SetResponseFact
    <3>4. QED
      BY <1>t, <1>1, <1>2, <3>1, <3>2, <3>3, NetworkFact, TypeStep
  <2>3. PendingIsConnected'
    <3>1. SUFFICES ASSUME NEW d \in Call, NEW u \in Target,
                          future'[d] = "waiting", resp'[d][u] = "none"
                   PROVE  IsComing(d, u)'
      BY DEF PendingIsConnected
    <3>2. future[d] = "waiting" /\ resp[d][u] = "none" /\ IsComing(d, u)
      BY <2>1, <3>1, AnswerFact DEF Inv, PendingIsConnected
    <3>3. d # c \/ u # t
      BY <2>1, <3>1, <3>2, AnswerFact
    <3>4. QED
      BY <1>1, <1>2, <3>2, <3>3 DEF IsComing
  <2>4. ASSUME NEW d \in Call PROVE CallInv(d)'
    <3>1. CallInv(d) /\ CallInv(c)
      BY DEF Inv
    <3>2. future'[d] = "new" => d # c
      BY <1>1, <2>1, <3>1, AnswerFact DEF CallInv
    <3>3. ASSUME NEW u \in Target
          PROVE  /\ req'[d][u].stage \in {"local", "task", "sent"} =>
                      u \notin ran'[d] /\ resp'[d][u] # "absent"
                 /\ req'[d][u].stage = "reply" => u \in ran'[d]
      <4>1. CASE d = c /\ u = t
        BY <1>2, <4>1
      <4>2. CASE d # c \/ u # t
        BY <1>1, <1>2, <2>1, <3>1, <4>2, AnswerFact DEF CallInv
      <4>3. QED
        BY <4>1, <4>2
    <3>4. req'[d][Self].stage \in {"local", "reply"} => resp'[d][Self] = "none"
      BY <1>1, <1>2, <2>1, <3>1, AnswerFact DEF CallInv
    <3>5. future'[d] = "new" =>
            /\ ran'[d] = {}
            /\ \A u \in Target : req'[d][u].stage = "none" /\ resp'[d][u] = "absent"
      BY <1>1, <1>2, <2>1, <3>1, <3>2, AnswerFact DEF CallInv
    <3>6. QED
      BY <2>1, <3>3, <3>4, <3>5, AnswerFact DEF CallInv
  <2>5. ASSUME NEW u \in Remote PROVE RecordInv(u)'
    <3>1. RecordInv(u) /\ \A d \in remote_connections[u].futures : d \in Call
      BY <1>t, TypeFact DEF Inv
    <3>2. \A d \in Call : resp'[d][u] \in {resp[d][u], "ok"}
      BY <2>1, AnswerFact
    <3>3. QED
      BY <1>1, <1>2, <2>1, <3>1, <3>2, AnswerFact DEF RecordInv
  <2>6. QED
    BY <2>2, <2>3, <2>4, <2>5 DEF Inv
<1>4. CASE c \notin remote_connections[t].futures
  <2>1. TypeOK'
    <3>1. ASSUME NEW u \in Remote
          PROVE  /\ remote_connections'[u].session = NoSession =>
                      remote_connections'[u].futures = {}
                 /\ \A d \in remote_connections'[u].futures :
                      future'[d] \in {"waiting", "done"}
      BY <1>t, <1>1, <1>4 DEF TypeOK
    <3>2. /\ remote_connections' \in [Remote -> Connection]
          /\ sess' \in [Remote -> [Session -> {"new", "open", "shut", "gone"}]]
          /\ resp' \in [Call -> [Target -> {"absent", "none", "ok", "lost"}]]
          /\ future' \in [Call -> {"new", "waiting", "done", "gone"}]
          /\ ran' \in [Call -> SUBSET Target]
      BY <1>t, <1>1, <1>4, TypeFact
    <3>3. QED
      BY <1>t, <1>1, <1>2, <3>1, <3>2, NetworkFact, TypeStep
  <2>2. PendingIsConnected'
    <3>1. SUFFICES ASSUME NEW d \in Call, NEW u \in Target,
                          future'[d] = "waiting", resp'[d][u] = "none"
                   PROVE  IsComing(d, u)'
      BY DEF PendingIsConnected
    <3>2. IsComing(d, u)
      BY <1>1, <1>4, <3>1 DEF Inv, PendingIsConnected
    <3>3. QED
      BY <1>1, <1>2, <1>4, <3>2 DEF IsComing
  <2>3. ASSUME NEW d \in Call PROVE CallInv(d)'
    <3>1. CallInv(d) /\ resp' = resp /\ future' = future /\ ran' = ran
      BY <1>1, <1>4 DEF Inv
    <3>2. \A u \in Target :
            req'[d][u].stage # "none" => req'[d][u].stage = req[d][u].stage
      BY <1>2
    <3>3. \A u \in Target : req[d][u].stage = "none" => req'[d][u].stage = "none"
      BY <1>2
    <3>4. QED
      BY <3>1, <3>2, <3>3 DEF CallInv, AllReceived
  <2>4. ASSUME NEW u \in Remote PROVE RecordInv(u)'
    <3>1. RecordInv(u) /\ \A d \in remote_connections[u].futures : d \in Call
      BY <1>t, TypeFact DEF Inv
    <3>2. QED
      BY <1>1, <1>2, <1>4, <3>1 DEF RecordInv
  <2>5. QED
    BY <2>1, <2>2, <2>3, <2>4 DEF Inv
<1>5. QED
  BY <1>3, <1>4

LEMMA BreakInv ==
  ASSUME Inv, NEW t \in Remote, NEW s \in Session, Break(t, s) PROVE Inv'
<1> USE TargetFact DEF calls
<1>t. TypeOK
  BY DEF Inv
<1>1. /\ sess[t][s] = "open"
      /\ UNCHANGED <<network, remote_services, scan, remote_connections, req,
                     resp, future, ran>>
  BY DEF Break
<1>2. /\ sess' \in [Remote -> [Session -> {"new", "open", "shut", "gone"}]]
      /\ sess'[t][s] = "shut"
      /\ \A u \in Remote, v \in Session :
           u # t \/ v # s => sess'[u][v] = sess[u][v]
  BY <1>t, TypeFact DEF Break
<1>3. TypeOK'
  BY <1>t, <1>1, <1>2 DEF TypeOK, network
<1>4. PendingIsConnected'
  <2>1. SUFFICES ASSUME NEW d \in Call, NEW u \in Target,
                        future'[d] = "waiting", resp'[d][u] = "none"
                 PROVE  IsComing(d, u)'
    BY DEF PendingIsConnected
  <2>2. IsComing(d, u)
    BY <1>1, <2>1 DEF Inv, PendingIsConnected
  <2>3. u # Self => remote_connections[u].session \in Session \cup {NoSession}
    BY <1>t, TypeFact
  <2>4. QED
    BY <1>1, <1>2, <2>2, <2>3 DEF IsComing
<1>5. ASSUME NEW d \in Call PROVE CallInv(d)'
  BY <1>1 DEF Inv, CallInv, AllReceived
<1>6. ASSUME NEW u \in Remote PROVE RecordInv(u)'
  BY <1>t, <1>1, <1>2, TypeFact DEF Inv, RecordInv
<1>7. QED
  BY <1>3, <1>4, <1>5, <1>6 DEF Inv

(* The services of T are lost, and the records of those services with it.  *)
LEMMA LostFact ==
  ASSUME Inv, NEW T \in SUBSET Remote, Lose(T)
  PROVE  /\ \A c \in Call :
              /\ future'[c] = "waiting" =>
                   future[c] = "waiting" /\ ~AllReceived(resp'[c])
              /\ future'[c] = "done" => AllReceived(resp'[c])
              /\ future'[c] = "new" =>
                   future[c] = "new" /\ \A t \in Target : resp'[c][t] = resp[c][t]
              /\ future[c] \in {"waiting", "done"} =>
                   future'[c] \in {"waiting", "done"}
         /\ \A c \in Call, t \in Target :
              /\ resp'[c][t] = "none" => resp[c][t] = "none" /\ ~Lost(T, c, t)
              /\ resp'[c][t] = "absent" => resp[c][t] = "absent"
              /\ t \notin T => resp'[c][t] = resp[c][t]
<1>t. TypeOK /\ \A t \in T : t \in Remote /\ t \in Target
  BY TargetFact DEF Inv
<1>1. /\ \A c \in Call, t \in Target :
           resp'[c][t] = IF Lost(T, c, t) THEN "lost" ELSE resp[c][t]
      /\ \A c \in Call :
           future'[c] = IF (\E t \in T : Lost(T, c, t)) /\ AllReceived(resp'[c])
                        THEN "done" ELSE future[c]
  BY <1>t, LoseFact
<1>2. ASSUME NEW c \in Call, NEW t \in T, Lost(T, c, t)
      PROVE  future[c] \in {"waiting", "done"}
  BY <1>t, <1>2, TypeFact DEF Lost
<1>3. ASSUME NEW c \in Call
      PROVE  /\ future'[c] = "waiting" =>
                  future[c] = "waiting" /\ ~AllReceived(resp'[c])
             /\ future'[c] = "done" => AllReceived(resp'[c])
             /\ future'[c] = "new" =>
                  future[c] = "new" /\ \A t \in Target : resp'[c][t] = resp[c][t]
             /\ future[c] \in {"waiting", "done"} =>
                  future'[c] \in {"waiting", "done"}
  <2>1. CallInv(c)
    BY DEF Inv
  <2>2. CASE \E t \in T : Lost(T, c, t)
    <3>1. future[c] \in {"waiting", "done"}
      BY <1>2, <2>2
    <3>2. future'[c] = IF AllReceived(resp'[c]) THEN "done" ELSE future[c]
      BY <1>1, <2>2
    <3>3. AllReceived(resp[c]) => AllReceived(resp'[c])
      BY <1>1 DEF AllReceived
    <3>4. QED
      BY <2>1, <3>1, <3>2, <3>3 DEF CallInv
  <2>3. CASE ~\E t \in T : Lost(T, c, t)
    <3>1. \A t \in Target : ~Lost(T, c, t)
      BY <2>3 DEF Lost
    <3>2. future'[c] = future[c] /\ \A t \in Target : resp'[c][t] = resp[c][t]
      BY <1>1, <2>3, <3>1
    <3>3. AllReceived(resp'[c]) <=> AllReceived(resp[c])
      BY <3>2 DEF AllReceived
    <3>4. QED
      BY <2>1, <3>2, <3>3 DEF CallInv
  <2>4. QED
    BY <2>2, <2>3
<1>4. \A c \in Call, t \in Target : t \notin T => ~Lost(T, c, t)
  BY DEF Lost
<1>5. QED
  BY <1>1, <1>3, <1>4

LEMMA LostInv ==
  ASSUME Inv, NetworkOK', NEW T \in SUBSET Remote, Lose(T), Erase(T),
         UNCHANGED <<req, ran>>,
         sess' \in [Remote -> [Session -> {"new", "open", "shut", "gone"}]],
         \A t \in Remote \ T : sess'[t] = sess[t]
  PROVE  Inv'
<1> USE TargetFact
<1>t. TypeOK
  BY DEF Inv
<1>1. /\ remote_connections' \in [Remote -> Connection]
      /\ \A t \in T : /\ remote_connections'[t].session = NoSession
                      /\ remote_connections'[t].futures = {}
      /\ \A t \in Remote \ T : remote_connections'[t] = remote_connections[t]
  BY <1>t, EraseFact
<1>2. TypeOK'
  <2>1. ASSUME NEW t \in Remote
        PROVE  /\ remote_connections'[t].session = NoSession =>
                    remote_connections'[t].futures = {}
               /\ \A c \in remote_connections'[t].futures :
                    future'[c] \in {"waiting", "done"}
    <3>1. remote_connections[t].session = NoSession =>
            remote_connections[t].futures = {}
      BY <1>t DEF TypeOK
    <3>2. QED
      BY <1>t, <1>1, <3>1, LostFact, TypeFact
  <2>2. /\ resp' \in [Call -> [Target -> {"absent", "none", "ok", "lost"}]]
        /\ future' \in [Call -> {"new", "waiting", "done", "gone"}]
    BY <1>t, LoseFact
  <2>3. req' \in [Call -> [Target -> Req]] /\ ran' \in [Call -> SUBSET Target]
    BY <1>t, TypeFact
  <2>4. QED
    BY <1>1, <2>1, <2>2, <2>3, TypeStep
<1>3. PendingIsConnected'
  <2>1. SUFFICES ASSUME NEW c \in Call, NEW t \in Target,
                        future'[c] = "waiting", resp'[c][t] = "none"
                 PROVE  IsComing(c, t)'
    BY DEF PendingIsConnected
  <2>2. future[c] = "waiting" /\ resp[c][t] = "none" /\ ~Lost(T, c, t)
    BY <2>1, LostFact
  <2>3. IsComing(c, t)
    BY <2>2 DEF Inv, PendingIsConnected
  <2>4. t \notin T
    BY <2>2, <2>3 DEF IsComing, Lost
  <2>5. QED
    BY <1>1, <2>3, <2>4 DEF IsComing
<1>4. ASSUME NEW c \in Call PROVE CallInv(c)'
  <2>1. CallInv(c)
    BY DEF Inv
  <2>2. resp'[c][Self] = resp[c][Self]
    BY LostFact
  <2>3. QED
    BY <2>1, <2>2, LostFact DEF CallInv
<1>5. ASSUME NEW t \in Remote PROVE RecordInv(t)'
  <2>1. RecordInv(t) /\ \A c \in remote_connections[t].futures : c \in Call
    BY <1>t, TypeFact DEF Inv
  <2>2. CASE t \in T
    BY <1>1, <2>2 DEF RecordInv
  <2>3. CASE t \notin T
    BY <1>1, <2>1, <2>3, LostFact DEF RecordInv
  <2>4. QED
    BY <2>2, <2>3
<1>6. QED
  BY <1>2, <1>3, <1>4, <1>5 DEF Inv

LEMMA CloseInv ==
  ASSUME Inv, NEW t \in Remote, NEW s \in Session, Close(t, s) PROVE Inv'
<1>t. TypeOK
  BY DEF Inv
<1>1. /\ sess' \in [Remote -> [Session -> {"new", "open", "shut", "gone"}]]
      /\ \A u \in Remote \ {t} : sess'[u] = sess[u]
  BY <1>t, TypeFact DEF Close
<1>2. NetworkOK' /\ UNCHANGED <<req, ran>> /\ Lose({t}) /\ Erase({t})
  BY <1>t, NetworkFact DEF Close
<1>3. QED
  BY <1>1, <1>2, LostInv

LEMMA PurgeInv ==
  ASSUME Inv, NEW k \in Scanner, Purge(k) PROVE Inv'
<1> DEFINE T == {t \in Remote : ~(Connected(t) /\ t \in scan[k].found)}
<1>t. TypeOK
  BY DEF Inv
<1>1. sess' = [t \in Remote |-> [s \in Session |->
        IF t \in T /\ s = remote_connections[t].session /\ sess[t][s] = "open"
        THEN "shut" ELSE sess[t][s]]]
  BY DEF Purge
<1>2. sess' \in [Remote -> [Session -> {"new", "open", "shut", "gone"}]]
  BY <1>t, <1>1, TypeFact
<1>3. ASSUME NEW t \in Remote \ T PROVE sess'[t] = sess[t]
  BY <1>t, <1>1, TypeFact
<1>4. NetworkOK'
  <2>1. scan[k].found \in SUBSET Remote
    BY <1>t DEF TypeOK
  <2>2. QED
    BY <1>t, <2>1, NetworkFact DEF Purge, NetworkOK, network
<1>5. UNCHANGED <<req, ran>> /\ Lose(T) /\ Erase(T)
  BY DEF Purge
<1>6. QED
  BY <1>2, <1>3, <1>4, <1>5, LostInv

LEMMA OthersInv ==
  ASSUME Inv,
         \/ \E t \in Remote : Publish(t) \/ Expire(t) \/ Crash(t)
         \/ \E k \in Scanner : Scan(k)
         \/ UNCHANGED vars
  PROVE  Inv'
<1>t. TypeOK
  BY DEF Inv
<1>1. UNCHANGED <<remote_connections, sess, req, resp, future, ran>>
  BY DEF Publish, Expire, Crash, Scan, calls, vars
<1>2. NetworkOK'
  <2>1. NetworkOK
    BY <1>t, NetworkFact
  <2>2. ASSUME NEW t \in Remote, Publish(t) \/ Expire(t) \/ Crash(t)
        PROVE  NetworkOK'
    BY <2>1, <2>2 DEF Publish, Expire, Crash, NetworkOK
  <2>3. ASSUME NEW k \in Scanner, Scan(k) PROVE NetworkOK'
    BY <2>1, <2>3 DEF Scan, NetworkOK, network
  <2>4. CASE UNCHANGED vars
    BY <2>1, <2>4 DEF vars, NetworkOK, network
  <2>5. QED
    BY <2>2, <2>3, <2>4
<1>3. TypeOK'
  BY <1>t, <1>1, <1>2 DEF TypeOK, NetworkOK
<1>4. QED
  BY <1>1, <1>3, NetworkInv

(* The requests of a call are sent over sessions that have not been closed. *)
Launched(c, sent) ==
  /\ future[c] = "new"
  /\ sent \in SUBSET (Remote \cap Receivers[c])
  /\ sess' \in [Remote -> [Session -> {"new", "open", "shut", "gone"}]]
  /\ \A t \in Remote, s \in Session :
       sess'[t][s] = sess[t][s] \/ (sess[t][s] = "new" /\ sess'[t][s] = "open")
  /\ \A t \in sent :
       /\ SessionTo(t) \in Session
       /\ sess'[t][SessionTo(t)] \in {"open", "shut"}
       /\ remote_connections'[t].session = SessionTo(t)
       /\ remote_connections'[t].futures = remote_connections[t].futures \cup {c}
       /\ req'[c][t].stage = "task" /\ req'[c][t].session = SessionTo(t)
  /\ \A t \in Remote \ sent : remote_connections'[t] = remote_connections[t]
  /\ remote_connections' \in [Remote -> Connection]
  /\ req' \in [Call -> [Target -> Req]]
  /\ \A d \in Call \ {c} :
       req'[d] = req[d] /\ resp'[d] = resp[d] /\ future'[d] = future[d]
  /\ \A t \in Target \ sent :
       req'[c][t].stage = IF t = Self /\ Self \in Receivers[c] THEN "local"
                                                               ELSE "none"
  /\ resp' \in [Call -> [Target -> {"absent", "none", "ok", "lost"}]]
  /\ \A t \in Target :
       resp'[c][t] = IF t \notin Receivers[c] THEN "absent"
                     ELSE IF t \in sent \/ t = Self THEN "none" ELSE "lost"
  /\ future'[c] = IF sent = {} /\ Self \notin Receivers[c] THEN "done"
                                                           ELSE "waiting"
  /\ future' \in [Call -> {"new", "waiting", "done", "gone"}]
  /\ UNCHANGED <<network, remote_services, scan, ran>>

LEMMA LaunchFact ==
  ASSUME Inv, NEW c \in Call, Launch(c)
  PROVE  \E sent : Launched(c, sent)
<1> USE TargetFact
<1>t. TypeOK
  BY DEF Inv
<1> DEFINE T     == Receivers[c]
           known == T \cap remote_services
           lost(u) == known \ u
           opened(sent) == {t \in sent : ~Connected(t)}
<1>1. PICK u \in SUBSET {t \in known : ~Connected(t)} :
        /\ future[c] = "new"
        /\ \A t \in opened(known \ u) : \E s \in Session : sess[t][s] = "new"
        /\ sess' = [t \in Remote |->
             IF t \in opened(known \ u)
             THEN [sess[t] EXCEPT ![SessionTo(t)] = "open"] ELSE sess[t]]
        /\ remote_connections' = [t \in Remote |->
             IF t \in known \ u
             THEN [session |-> SessionTo(t),
                   futures |-> remote_connections[t].futures \cup {c}]
             ELSE remote_connections[t]]
        /\ req' = [req EXCEPT ![c] = [t \in Target |->
             CASE t \in known \ u -> [stage |-> "task", session |-> SessionTo(t)]
               [] t \in T \cap {Self} -> [stage |-> "local", session |-> NoSession]
               [] OTHER -> Quiet]]
        /\ resp' = [resp EXCEPT ![c] = [t \in Target |->
             CASE t \notin T -> "absent"
               [] t \in (known \ u) \cup (T \cap {Self}) -> "none"
               [] OTHER -> "lost"]]
        /\ future' = [future EXCEPT ![c] =
             IF known \ u = {} /\ Self \notin T THEN "done" ELSE "waiting"]
        /\ UNCHANGED <<network, remote_services, scan, ran>>
  <2>1. \A t \in known : t \in Remote
    BY <1>t DEF TypeOK
  <2>2. QED
    BY <2>1 DEF Launch
<1> DEFINE sent == known \ u
<1>2. sent \in SUBSET (Remote \cap T)
  BY <1>t DEF TypeOK
<1>3. ASSUME NEW t \in sent
      PROVE  /\ SessionTo(t) \in Session
             /\ Connected(t) => sess[t][SessionTo(t)] \in {"open", "shut"}
             /\ ~Connected(t) => sess[t][SessionTo(t)] = "new"
  <2>1. /\ remote_connections[t].session \in Session \cup {NoSession}
        /\ sess[t] \in [Session -> {"new", "open", "shut", "gone"}]
    BY <1>t, <1>2, TypeFact
  <2>2. CASE Connected(t)
    <3>1. RecordInv(t)
      BY <1>2 DEF Inv
    <3>2. QED
      BY <2>1, <2>2, <3>1 DEF SessionTo, Connected, RecordInv
  <2>3. CASE ~Connected(t)
    <3>1. \E s \in Session : sess[t][s] = "new"
      BY <1>1, <2>3
    <3>2. NewSession(t) \in Session /\ sess[t][NewSession(t)] = "new"
      BY <3>1 DEF NewSession
    <3>3. QED
      BY <2>3, <3>2 DEF SessionTo
  <2>4. QED
    BY <2>2, <2>3
<1>4. /\ sess' \in [Remote -> [Session -> {"new", "open", "shut", "gone"}]]
      /\ \A t \in Remote, s \in Session :
           sess'[t][s] = sess[t][s] \/ (sess[t][s] = "new" /\ sess'[t][s] = "open")
      /\ \A t \in sent : sess'[t][SessionTo(t)] \in {"open", "shut"}
  <2>1. ASSUME NEW t \in Remote
        PROVE  /\ sess'[t] \in [Session -> {"new", "open", "shut", "gone"}]
               /\ \A s \in Session :
                    \/ sess'[t][s] = sess[t][s]
                    \/ sess[t][s] = "new" /\ sess'[t][s] = "open"
               /\ t \in sent => sess'[t][SessionTo(t)] \in {"open", "shut"}
    <3>1. sess[t] \in [Session -> {"new", "open", "shut", "gone"}]
      BY <1>t, TypeFact
    <3>2. sess'[t] = IF t \in opened(sent)
                     THEN [sess[t] EXCEPT ![SessionTo(t)] = "open"] ELSE sess[t]
      BY <1>1
    <3>3. CASE t \in opened(sent)
      BY <1>3, <3>1, <3>2, <3>3
    <3>4. CASE t \notin opened(sent)
      BY <1>3, <3>1, <3>2, <3>4
    <3>5. QED
      BY <3>3, <3>4
  <2>2. sess' = [t \in Remote |-> sess'[t]]
    BY <1>1
  <2>3. sess' \in [Remote -> [Session -> {"new", "open", "shut", "gone"}]]
    BY <2>1, <2>2
  <2>4. \A t \in sent : t \in Remote
    BY <1>2
  <2>5. \A t \in sent : sess'[t][SessionTo(t)] \in {"open", "shut"}
    BY <2>1, <2>4
  <2>6. ASSUME NEW t \in Remote, NEW s \in Session
        PROVE  \/ sess'[t][s] = sess[t][s]
               \/ sess[t][s] = "new" /\ sess'[t][s] = "open"
    BY <2>1
  <2>7. QED
    BY <2>3, <2>5, <2>6
<1>5. /\ \A t \in sent :
           remote_connections'[t] =
             [session |-> SessionTo(t),
              futures |-> remote_connections[t].futures \cup {c}]
      /\ \A t \in Remote \ sent : remote_connections'[t] = remote_connections[t]
      /\ remote_connections' \in [Remote -> Connection]
  <2>1. ASSUME NEW t \in sent
        PROVE  [session |-> SessionTo(t),
                futures |-> remote_connections[t].futures \cup {c}] \in Connection
    BY <1>t, <1>2, <1>3, TypeFact DEF Connection
  <2>2. QED
    BY <1>t, <1>1, <1>2, <2>1, TypeFact
<1>6. /\ req' \in [Call -> [Target -> Req]]
      /\ \A d \in Call \ {c} : req'[d] = req[d]
      /\ \A t \in sent : req'[c][t] = [stage |-> "task", session |-> SessionTo(t)]
      /\ \A t \in Target \ sent :
           req'[c][t].stage = IF t = Self /\ Self \in T THEN "local" ELSE "none"
  <2> DEFINE row == [t \in Target |->
        CASE t \in sent -> [stage |-> "task", session |-> SessionTo(t)]
          [] t \in T \cap {Self} -> [stage |-> "local", session |-> NoSession]
          [] OTHER -> Quiet]
  <2>1. ASSUME NEW t \in Target
        PROVE  /\ row[t] \in Req
               /\ t \in sent => row[t] = [stage |-> "task", session |-> SessionTo(t)]
               /\ t \notin sent => row[t].stage =
                    IF t = Self /\ Self \in T THEN "local" ELSE "none"
    <3>1. CASE t \in sent
      BY <1>2, <1>3, <3>1 DEF Req, Stages
    <3>2. CASE t \notin sent /\ t \in T \cap {Self}
      BY <3>2 DEF Req, Stages
    <3>3. CASE t \notin sent /\ t \notin T \cap {Self}
      BY <3>3 DEF Req, Stages, Quiet
    <3>4. QED
      BY <3>1, <3>2, <3>3
  <2>2. row \in [Target -> Req]
    BY <2>1
  <2>3. req' = [req EXCEPT ![c] = row]
    BY <1>1
  <2>4. \A t \in sent : t \in Target
    BY <1>2
  <2> HIDE DEF row
  <2>5. QED
    BY <1>t, <2>1, <2>2, <2>3, <2>4, TypeFact
<1>7. /\ resp' \in [Call -> [Target -> {"absent", "none", "ok", "lost"}]]
      /\ \A d \in Call \ {c} : resp'[d] = resp[d]
      /\ \A t \in Target :
           resp'[c][t] = IF t \notin T THEN "absent"
                         ELSE IF t \in sent \/ t = Self THEN "none" ELSE "lost"
  <2> DEFINE row == [t \in Target |->
        CASE t \notin T -> "absent"
          [] t \in sent \cup (T \cap {Self}) -> "none"
          [] OTHER -> "lost"]
  <2>1. ASSUME NEW t \in Target
        PROVE  row[t] = IF t \notin T THEN "absent"
                        ELSE IF t \in sent \/ t = Self THEN "none" ELSE "lost"
    <3>1. t \in sent => t \in T
      BY <1>2
    <3> HIDE DEF sent, T
    <3>2. CASE t \notin T
      BY <3>1, <3>2, TargetFact
    <3>3. CASE t \in T /\ t \in sent \cup (T \cap {Self})
      BY <3>3
    <3>4. CASE t \in T /\ t \notin sent \cup (T \cap {Self})
      BY <3>4
    <3>5. QED
      BY <3>2, <3>3, <3>4
  <2>2. resp' = [resp EXCEPT ![c] = row]
    BY <1>1
  <2>3. row \in [Target -> {"absent", "none", "ok", "lost"}]
    BY <2>1
  <2> HIDE DEF row, sent, T
  <2>4. QED
    BY <1>t, <2>1, <2>2, <2>3, TypeFact
<1>8. /\ future' \in [Call -> {"new", "waiting", "done", "gone"}]
      /\ \A d \in Call \ {c} : future'[d] = future[d]
      /\ future'[c] = IF sent = {} /\ Self \notin T THEN "done" ELSE "waiting"
  BY <1>t, <1>1, TypeFact
<1>9. ASSUME NEW t \in sent
      PROVE  /\ SessionTo(t) \in Session
             /\ sess'[t][SessionTo(t)] \in {"open", "shut"}
             /\ remote_connections'[t].session = SessionTo(t)
             /\ remote_connections'[t].futures = remote_connections[t].futures \cup {c}
             /\ req'[c][t].stage = "task" /\ req'[c][t].session = SessionTo(t)
  <2>1. remote_connections'[t] =
          [session |-> SessionTo(t),
           futures |-> remote_connections[t].futures \cup {c}]
    BY <1>5
  <2>2. req'[c][t] = [stage |-> "task", session |-> SessionTo(t)]
    BY <1>6
  <2>3. /\ SessionTo(t) \in Session
        /\ sess'[t][SessionTo(t)] \in {"open", "shut"}
    BY <1>3, <1>4
  <2>4. QED
    BY <2>1, <2>2, <2>3
<1>10. future[c] = "new" /\ UNCHANGED <<network, remote_services, scan, ran>>
  BY <1>1
<1> HIDE DEF sent
<1>11. Launched(c, sent)
  BY <1>2, <1>4, <1>5, <1>6, <1>7, <1>8, <1>9, <1>10 DEF Launched
<1>12. QED
  BY <1>11

LEMMA LaunchInv ==
  ASSUME Inv, NEW c \in Call, Launch(c) PROVE Inv'
<1> USE TargetFact
<1>t. TypeOK
  BY DEF Inv
<1>1. PICK sent : Launched(c, sent)
  BY LaunchFact
<1>2. /\ \A t \in sent : t \in Remote /\ t \in Target /\ t \in Receivers[c]
      /\ future[c] = "new"
  BY <1>1 DEF Launched
<1>a. \A t \in sent :
        /\ SessionTo(t) \in Session
        /\ remote_connections'[t].session = SessionTo(t)
        /\ remote_connections'[t].futures = remote_connections[t].futures \cup {c}
        /\ sess'[t][SessionTo(t)] \in {"open", "shut"}
        /\ req'[c][t].stage = "task" /\ req'[c][t].session = SessionTo(t)
  BY <1>1 DEF Launched
<1>b. /\ \A t \in Remote \ sent : remote_connections'[t] = remote_connections[t]
      /\ \A t \in Remote, s \in Session :
           sess'[t][s] = sess[t][s] \/ (sess[t][s] = "new" /\ sess'[t][s] = "open")
  BY <1>1 DEF Launched
<1>c. /\ \A d \in Call \ {c} :
           req'[d] = req[d] /\ resp'[d] = resp[d] /\ future'[d] = future[d]
      /\ \A t \in Target \ sent :
           req'[c][t].stage = IF t = Self /\ Self \in Receivers[c] THEN "local"
                                                                    ELSE "none"
      /\ \A t \in Target :
           resp'[c][t] = IF t \notin Receivers[c] THEN "absent"
                         ELSE IF t \in sent \/ t = Self THEN "none" ELSE "lost"
      /\ future'[c] = IF sent = {} /\ Self \notin Receivers[c] THEN "done"
                                                               ELSE "waiting"
      /\ UNCHANGED <<network, remote_services, scan, ran>>
  BY <1>1 DEF Launched
<1>3. TypeOK'
  <2>1. ASSUME NEW t \in Remote
        PROVE  /\ remote_connections'[t].session = NoSession =>
                    remote_connections'[t].futures = {}
               /\ \A d \in remote_connections'[t].futures :
                    future'[d] \in {"waiting", "done"}
    <3>1. /\ remote_connections[t].session = NoSession =>
               remote_connections[t].futures = {}
          /\ \A d \in remote_connections[t].futures :
               d \in Call /\ future[d] \in {"waiting", "done"}
      BY <1>t, TypeFact DEF TypeOK
    <3>2. \A d \in remote_connections[t].futures : d # c
      BY <1>2, <3>1
    <3>3. CASE t \in sent
      BY <1>2, <1>a, <1>c, <3>1, <3>2, <3>3
    <3>4. CASE t \notin sent
      BY <1>b, <1>c, <3>1, <3>2, <3>4
    <3>5. QED
      BY <3>3, <3>4
  <2>2. NetworkOK' /\ ran' \in [Call -> SUBSET Target]
    BY <1>t, <1>c, NetworkFact, TypeFact
  <2>3. QED
    BY <1>1, <2>1, <2>2, TypeStep DEF Launched
<1>4. PendingIsConnected'
  <2>1. SUFFICES ASSUME NEW d \in Call, NEW t \in Target,
                        future'[d] = "waiting", resp'[d][t] = "none"
                 PROVE  IsComing(d, t)'
    BY DEF PendingIsConnected
  <2>2. CASE d = c
    <3>1. t \in Receivers[c] /\ (t \in sent \/ t = Self)
      BY <1>c, <2>1, <2>2
    <3>2. CASE t = Self
      BY <1>2, <1>c, <2>2, <3>1, <3>2 DEF IsComing
    <3>3. CASE t \in sent
      BY <1>2, <1>a, <2>2, <3>3 DEF IsComing
    <3>4. QED
      BY <3>1, <3>2, <3>3
  <2>3. CASE d # c
    <3>1. IsComing(d, t)
      BY <1>c, <2>1, <2>3 DEF Inv, PendingIsConnected
    <3>2. req'[d] = req[d]
      BY <1>c, <2>3
    <3>3. CASE t = Self
      BY <3>1, <3>2, <3>3 DEF IsComing
    <3>4. CASE t # Self
      <4>1. /\ t \in Remote /\ remote_connections[t].session # NoSession
            /\ remote_connections[t].session \in Session
            /\ sess[t][remote_connections[t].session] \in {"open", "shut"}
        BY <1>t, <3>1, <3>4, TypeFact DEF IsComing
      <4>2. Connected(t)
        BY <4>1 DEF Connected
      <4>3. /\ remote_connections'[t].session = remote_connections[t].session
            /\ d \in remote_connections'[t].futures
        BY <1>2, <1>a, <1>b, <3>1, <3>4, <4>1, <4>2 DEF SessionTo, IsComing
      <4>4. sess'[t][remote_connections[t].session] =
              sess[t][remote_connections[t].session]
        BY <1>b, <4>1
      <4>5. QED
        BY <3>1, <3>2, <3>4, <4>1, <4>3, <4>4 DEF IsComing
    <3>5. QED
      BY <3>3, <3>4
  <2>4. QED
    BY <2>2, <2>3
<1>5. ASSUME NEW d \in Call PROVE CallInv(d)'
  <2>1. CallInv(d) /\ ran' = ran
    BY <1>c DEF Inv
  <2>2. CASE d # c
    BY <1>c, <2>1, <2>2 DEF CallInv, AllReceived
  <2>3. CASE d = c
    <3>1. ran[c] = {} /\ future'[c] # "new"
      BY <1>2, <1>c, <2>1, <2>3 DEF CallInv
    <3>2. /\ future'[c] = "waiting" => ~AllReceived(resp'[c])
          /\ future'[c] = "done" => AllReceived(resp'[c])
      BY <1>2, <1>c DEF AllReceived
    <3>3. ASSUME NEW t \in Target
          PROVE  /\ req'[c][t].stage \in {"local", "task", "sent"} =>
                      t \notin ran'[c] /\ resp'[c][t] # "absent"
                 /\ req'[c][t].stage = "reply" => t \in ran'[c]
      BY <1>2, <1>a, <1>c, <2>1, <3>1
    <3>4. req'[c][Self].stage \in {"local", "reply"} => resp'[c][Self] = "none"
      BY <1>2, <1>c
    <3>5. QED
      BY <2>3, <3>1, <3>2, <3>3, <3>4 DEF CallInv
  <2>4. QED
    BY <2>2, <2>3
<1>6. ASSUME NEW t \in Remote PROVE RecordInv(t)'
  <2>1. /\ RecordInv(t)
        /\ remote_connections[t].session \in Session \cup {NoSession}
        /\ \A d \in remote_connections[t].futures :
             d \in Call /\ future[d] \in {"waiting", "done"}
    BY <1>t, TypeFact DEF Inv
  <2>2. \A d \in remote_connections[t].futures :
          d # c /\ req'[d] = req[d] /\ resp'[d] = resp[d]
    BY <1>2, <1>c, <2>1
  <2>3. CASE t \in sent
    BY <1>2, <1>a, <1>c, <2>1, <2>2, <2>3 DEF RecordInv
  <2>4. CASE t \notin sent
    BY <1>b, <1>c, <2>1, <2>2, <2>4 DEF RecordInv
  <2>5. QED
    BY <2>3, <2>4
<1>7. QED
  BY <1>3, <1>4, <1>5, <1>6 DEF Inv

LEMMA StepInv ==
  ASSUME Inv, [Next]_vars PROVE Inv'
<1>1. CASE UNCHANGED vars
  BY <1>1, OthersInv
<1>2. ASSUME NEW c \in Call,
             Launch(c) \/ Forget(c) \/ LocalRequest(c) \/ LocalResponse(c)
      PROVE  Inv'
  BY <1>2, LaunchInv, ForgetInv, LocalRequestInv, LocalResponseInv
<1>3. ASSUME NEW c \in Call, NEW t \in Remote, Request(c, t) \/ Drop(c, t)
      PROVE  Inv'
  BY <1>3, SendRequestInv, ServeInv, ReceiveInv, DropInv DEF Request
<1>4. ASSUME NEW t \in Remote, NEW s \in Session, Break(t, s) \/ Close(t, s)
      PROVE  Inv'
  BY <1>4, BreakInv, CloseInv
<1>5. ASSUME NEW t \in Remote, Publish(t) \/ Expire(t) \/ Crash(t)
      PROVE  Inv'
  BY <1>5, OthersInv
<1>6. ASSUME NEW k \in Scanner, Scan(k) \/ Purge(k)
      PROVE  Inv'
  BY <1>6, OthersInv, PurgeInv
<1>7. QED
  BY <1>1, <1>2, <1>3, <1>4, <1>5, <1>6 DEF Next

LEMMA InvAlways == Spec => []Inv
<1>1. Init => Inv
  BY InitInv
<1>2. Inv /\ [Next]_vars => Inv'
  BY StepInv
<1>3. QED
  BY <1>1, <1>2, PTL DEF Spec

(***************************************************************************)
(* The theorems.                                                           *)
(***************************************************************************)
(* The state has its types, and a record of a connection (remote_          *)
(* connections) knows only futures that exist.                             *)
THEOREM TypeOKAlways == Spec => []TypeOK
<1>1. Inv => TypeOK
  BY DEF Inv
<1>2. QED
  BY <1>1, InvAlways, PTL

(* A future of Service::launch never waits for a response that cannot come *)
(* any more, in whatever order its sessions are replaced, purged and       *)
(* closed.                                                                 *)
THEOREM PendingIsConnectedAlways == Spec => []PendingIsConnected
<1>1. Inv => PendingIsConnected
  BY DEF Inv
<1>2. QED
  BY <1>1, InvAlways, PTL

(* A step that completes a future does it with the last response, and one  *)
(* that takes a response takes one that is missing.                        *)
LEMMA LaunchPromise ==
  ASSUME Inv, NEW c \in Call, Launch(c) PROVE Promise!Start(c)
<1> USE TargetFact
<1>1. PICK sent : Launched(c, sent)
  BY LaunchFact
<1>2. /\ future[c] = "new"
      /\ sent \in SUBSET (Remote \cap Receivers[c])
      /\ resp' \in [Call -> [Target -> {"absent", "none", "ok", "lost"}]]
      /\ \A d \in Call \ {c} : resp'[d] = resp[d] /\ future'[d] = future[d]
      /\ \A t \in Target :
           resp'[c][t] = IF t \notin Receivers[c] THEN "absent"
                         ELSE IF t \in sent \/ t = Self THEN "none" ELSE "lost"
      /\ future'[c] = IF sent = {} /\ Self \notin Receivers[c] THEN "done"
                                                               ELSE "waiting"
      /\ future' \in [Call -> {"new", "waiting", "done", "gone"}]
      /\ ran' = ran
  BY <1>1 DEF Launched
<1> DEFINE row == resp'[c]
<1>3. /\ resp \in [Call -> [Target -> {"absent", "none", "ok", "lost"}]]
      /\ future \in [Call -> {"new", "waiting", "done", "gone"}]
  BY TypeFact DEF Inv
<1>4. row \in [Target -> {"absent", "none", "lost"}]
  <2>1. row \in [Target -> {"absent", "none", "ok", "lost"}]
    BY <1>2
  <2>2. \A t \in Target : row[t] \in {"absent", "none", "lost"}
    BY <1>2
  <2>3. QED
    BY <2>1, <2>2
<1>5. \E t \in Target : row[t] # "absent"
  <2>1. Receivers[c] # {} /\ Receivers[c] \subseteq Target
    BY RemoteAssumption DEF Target
  <2>2. QED
    BY <1>2, <2>1
<1>6. Promise!Complete(row) <=> sent = {} /\ Self \notin Receivers[c]
  BY <1>2 DEF Promise!Complete
<1>7. resp' = [resp EXCEPT ![c] = row]
  BY <1>2, <1>3
<1>8. future' = [future EXCEPT ![c] = IF Promise!Complete(row) THEN "done"
                                                              ELSE "waiting"]
  BY <1>2, <1>3, <1>6
<1> HIDE DEF row
<1>9. QED
  BY <1>2, <1>4, <1>5, <1>7, <1>8 DEF Promise!Start

(* What SetResponse does is what the promise calls an answer.              *)
LEMMA SettleFact ==
  ASSUME Inv, NEW c \in Call, NEW t \in Target, SetResponse(c, t),
         future[c] = "waiting"
  PROVE  LET row == [resp[c] EXCEPT ![t] = "ok"] IN
         /\ resp' = [resp EXCEPT ![c] = row]
         /\ future' = [future EXCEPT ![c] = Promise!Settle(row, c)]
<1> DEFINE row == [resp[c] EXCEPT ![t] = "ok"]
<1>1. /\ resp \in [Call -> [Target -> {"absent", "none", "ok", "lost"}]]
      /\ future \in [Call -> {"new", "waiting", "done", "gone"}]
  BY TypeFact DEF Inv
<1>2. /\ resp' \in [Call -> [Target -> {"absent", "none", "ok", "lost"}]]
      /\ future' \in [Call -> {"new", "waiting", "done", "gone"}]
      /\ resp'[c] = row
      /\ future'[c] = IF AllReceived(resp'[c]) THEN "done" ELSE future[c]
      /\ \A d \in Call \ {c} : resp'[d] = resp[d] /\ future'[d] = future[d]
  BY SetResponseFact
<1>3. future'[c] = Promise!Settle(row, c)
  BY <1>2 DEF Promise!Settle, Promise!Complete, AllReceived
<1>4. QED
  BY <1>1, <1>2, <1>3

LEMMA LocalResponsePromise ==
  ASSUME Inv, NEW c \in Call, LocalResponse(c)
  PROVE  Promise!Answer(c, Self) \/ UNCHANGED <<future, resp, ran>>
<1> USE TargetFact
<1>1. /\ req[c][Self].stage = "reply" /\ SetResponse(c, Self)
      /\ ran' = ran
      /\ CallInv(c) /\ future[c] \in {"new", "waiting", "done", "gone"}
  BY TypeFact DEF LocalResponse, Inv
<1>2. /\ resp[c][Self] = "none" /\ Self \in ran[c]
      /\ future[c] \in {"waiting", "gone"}
  BY <1>1 DEF CallInv, AllReceived
<1>3. future[c] = "gone" => resp' = resp /\ future' = future
  BY <1>1, SetResponseFact
<1>4. QED
  BY <1>1, <1>2, <1>3, SettleFact DEF Promise!Answer

LEMMA ReceivePromise ==
  ASSUME Inv, NEW c \in Call, NEW t \in Remote, Receive(c, t)
  PROVE  Promise!Answer(c, t) \/ UNCHANGED <<future, resp, ran>>
<1> USE TargetFact
<1>1. /\ req[c][t].stage = "reply" /\ ran' = ran
      /\ IF c \in remote_connections[t].futures THEN SetResponse(c, t)
                                                ELSE UNCHANGED calls
      /\ CallInv(c) /\ RecordInv(t) /\ TypeOK
  BY DEF Receive, Inv
<1>2. CASE c \in remote_connections[t].futures
  <2>1. resp[c][t] = "none" /\ t \in ran[c]
    BY <1>1, <1>2 DEF CallInv, RecordInv
  <2>2. future[c] = "waiting"
    BY <1>1, <1>2, <2>1, TypeFact DEF CallInv, AllReceived
  <2>3. QED
    BY <1>1, <1>2, <2>1, <2>2, SettleFact DEF Promise!Answer
<1>3. CASE c \notin remote_connections[t].futures
  BY <1>1, <1>3 DEF calls
<1>4. QED
  BY <1>2, <1>3

LEMMA ServePromise ==
  ASSUME Inv, NEW c \in Call, NEW t \in Remote, Serve(c, t)
  PROVE  Promise!Run(c, t)
BY TargetFact DEF Serve, Inv, CallInv, Promise!Run, calls

LEMMA LocalRequestPromise ==
  ASSUME Inv, NEW c \in Call, LocalRequest(c) PROVE Promise!Run(c, Self)
BY TargetFact DEF LocalRequest, Inv, CallInv, Promise!Run, calls

LEMMA LosePromise ==
  ASSUME Inv, NEW T \in SUBSET Remote, Lose(T), ran' = ran
  PROVE  Promise!Lose
<1> USE TargetFact
<1>t. TypeOK
  BY DEF Inv
<1> DEFINE L == [c \in Call |-> {t \in Target : Lost(T, c, t)}]
<1>1. L \in [Call -> SUBSET Target]
  OBVIOUS
<1>2. ASSUME NEW c \in Call, NEW t \in L[c]
      PROVE  future[c] \in {"waiting", "done"} /\ resp[c][t] \in {"none", "ok"}
  <2>1. t \in Remote /\ c \in remote_connections[t].futures
    BY <1>2 DEF Lost
  <2>2. QED
    BY <1>t, <2>1, TypeFact DEF Inv, RecordInv
<1>3. /\ resp \in [Call -> [Target -> {"absent", "none", "ok", "lost"}]]
      /\ future \in [Call -> {"new", "waiting", "done", "gone"}]
  BY <1>t, TypeFact
<1>4. /\ resp' \in [Call -> [Target -> {"absent", "none", "ok", "lost"}]]
      /\ future' \in [Call -> {"new", "waiting", "done", "gone"}]
      /\ \A c \in Call, t \in Target :
           resp'[c][t] = IF t \in L[c] THEN "lost" ELSE resp[c][t]
  BY <1>t, LoseFact
<1>5. resp' = [c \in Call |-> [t \in Target |->
                 IF t \in L[c] THEN "lost" ELSE resp[c][t]]]
  <2>1. ASSUME NEW c \in Call
        PROVE  resp'[c] = [t \in Target |-> IF t \in L[c] THEN "lost" ELSE resp[c][t]]
    <3>1. resp'[c] \in [Target -> {"absent", "none", "ok", "lost"}]
      BY <1>4
    <3>2. QED
      BY <1>4, <3>1
  <2> HIDE DEF L
  <2>2. QED
    BY <1>4, <2>1
<1>6. ASSUME NEW c \in Call PROVE future'[c] = Promise!Settle(resp'[c], c)
  <2>1. /\ future'[c] = "waiting" =>
             future[c] = "waiting" /\ ~AllReceived(resp'[c])
        /\ future'[c] = "done" => AllReceived(resp'[c])
    BY LostFact
  <2>2. future'[c] = "done" \/ future'[c] = future[c]
    BY <1>t, LoseFact
  <2>3. future'[c] = "done" /\ future[c] # "done" => future[c] = "waiting"
    <3>1. SUFFICES ASSUME future'[c] # future[c] PROVE future[c] \in {"waiting", "done"}
      BY <2>2
    <3>2. PICK t \in T : Lost(T, c, t)
      BY <1>t, <3>1, LoseFact
    <3>3. QED
      BY <1>t, <3>2, TypeFact DEF Lost
  <2>4. AllReceived(resp'[c]) <=> Promise!Complete(resp'[c])
    BY DEF AllReceived, Promise!Complete
  <2>5. QED
    BY <1>4, <2>1, <2>2, <2>3, <2>4 DEF Promise!Settle
<1>7. future' = [c \in Call |-> Promise!Settle(resp'[c], c)]
  BY <1>4, <1>6
<1>8. \A c \in Call : L[c] # {} => future[c] \in {"waiting", "done"}
  BY <1>2
<1>9. \A c \in Call : \A t \in L[c] : resp[c][t] \in {"none", "ok"}
  BY <1>2
<1> HIDE DEF L
<1>10. QED
  BY <1>1, <1>5, <1>7, <1>8, <1>9 DEF Promise!Lose

LEMMA StepPromise ==
  ASSUME Inv, [Next]_vars PROVE [Promise!Next]_(Promise!sc_vars)
<1> USE TargetFact
<1>1. CASE UNCHANGED vars
  BY <1>1 DEF vars, Promise!sc_vars
<1>2. ASSUME NEW c \in Call, Launch(c) PROVE Promise!Next
  BY <1>2, LaunchPromise DEF Promise!Next
<1>3. ASSUME NEW c \in Call, Forget(c) PROVE Promise!Next
  BY <1>3 DEF Forget, Promise!Forget, Promise!Next
<1>4. ASSUME NEW c \in Call, LocalRequest(c) PROVE Promise!Next
  BY <1>4, LocalRequestPromise DEF Promise!Next
<1>l. ASSUME NEW c \in Call, LocalResponse(c)
      PROVE  Promise!Next \/ UNCHANGED Promise!sc_vars
  BY <1>l, LocalResponsePromise DEF Promise!Next, Promise!sc_vars
<1>5. ASSUME NEW c \in Call, NEW t \in Remote, Serve(c, t) PROVE Promise!Next
  BY <1>5, ServePromise DEF Promise!Next
<1>6. ASSUME NEW c \in Call, NEW t \in Remote, Receive(c, t)
      PROVE  Promise!Next \/ UNCHANGED Promise!sc_vars
  BY <1>6, ReceivePromise DEF Promise!Next, Promise!sc_vars
<1>7. ASSUME NEW c \in Call, NEW t \in Remote, SendRequest(c, t) \/ Drop(c, t)
      PROVE  UNCHANGED Promise!sc_vars
  BY <1>7 DEF SendRequest, Drop, calls, Promise!sc_vars
<1>8. ASSUME NEW t \in Remote, NEW s \in Session, Close(t, s) PROVE Promise!Next
  BY <1>8, LosePromise DEF Close, Promise!Next
<1>9. ASSUME NEW k \in Scanner, Purge(k) PROVE Promise!Next
  <2> DEFINE T == {t \in Remote : ~(Connected(t) /\ t \in scan[k].found)}
  <2>1. Lose(T) /\ ran' = ran
    BY <1>9 DEF Purge
  <2>2. QED
    BY <2>1, LosePromise DEF Promise!Next
<1>10. ASSUME \/ \E t \in Remote : \/ Publish(t) \/ Expire(t) \/ Crash(t)
                                   \/ \E s \in Session : Break(t, s)
              \/ \E k \in Scanner : Scan(k)
       PROVE  UNCHANGED Promise!sc_vars
  BY <1>10 DEF Publish, Expire, Crash, Break, Scan, calls, Promise!sc_vars
<1>11. QED
  BY <1>1, <1>2, <1>3, <1>4, <1>l, <1>5, <1>6, <1>7, <1>8, <1>9, <1>10
     DEF Next, Request

(* Service::launch and all that answers, purges and closes keep the        *)
(* promise of ServiceCall: at most one run of a call per service, only     *)
(* answers of services that have run it, and futures that are completed by *)
(* the last response and by nothing else.                                  *)
THEOREM KeepsPromiseAlways == Spec => KeepsPromise
<1>1. Init => Promise!Init
  BY DEF Init, Promise!Init
<1>2. Inv /\ [Next]_vars => [Promise!Next]_(Promise!sc_vars)
  BY StepPromise
<1>3. QED
  BY <1>1, <1>2, InvAlways, PTL DEF Spec, KeepsPromise, Promise!Spec

(* A response that was given up as lost is never replaced by an answer     *)
(* that comes late.                                                        *)
THEOREM LostIsFinalAlways == Spec => LostIsFinal
<1> DEFINE Final == \A c \in Call, t \in Target :
                      resp[c][t] = "lost" => resp'[c][t] = "lost"
<1>1. Inv /\ [Next]_vars => [Final]_resp
  <2> SUFFICES ASSUME Inv, [Next]_vars,
                      NEW c \in Call, NEW t \in Target, resp[c][t] = "lost"
               PROVE  resp'[c][t] = "lost"
    OBVIOUS
  <2>1. /\ resp \in [Call -> [Target -> {"absent", "none", "ok", "lost"}]]
        /\ \A d \in Call, u \in Target : future[d] = "new" => resp[d][u] = "absent"
    BY TypeFact DEF Inv, CallInv
  <2>2. ASSUME NEW d \in Call, Promise!Start(d) PROVE resp'[c][t] = "lost"
    <3>1. d # c
      BY <2>1, <2>2 DEF Promise!Start
    <3>2. QED
      BY <2>1, <2>2, <3>1 DEF Promise!Start
  <2>3. ASSUME NEW d \in Call, NEW u \in Target, Promise!Answer(d, u)
        PROVE  resp'[c][t] = "lost"
    <3>1. d # c \/ u # t
      BY <2>3 DEF Promise!Answer
    <3>2. resp' = [resp EXCEPT ![d] = [resp[d] EXCEPT ![u] = "ok"]]
      BY <2>3 DEF Promise!Answer
    <3>3. QED
      BY <2>1, <3>1, <3>2
  <2>4. CASE Promise!Lose
    BY <2>1, <2>4 DEF Promise!Lose
  <2>5. ASSUME NEW d \in Call, NEW u \in Target, Promise!Run(d, u)
        PROVE  resp' = resp
    BY <2>5 DEF Promise!Run
  <2>6. ASSUME NEW d \in Call, Promise!Forget(d) PROVE resp' = resp
    BY <2>6 DEF Promise!Forget
  <2>7. CASE UNCHANGED Promise!sc_vars
    BY <2>7 DEF Promise!sc_vars
  <2>8. QED
    BY <2>2, <2>3, <2>4, <2>5, <2>6, <2>7, StepPromise DEF Promise!Next
<1>2. QED
  BY <1>1, InvAlways, PTL DEF Spec, LostIsFinal

=============================================================================
