------------------------------ MODULE RemoteCall ------------------------------
(***************************************************************************)
(* How one process calls other services (k32/common/static/service.cpp):   *)
(* Service::launch, the tasks and fibers that carry a request and its      *)
(* response, the callback of the client sessions, and the timers that scan *)
(* Redis for services and purge connections.                               *)
(*                                                                         *)
(* launch, the callbacks and the timers run in fibers of one thread, and   *)
(* each action below is what one of them does between two yields.  Tasks,  *)
(* other processes, Redis and the network are steps of their own.  A       *)
(* session is "shut" as soon as either side has ended it or the network    *)
(* has; its close event comes after all of its messages, and after it      *)
(* nobody holds the session ("gone").                                      *)
(***************************************************************************)
EXTENDS Naturals

CONSTANTS
  Self,        \* the service of this process
  Remote,      \* other services (a process that restarts is another one)
  Call,        \* bound: calls, each launched once
  Receivers,   \* the services that each call is for
  Scanner,     \* the timers that scan Redis
  MaxSession,  \* bound: sessions to each service
  MaxLapse     \* bound: keys of living services that expire

ASSUME RemoteAssumption ==
  /\ Self \notin Remote /\ MaxSession \in Nat /\ MaxLapse \in Nat
  /\ Receivers \in [Call -> (SUBSET (Remote \cup {Self})) \ {{}}]

VARIABLES
  process,             \* the processes of the other services
  registered,          \* the keys "<app>/service/<uuid>" in Redis
  lapses,              \* counts the keys of living services that expired
  remote_services,     \* Implementation::remote_services
  scan,                \* the scan of each timer, and what it has found
  remote_connections,  \* Implementation::remote_connections
  sess,                \* the client sessions to each service
  req,                 \* the request of each call to each service
  resp,                \* Service_Future::m_responses of each call
  future,              \* the future of each call
  ran                  \* history: the services that have run each call

network == <<process, registered, lapses>>
calls   == <<resp, future>>
vars    == <<network, remote_services, scan, remote_connections, sess, req,
             resp, future, ran>>

Target    == Remote \cup {Self}
Session   == 1 .. MaxSession
NoSession == 0

(* A record without a session stands for no record.  weak_futures that     *)
(* have expired have no effect, and are left out.                          *)
Connection == [session : Session \cup {NoSession}, futures : SUBSET Call]

(* A request that is on its way, or none, before and after.                *)
Stages == {"none", "local", "task", "sent", "reply"}
Quiet  == [stage |-> "none", session |-> NoSession]

(* The type invariant: the futures of a record exist, and wait on a        *)
(* session.                                                                *)
TypeOK ==
  /\ process \in [Remote -> {"new", "up", "down"}]
  /\ registered \subseteq Remote /\ lapses \in Nat
  /\ remote_services \subseteq Remote
  /\ scan \in [Scanner -> [busy : BOOLEAN, found : SUBSET Remote]]
  /\ remote_connections \in [Remote -> Connection]
  /\ \A t \in Remote :
       /\ remote_connections[t].session = NoSession =>
            remote_connections[t].futures = {}
       /\ \A c \in remote_connections[t].futures :
            future[c] \in {"waiting", "done"}
  /\ sess \in [Remote -> [Session -> {"new", "open", "shut", "gone"}]]
  /\ req \in [Call -> [Target -> [stage : Stages,
                                  session : Session \cup {NoSession}]]]
  /\ resp \in [Call -> [Target -> {"absent", "none", "ok", "lost"}]]
  /\ future \in [Call -> {"new", "waiting", "done", "gone"}]
  /\ ran \in [Call -> SUBSET Target]

Init ==
  /\ process = [t \in Remote |-> "new"]
  /\ registered = {} /\ lapses = 0
  /\ remote_services = {}
  /\ scan = [k \in Scanner |-> [busy |-> FALSE, found |-> {}]]
  /\ remote_connections = [t \in Remote |-> [session |-> NoSession,
                                             futures |-> {}]]
  /\ sess = [t \in Remote |-> [s \in Session |-> "new"]]
  /\ req = [c \in Call |-> [t \in Target |-> Quiet]]
  /\ resp = [c \in Call |-> [t \in Target |-> "absent"]]
  /\ future = [c \in Call |-> "new"]
  /\ ran = [c \in Call |-> {}]

(***************************************************************************)
(* Futures.                                                                *)
(***************************************************************************)
(* Mutants: one response is enough; an error is not a response.            *)
SomeReceived(row) == \E t \in Target : row[t] \in {"ok", "lost"}
AllAnswered(row)  == \A t \in Target : row[t] \in {"absent", "ok"}
AllReceived(row)  == \A t \in Target : row[t] # "none"

(* Every future of F has its responses replaced, and is completed if that  *)
(* was all that it has waited for.                                         *)
Respond(F, rows) ==
  /\ resp' = rows
  /\ future' = [c \in Call |-> IF c \in F /\ AllReceived(rows[c])
                               THEN "done" ELSE future[c]]

(* do_set_response: the future may have expired.                           *)
SetResponse(c, t) ==
  IF future[c] \in {"waiting", "done"}
  THEN Respond({c}, [resp EXCEPT ![c][t] = "ok"])
  ELSE UNCHANGED calls

(* The connections to the services of T are gone: the futures of their     *)
(* records have lost those services, whether they had answered or not.     *)
(* Mutant: the records are forgotten together with their futures.          *)
LoseQuietly(T) == UNCHANGED calls

Lose(T) ==
  LET futures(t) == remote_connections[t].futures IN
  Respond({c \in Call : \E t \in T : c \in futures(t)},
          [c \in Call |-> [t \in Target |->
             IF t \in T /\ c \in futures(t) THEN "lost" ELSE resp[c][t]]])

(* find_and_erase(conn, remote_service_uuid).  Mutant: the futures stay.   *)
KeepFutures(record) == [record EXCEPT !.session = NoSession]
Erased(record)      == [session |-> NoSession, futures |-> {}]

Erase(T) ==
  remote_connections' =
    [t \in Remote |-> IF t \in T THEN Erased(remote_connections[t])
                                 ELSE remote_connections[t]]

(***************************************************************************)
(* Service::launch.                                                        *)
(***************************************************************************)
(* conn.weak_session.lock()                                                *)
Connected(t) ==
  LET s == remote_connections[t].session IN
  s # NoSession /\ sess[t][s] # "gone"

NewSession(t) == CHOOSE s \in Session : sess[t][s] = "new"

SessionTo(t) ==
  IF Connected(t) THEN remote_connections[t].session ELSE NewSession(t)

(* Services that are not known or have no address are lost at once.  The   *)
(* others share one session each, which is opened for the first request.   *)
Launch(c) ==
  LET T     == Receivers[c]
      known == T \cap remote_services
  IN
  \E unreachable \in SUBSET {t \in known : ~Connected(t)} :
    LET sent   == known \ unreachable
        opened == {t \in sent : ~Connected(t)}
    IN
    /\ future[c] = "new"
    /\ \A t \in opened : \E s \in Session : sess[t][s] = "new"
    /\ sess' = [t \in Remote |->
                  IF t \in opened THEN [sess[t] EXCEPT ![SessionTo(t)] = "open"]
                                  ELSE sess[t]]
    /\ remote_connections' = [t \in Remote |->
         IF t \in sent
         THEN [session |-> SessionTo(t),
               futures |-> remote_connections[t].futures \cup {c}]
         ELSE remote_connections[t]]
    /\ req' = [req EXCEPT ![c] = [t \in Target |->
         CASE t \in sent -> [stage |-> "task", session |-> SessionTo(t)]
           [] t \in T \cap {Self} -> [stage |-> "local", session |-> NoSession]
           [] OTHER -> Quiet]]
    /\ resp' = [resp EXCEPT ![c] = [t \in Target |->
         CASE t \notin T -> "absent"
           [] t \in sent \cup (T \cap {Self}) -> "none"
           [] OTHER -> "lost"]]
    /\ future' = [future EXCEPT ![c] = IF sent = {} /\ Self \notin T
                                       THEN "done" ELSE "waiting"]
    /\ UNCHANGED <<network, remote_services, scan, ran>>

(* The fiber that has waited goes on, has waited for too long, or did not  *)
(* wait at all: the future expires.                                        *)
Forget(c) ==
  /\ future[c] \in {"waiting", "done"}
  /\ future' = [future EXCEPT ![c] = "gone"]
  /\ remote_connections' = [t \in Remote |->
       [remote_connections[t] EXCEPT !.futures = @ \ {c}]]
  /\ UNCHANGED <<network, remote_services, scan, sess, req, resp, ran>>

(***************************************************************************)
(* The way of a request and its response.  A handler that is missing or    *)
(* throws an exception responds, too.                                      *)
(***************************************************************************)
Stage(c, t, stage) == req' = [req EXCEPT ![c][t].stage = stage]
Finish(c, t)       == req' = [req EXCEPT ![c][t] = Quiet]

(* The state of the session that the request was sent over.                *)
SessionOf(c, t) == sess[t][req[c][t].session]

(* Local_Request_Fiber calls the handler, which may yield.                 *)
LocalRequest(c) ==
  /\ req[c][Self].stage = "local"
  /\ ran' = [ran EXCEPT ![c] = @ \cup {Self}]
  /\ Stage(c, Self, "reply")
  /\ UNCHANGED <<network, remote_services, scan, remote_connections, sess,
                 calls>>

LocalResponse(c) ==
  /\ req[c][Self].stage = "reply"
  /\ SetResponse(c, Self)
  /\ Finish(c, Self)
  /\ UNCHANGED <<network, remote_services, scan, remote_connections, sess,
                 ran>>

(* Remote_Request_Task: nothing is sent on a session that has ended.       *)
SendRequest(c, t) ==
  /\ req[c][t].stage = "task"
  /\ IF SessionOf(c, t) = "open" THEN Stage(c, t, "sent") ELSE Finish(c, t)
  /\ UNCHANGED <<network, remote_services, scan, remote_connections, sess,
                 calls, ran>>

(* Remote_Request_Fiber and Remote_Response_Task on the other side.        *)
Serve(c, t) ==
  /\ req[c][t].stage = "sent" /\ process[t] = "up"
  /\ ran' = [ran EXCEPT ![c] = @ \cup {t}]
  /\ Stage(c, t, "reply")
  /\ UNCHANGED <<network, remote_services, scan, remote_connections, sess,
                 calls>>

(* The session has ended and took the message with it.                     *)
Drop(c, t) ==
  /\ req[c][t].stage \in {"sent", "reply"} /\ SessionOf(c, t) # "open"
  /\ Finish(c, t)
  /\ UNCHANGED <<network, remote_services, scan, remote_connections, sess,
                 calls, ran>>

(* do_client_ws_callback, easy_ws_text: the response is for a future that  *)
(* the record of this service knows.                                       *)
Receive(c, t) ==
  /\ req[c][t].stage = "reply" /\ SessionOf(c, t) # "gone"
  /\ IF c \in remote_connections[t].futures THEN SetResponse(c, t)
                                            ELSE UNCHANGED calls
  /\ Finish(c, t)
  /\ UNCHANGED <<network, remote_services, scan, remote_connections, sess,
                 ran>>

(* The connection breaks or is refused, or the other side closes it.       *)
Break(t, s) ==
  /\ sess[t][s] = "open"
  /\ sess' = [sess EXCEPT ![t][s] = "shut"]
  /\ UNCHANGED <<network, remote_services, scan, remote_connections, req,
                 calls, ran>>

(* do_client_ws_callback, easy_ws_close: the record of the service is      *)
(* erased, whichever session it has.                                       *)
Close(t, s) ==
  /\ sess[t][s] = "shut"
  /\ sess' = [sess EXCEPT ![t][s] = "gone"]
  /\ Lose({t}) /\ Erase({t})
  /\ UNCHANGED <<network, remote_services, scan, req, ran>>

(***************************************************************************)
(* Other services, their keys in Redis, and the timers that scan them.     *)
(***************************************************************************)
Publish(t) ==
  /\ process[t] # "down" /\ t \notin registered
  /\ process' = [process EXCEPT ![t] = "up"]
  /\ registered' = registered \cup {t}
  /\ UNCHANGED <<lapses, remote_services, scan, remote_connections,
                 sess, req, calls, ran>>

(* A key expires when its service has stopped, or could not renew it.      *)
Expire(t) ==
  /\ t \in registered
  /\ process[t] = "up" => lapses < MaxLapse
  /\ lapses' = IF process[t] = "up" THEN lapses + 1 ELSE lapses
  /\ registered' = registered \ {t}
  /\ UNCHANGED <<process, remote_services, scan, remote_connections, sess,
                 req, calls, ran>>

(* The other side may be gone without this side being told.                *)
Crash(t) ==
  /\ process[t] = "up"
  /\ process' = [process EXCEPT ![t] = "down"]
  /\ UNCHANGED <<registered, lapses, remote_services, scan,
                 remote_connections, sess, req, calls, ran>>

(* do_subscribe_timer_callback, which is called by both timers: the scan,  *)
(* and what is done with its result when the fiber is resumed.             *)
Scan(k) ==
  /\ ~scan[k].busy
  /\ scan' = [scan EXCEPT ![k] = [busy |-> TRUE, found |-> registered]]
  /\ UNCHANGED <<network, remote_services, remote_connections, sess, req,
                 calls, ran>>

Purge(k) ==
  LET found   == scan[k].found
      expired == {t \in Remote : ~(Connected(t) /\ t \in found)}
  IN
  /\ scan[k].busy
  /\ scan' = [scan EXCEPT ![k] = [busy |-> FALSE, found |-> {}]]
  /\ remote_services' = found
  /\ sess' = [t \in Remote |-> [s \in Session |->
       IF t \in expired /\ s = remote_connections[t].session
          /\ sess[t][s] = "open"
       THEN "shut" ELSE sess[t][s]]]
  /\ Lose(expired) /\ Erase(expired)
  /\ UNCHANGED <<network, req, ran>>

Request(c, t) == SendRequest(c, t) \/ Serve(c, t) \/ Receive(c, t)

Next ==
  \/ \E c \in Call : \/ Launch(c) \/ Forget(c)
                     \/ LocalRequest(c) \/ LocalResponse(c)
                     \/ \E t \in Remote : Request(c, t) \/ Drop(c, t)
  \/ \E t \in Remote : \/ \E s \in Session : Break(t, s) \/ Close(t, s)
                       \/ Publish(t) \/ Expire(t) \/ Crash(t)
  \/ \E k \in Scanner : Scan(k) \/ Purge(k)

Spec == Init /\ [][Next]_vars

(* Tasks and fibers run, requests on a living session are served and       *)
(* answered, the end of a session is reported, timers tick, and the key of *)
(* a service that has stopped expires.                                     *)
FairSpec ==
  /\ Spec
  /\ \A c \in Call : WF_vars(LocalRequest(c)) /\ WF_vars(LocalResponse(c))
  /\ \A c \in Call, t \in Remote : WF_vars(Request(c, t))
  /\ \A t \in Remote, s \in Session : WF_vars(Close(t, s))
  /\ \A t \in Remote : WF_vars(process[t] = "down" /\ Expire(t))
  /\ \A k \in Scanner : WF_vars(Scan(k)) /\ WF_vars(Purge(k))

(***************************************************************************)
(* Properties.                                                             *)
(***************************************************************************)
(* Nobody waits for nothing: a response that is missing is either that of  *)
(* this process itself, or the record of its service knows the future, and *)
(* the request is on its way over the very session of that record, or was  *)
(* dropped by it and the session's close event is still to come.           *)
(* Connections may be purged, replaced and closed late in any order.       *)
IsComing(c, t) ==
  IF t = Self THEN req[c][t].stage \in {"local", "reply"}
  ELSE LET s == remote_connections[t].session IN
       /\ s # NoSession /\ c \in remote_connections[t].futures
       /\ IF req[c][t].stage = "none" THEN sess[t][s] = "shut"
          ELSE req[c][t].session = s /\ sess[t][s] \in {"open", "shut"}

PendingIsConnected ==
  \A c \in Call, t \in Target :
    future[c] = "waiting" /\ resp[c][t] = "none" => IsComing(c, t)

(* A response that came too late is not taken: what was reported as lost   *)
(* stays lost.  (An answer may turn into a loss, see README.)              *)
LostIsFinal ==
  [][\A c \in Call, t \in Target :
       resp[c][t] = "lost" => resp'[c][t] = "lost"]_resp

(* A call never waits for ever, whatever happens to the services it went   *)
(* to: it is answered, or found to be lost.                                *)
EveryCallEnds ==
  \A c \in Call : future[c] = "waiting" ~> future[c] # "waiting"

(* The calls behave as promised: every service runs a call at most once,   *)
(* answers only what it has run, and the future is completed by the last   *)
(* response and by nothing else.                                           *)
Promise == INSTANCE ServiceCall WITH Call <- Call, Target <- Target,
                                     future <- future, resp <- resp, ran <- ran
KeepsPromise == Promise!Spec

(***************************************************************************)
(* Why they hold: the inductive invariant.                                 *)
(***************************************************************************)
(* A future waits exactly as long as a response is missing, and each       *)
(* request is in one place: not yet run, or run and on its way back.       *)
CallInv(c) ==
  /\ future[c] = "new" =>
       /\ ran[c] = {}
       /\ \A t \in Target : req[c][t].stage = "none" /\ resp[c][t] = "absent"
  /\ future[c] = "waiting" => ~AllReceived(resp[c])
  /\ future[c] = "done" => AllReceived(resp[c])
  /\ \A t \in Target :
       /\ req[c][t].stage \in {"local", "task", "sent"} =>
            t \notin ran[c] /\ resp[c][t] # "absent"
       /\ req[c][t].stage = "reply" => t \in ran[c]
  /\ req[c][Self].stage \in {"local", "reply"} => resp[c][Self] = "none"

(* A record knows only futures whose service has not been lost, and one    *)
(* whose request is on its way has not been answered.                      *)
RecordInv(t) ==
  /\ remote_connections[t].session # NoSession =>
       sess[t][remote_connections[t].session] # "new"
  /\ \A c \in remote_connections[t].futures :
       /\ resp[c][t] \in {"none", "ok"}
       /\ req[c][t].stage # "none" => resp[c][t] = "none"

Inv ==
  /\ TypeOK /\ PendingIsConnected
  /\ \A c \in Call : CallInv(c)
  /\ \A t \in Remote : RecordInv(t)

=============================================================================
