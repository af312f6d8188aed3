------------------------------ MODULE HttpQueue ------------------------------
(***************************************************************************)
(* How a process makes HTTP requests (k32/common/static/http_requestor.cpp *)
(* and k32/common/fiber/http_future.hpp): requests to one host and port    *)
(* share a session, and a queue of weak futures says which request the     *)
(* next response is for.                                                   *)
(*                                                                         *)
(* enqueue_weak and the callbacks of the sessions do not yield, and each   *)
(* is one action.  A server answers the requests of a session in their     *)
(* order.  A session is "shut" as soon as either side has ended it; the    *)
(* close event comes after all of its messages, and after it nobody holds  *)
(* the session ("gone").                                                   *)
(***************************************************************************)
EXTENDS Naturals, Sequences

CONSTANTS
  Host,     \* hosts, each with its port
  Request,  \* bound: requests, each enqueued once
  Uri,      \* the host and the scheme of each request
  Session,  \* bound: sessions
  Closed,   \* the status code zero
  None      \* no session, no response

Scheme == {"http", "https"}

ASSUME HttpAssumption ==
  /\ Uri \in [Request -> [host : Host, scheme : Scheme]]
  /\ None \notin Request \cup Session \cup {Closed} /\ Closed \notin Request
  /\ None \notin [host : Host, scheme : Scheme]

VARIABLES
  weak_session,   \* Connection_to_Host::weak_http_session, weak_https_session
  request_queue,  \* Connection_to_Host::request_queue
  sess,           \* the sessions
  pending,        \* the requests sent over each session, not yet answered
  future,         \* the future of every request
  resp,           \* what it was completed with: whose response, or Closed
  via             \* history: the session that each request was given to

vars == <<weak_session, request_queue, sess, pending, future, resp, via>>

(* A host without a record has no sessions and an empty queue.             *)
NoSessions == [c \in Scheme |-> None]
NewSess    == [state |-> "new", uri |-> None]
Sess       == [state : {"new", "open", "shut", "gone"},
               uri : [host : Host, scheme : Scheme] \cup {None}]

(* The type invariant: the sessions of a record are alive and of its host, *)
(* and a future has a response when it is completed and not before.        *)
TypeOK ==
  /\ weak_session \in [Host -> [Scheme -> Session \cup {None}]]
  /\ \A h \in Host, c \in Scheme :
       weak_session[h][c] # None =>
         /\ sess[weak_session[h][c]].state \in {"open", "shut"}
         /\ sess[weak_session[h][c]].uri = [host |-> h, scheme |-> c]
  /\ request_queue \in [Host -> Seq(Request)]
  /\ sess \in [Session -> Sess]
  /\ \A s \in Session : sess[s].state # "new" => sess[s].uri # None
  /\ pending \in [Session -> Seq(Request)]
  /\ future \in [Request -> {"new", "waiting", "done", "gone"}]
  /\ resp \in [Request -> Request \cup {Closed, None}]
  /\ \A q \in Request :
       /\ future[q] \in {"new", "waiting"} => resp[q] = None
       /\ future[q] = "done" => resp[q] # None
  /\ via \in [Request -> Session \cup {None}]

Init ==
  /\ weak_session = [h \in Host |-> NoSessions]
  /\ request_queue = [h \in Host |-> << >>]
  /\ sess = [s \in Session |-> NewSess]
  /\ pending = [s \in Session |-> << >>]
  /\ future = [q \in Request |-> "new"]
  /\ resp = [q \in Request |-> None]
  /\ via = [q \in Request |-> None]

(* Mutant: a session that is ending is not used any more.                  *)
IsOpen(s)   == s # None /\ sess[s].state = "open"

(* weak_http_session.lock(): sessions live until their close event.        *)
IsLocked(s) == s # None /\ sess[s].state # "gone"

(* enqueue_weak.  A session that is ending does not send the request, but  *)
(* the future waits for its close event all the same.                      *)
Enqueue(q) ==
  LET h     == Uri[q].host
      weak  == weak_session[h][Uri[q].scheme]
      fresh == {s \in Session : sess[s].state = "new"}
      s     == IF IsLocked(weak) THEN weak ELSE CHOOSE x \in fresh : TRUE
  IN
  /\ future[q] = "new"
  /\ IsLocked(weak) \/ fresh # {}
  /\ IF IsLocked(weak)
     THEN UNCHANGED <<sess, weak_session>>
     ELSE /\ sess' = [sess EXCEPT ![s] = [state |-> "open", uri |-> Uri[q]]]
          /\ weak_session' = [weak_session EXCEPT ![h][Uri[q].scheme] = s]
  /\ request_queue' = [request_queue EXCEPT ![h] = Append(@, q)]
  /\ pending' = IF sess'[s].state = "open"
                THEN [pending EXCEPT ![s] = Append(@, q)] ELSE pending
  /\ future' = [future EXCEPT ![q] = "waiting"]
  /\ via' = [via EXCEPT ![q] = s]
  /\ UNCHANGED resp

(* Nobody waits for a request any more: its future expires, its place in   *)
(* the queue stays.                                                        *)
Forget(q) ==
  /\ future[q] \in {"waiting", "done"}
  /\ future' = [future EXCEPT ![q] = "gone"]
  /\ UNCHANGED <<weak_session, request_queue, sess, pending, resp, via>>

(* The futures of Q that have not expired are completed with a response.   *)
Complete(Q, response) ==
  /\ future' = [q \in Request |->
                  IF q \in Q /\ future[q] = "waiting" THEN "done"
                                                      ELSE future[q]]
  /\ resp' = [q \in Request |->
                IF q \in Q /\ future[q] = "waiting" THEN response ELSE resp[q]]

(* do_set_single_response.  Mutants: expired futures are skipped; interim  *)
(* responses are responses.                                                *)
IsAlive(q)       == future[q] # "gone"
NextAlive(queue) == SelectSeq(queue, IsAlive)
NextInQueue(queue) == queue

NeverInterim(status) == FALSE
IsInterim(status)    == status = "1xx"

Message(s, status) ==
  LET h     == sess[s].uri.host
      queue == NextInQueue(request_queue[h])
  IN
  /\ sess[s].state \in {"open", "shut"} /\ pending[s] # << >>
  /\ pending' = IF status = "1xx" THEN pending
                ELSE [pending EXCEPT ![s] = Tail(@)]
  /\ IF IsInterim(status) \/ queue = << >>
     THEN UNCHANGED <<request_queue, future, resp>>
     ELSE /\ request_queue' = [request_queue EXCEPT ![h] = Tail(queue)]
          /\ Complete({Head(queue)}, Head(pending[s]))
  /\ UNCHANGED <<weak_session, sess, via>>

(* Either side, or the network, ends a session.                            *)
Break(s) ==
  /\ sess[s].state = "open"
  /\ sess' = [sess EXCEPT ![s].state = "shut"]
  /\ UNCHANGED <<weak_session, request_queue, pending, future, resp, via>>

(* The close event, do_remove_connection: the record of the host, with its *)
(* sessions of both schemes, is erased.  Mutants: futures are not told;    *)
(* only the queue is emptied.                                              *)
NobodyIn(queue) == {}
AllIn(queue)    == {queue[i] : i \in 1 .. Len(queue)}

SameSessions(h)   == weak_session[h]
ErasedSessions(h) == NoSessions

Close(s) ==
  LET h == sess[s].uri.host IN
  /\ sess[s].state = "shut"
  /\ sess' = [sess EXCEPT ![s].state = "gone"]
  /\ pending' = [pending EXCEPT ![s] = << >>]
  /\ weak_session' = [weak_session EXCEPT ![h] = ErasedSessions(h)]
  /\ request_queue' = [request_queue EXCEPT ![h] = << >>]
  /\ Complete(AllIn(request_queue[h]), Closed)
  /\ UNCHANGED via

Next ==
  \/ \E q \in Request : Enqueue(q) \/ Forget(q)
  \/ \E s \in Session : \/ \E status \in {"1xx", "final"} : Message(s, status)
                        \/ Break(s) \/ Close(s)

Spec == Init /\ [][Next]_vars

(* A server answers, or the session ends; its end is reported.             *)
FairSpec ==
  /\ Spec
  /\ \A s \in Session : WF_vars(Message(s, "final")) /\ WF_vars(Close(s))

(***************************************************************************)
(* Properties.                                                             *)
(***************************************************************************)
(* All requests to the host have the same scheme, as is the case with      *)
(* default ports.                                                          *)
Exclusive(h) ==
  \A p, q \in Request :
    Uri[p].host = h /\ Uri[q].host = h => Uri[p].scheme = Uri[q].scheme

(* No request is completed with the response to another one, although only *)
(* their order tells them apart, futures expire in the middle of the queue *)
(* and sessions end with requests in it.                                   *)
OwnResponse ==
  \A q \in Request :
    resp[q] # None /\ Exclusive(Uri[q].host) => resp[q] \in {q, Closed}

(* "If the connection is closed without a response, zero is returned", and *)
(* not if it is another connection, before or after, that is closed.       *)
ZeroMeansClosed ==
  \A q \in Request :
    resp[q] = Closed /\ Exclusive(Uri[q].host) => sess[via[q]].state = "gone"

(* Every future is completed in the end, whatever the schemes are.         *)
EveryRequestEnds ==
  \A q \in Request : future[q] = "waiting" ~> future[q] # "waiting"

(***************************************************************************)
(* Why they hold: the inductive invariant.                                 *)
(***************************************************************************)
Alive(s) == sess[s].state \in {"open", "shut"}

SessionInv(s) ==
  /\ sess[s].state # "new" => \E q \in Request : sess[s].uri = Uri[q]
  /\ ~Alive(s) => pending[s] = << >>

RequestInv(q) ==
  /\ future[q] # "new" => via[q] \in Session
  /\ \A h \in Host : \A i \in 1 .. Len(request_queue[h]) :
       request_queue[h][i] = q => future[q] # "new" /\ Uri[q].host = h

(* The session that is alive is the one in the record; it has been given   *)
(* all requests of the queue, and those it has still to answer are at the  *)
(* head of it.                                                             *)
InOrder(h) ==
  /\ \A s \in Session : Alive(s) /\ sess[s].uri.host = h =>
       /\ weak_session[h][sess[s].uri.scheme] = s
       /\ Len(pending[s]) <= Len(request_queue[h])
       /\ sess[s].state = "open" => Len(pending[s]) = Len(request_queue[h])
       /\ \A i \in 1 .. Len(pending[s]) : request_queue[h][i] = pending[s][i]
  /\ \A i \in 1 .. Len(request_queue[h]) :
       LET s == via[request_queue[h][i]] IN
       Alive(s) /\ sess[s].uri.host = h

Inv ==
  /\ TypeOK
  /\ \A s \in Session : SessionInv(s)
  /\ \A q \in Request : RequestInv(q)
  /\ \A h \in Host : Exclusive(h) => InOrder(h)
  /\ OwnResponse /\ ZeroMeansClosed

=============================================================================
