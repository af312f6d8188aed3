--------------------------- MODULE HttpQueueProofs ---------------------------
(***************************************************************************)
(* Proofs about HttpQueue: responses reach the requests they belong to.    *)
(***************************************************************************)
EXTENDS HttpQueue, TLAPS

(* What Append and Tail do to the elements of a sequence.                  *)
LEMMA AppendFacts ==
  ASSUME NEW S, NEW t \in Seq(S), NEW e \in S
  PROVE  /\ Append(t, e) \in Seq(S) /\ Len(Append(t, e)) = Len(t) + 1
         /\ \A i \in 1 .. Len(t) : Append(t, e)[i] = t[i]
         /\ Append(t, e)[Len(t) + 1] = e
  OBVIOUS

LEMMA TailFacts ==
  ASSUME NEW S, NEW t \in Seq(S), t # << >>
  PROVE  /\ Tail(t) \in Seq(S) /\ Len(Tail(t)) = Len(t) - 1
         /\ \A i \in 1 .. Len(Tail(t)) : i + 1 \in 1 .. Len(t) /\ Tail(t)[i] = t[i + 1]
         /\ Head(t) \in S /\ Head(t) = t[1] /\ 1 \in 1 .. Len(t)
  OBVIOUS

LEMMA IndexFacts ==
  ASSUME NEW S, NEW t \in Seq(S)
  PROVE  /\ Len(t) \in Nat
         /\ \A i \in 1 .. Len(t) : t[i] \in S
         /\ Len(t) = 0 <=> t = << >>
  OBVIOUS

-----------------------------------------------------------------------------
LEMMA InitInv == ASSUME Init PROVE Inv
  <1> USE HttpAssumption DEF Init
  <1>1. \A s \in Session : sess[s].state = "new" /\ sess[s].uri = None
    BY DEF NewSess
  <1>2. TypeOK
    BY <1>1 DEF TypeOK, NoSessions, NewSess, Sess
  <1>3. \A s \in Session : SessionInv(s)
    BY <1>1 DEF SessionInv, Alive
  <1>4. \A q \in Request : RequestInv(q)
    BY DEF RequestInv
  <1>5. ASSUME NEW h \in Host PROVE InOrder(h)
    <2>1. \A s \in Session : ~Alive(s)
      BY <1>1 DEF Alive
    <2>2. 1 .. Len(request_queue[h]) = {}
      OBVIOUS
    <2> QED BY <2>1, <2>2 DEF InOrder
  <1>6. OwnResponse /\ ZeroMeansClosed
    BY DEF OwnResponse, ZeroMeansClosed
  <1> QED BY <1>2, <1>3, <1>4, <1>5, <1>6 DEF Inv

-----------------------------------------------------------------------------
(* A future that expires takes no part in the invariant.                   *)
LEMMA ForgetInv ==
  ASSUME Inv, NEW q \in Request, Forget(q)
  PROVE  Inv'
  <1> USE HttpAssumption
  <1>1. /\ UNCHANGED <<weak_session, request_queue, sess, pending, resp, via>>
        /\ future[q] # "new"
        /\ \A p \in Request : /\ p # q => future'[p] = future[p]
                              /\ p = q => future'[p] = "gone"
    BY DEF Forget, Inv, TypeOK
  <1>2. TypeOK'
    <2>1. future' \in [Request -> {"new", "waiting", "done", "gone"}]
      BY DEF Forget, Inv, TypeOK
    <2> QED BY <1>1, <2>1 DEF Inv, TypeOK
  <1>3. \A s \in Session : SessionInv(s)'
    BY <1>1 DEF Inv, SessionInv, Alive
  <1>4. \A p \in Request : RequestInv(p)'
    BY <1>1 DEF Inv, RequestInv
  <1>5. \A h \in Host : Exclusive(h)' => InOrder(h)'
    BY <1>1 DEF Inv, InOrder, Alive, Exclusive
  <1>6. OwnResponse' /\ ZeroMeansClosed'
    BY <1>1 DEF Inv, OwnResponse, ZeroMeansClosed, Exclusive
  <1> QED BY <1>2, <1>3, <1>4, <1>5, <1>6 DEF Inv

(* A session that breaks may still answer what it has been sent.           *)
LEMMA BreakInv ==
  ASSUME Inv, NEW s \in Session, Break(s)
  PROVE  Inv'
  <1> USE HttpAssumption
  <1>1. /\ UNCHANGED <<weak_session, request_queue, pending, future, resp, via>>
        /\ sess[s].state = "open"
        /\ sess' = [sess EXCEPT ![s].state = "shut"]
        /\ sess \in [Session -> Sess]
    BY DEF Break, Inv, TypeOK
  <1>2. /\ sess' \in [Session -> Sess]
        /\ sess'[s].state = "shut" /\ sess'[s].uri = sess[s].uri
        /\ \A x \in Session : x # s => sess'[x] = sess[x]
    BY <1>1 DEF Sess
  <1>3. \A x \in Session : /\ Alive(x)' <=> Alive(x)
                           /\ sess'[x].uri = sess[x].uri
                           /\ sess'[x].state = "open" => sess[x].state = "open"
                           /\ sess'[x].state = "new" <=> sess[x].state = "new"
                           /\ sess'[x].state = "gone" <=> sess[x].state = "gone"
    BY <1>1, <1>2 DEF Alive
  <1>4. TypeOK'
    <2>1. \A x \in Session :
            sess'[x].state \in {"open", "shut"} <=> sess[x].state \in {"open", "shut"}
      BY <1>3 DEF Alive
    <2> QED BY <1>1, <1>2, <1>3, <2>1 DEF Inv, TypeOK
  <1>5. \A x \in Session : SessionInv(x)'
    BY <1>1, <1>3 DEF Inv, SessionInv
  <1>6. \A q \in Request : RequestInv(q)'
    BY <1>1 DEF Inv, RequestInv
  <1>7. ASSUME NEW h \in Host, Exclusive(h) PROVE InOrder(h)'
    <2>1. InOrder(h)
      BY <1>7 DEF Inv
    <2>2. \A i \in 1 .. Len(request_queue[h]) : via[request_queue[h][i]] \in Session
      BY <1>7, IndexFacts DEF Inv, TypeOK, RequestInv
    <2> QED BY <1>1, <1>3, <2>1, <2>2 DEF InOrder
  <1>8. OwnResponse' /\ ZeroMeansClosed'
    <2>1. OwnResponse'
      BY <1>1 DEF Inv, OwnResponse, Exclusive
    <2>2. ZeroMeansClosed'
      <3> SUFFICES ASSUME NEW q \in Request, resp[q] = Closed, Exclusive(Uri[q].host)
                   PROVE  sess'[via[q]].state = "gone"
        BY <1>1 DEF ZeroMeansClosed, Exclusive
      <3>1. sess[via[q]].state = "gone"
        BY DEF Inv, ZeroMeansClosed
      <3>2. future[q] # "new"
        BY DEF Inv, TypeOK
      <3>3. via[q] \in Session
        BY <3>2 DEF Inv, RequestInv
      <3> QED BY <1>3, <3>1, <3>3
    <2> QED BY <2>1, <2>2
  <1> QED BY <1>4, <1>5, <1>6, <1>7, <1>8 DEF Inv, Exclusive

(* The queue grows at its end, and with it what the session has to answer, *)
(* if it sends the request at all.                                         *)
LEMMA EnqueueInv ==
  ASSUME Inv, NEW q \in Request, Enqueue(q)
  PROVE  Inv'
  <1> USE HttpAssumption
  <1> DEFINE h == Uri[q].host
             c == Uri[q].scheme
             weak == weak_session[h][c]
             fresh == {x \in Session : sess[x].state = "new"}
             slot == IF IsLocked(weak) THEN weak ELSE CHOOSE x \in fresh : TRUE
  <1>1. h \in Host /\ c \in Scheme /\ Uri[q] = [host |-> h, scheme |-> c]
    OBVIOUS
  <1>a. /\ future[q] = "new" /\ resp[q] = None
        /\ request_queue' = [request_queue EXCEPT ![h] = Append(@, q)]
        /\ future' = [future EXCEPT ![q] = "waiting"]
        /\ via' = [via EXCEPT ![q] = slot]
        /\ resp' = resp
        /\ pending' = IF sess'[slot].state = "open"
                      THEN [pending EXCEPT ![slot] = Append(@, q)] ELSE pending
    BY DEF Enqueue, Inv, TypeOK
  (* The session that is used: one that is alive, or a new one.            *)
  <1>b. /\ slot \in Session
        /\ sess' \in [Session -> Sess]
        /\ sess'[slot].state \in {"open", "shut"} /\ sess'[slot].uri = Uri[q]
        /\ \A x \in Session : x # slot => sess'[x] = sess[x]
        /\ \/ sess[slot].state = "new" /\ sess'[slot].state = "open" /\ weak = None
           \/ sess'[slot] = sess[slot]
        /\ weak_session' \in [Host -> [Scheme -> Session \cup {None}]]
        /\ weak_session'[h][c] = slot
        /\ \A g \in Host, d \in Scheme :
             (g # h \/ d # c) => weak_session'[g][d] = weak_session[g][d]
    <2>1. CASE IsLocked(weak)
      <3>1. slot = weak /\ sess' = sess /\ weak_session' = weak_session
        BY <2>1 DEF Enqueue
      <3>2. weak # None
        BY <2>1 DEF IsLocked
      <3>3. weak \in Session
        BY <3>2, <1>1 DEF Inv, TypeOK
      <3>4. sess[weak].state \in {"open", "shut"} /\ sess[weak].uri = Uri[q]
        BY <3>2, <1>1 DEF Inv, TypeOK
      <3> QED BY <3>1, <3>3, <3>4 DEF Inv, TypeOK
    <2>2. CASE ~IsLocked(weak)
      <3>1. fresh # {}
        BY <2>2 DEF Enqueue
      <3>2. slot \in fresh
        BY <2>2, <3>1
      <3>3. weak = None
        BY <2>2, <1>1 DEF IsLocked, Inv, TypeOK
      <3>4. /\ sess' = [sess EXCEPT ![slot] = [state |-> "open", uri |-> Uri[q]]]
            /\ weak_session' = [weak_session EXCEPT ![h][c] = slot]
        BY <2>2 DEF Enqueue
      <3>5. [state |-> "open", uri |-> Uri[q]] \in Sess
        BY DEF Sess
      <3> HIDE DEF slot
      <3>6. /\ sess' \in [Session -> Sess]
            /\ sess'[slot] = [state |-> "open", uri |-> Uri[q]]
            /\ \A x \in Session : x # slot => sess'[x] = sess[x]
        BY <3>2, <3>4, <3>5 DEF Inv, TypeOK
      <3>7. /\ weak_session' \in [Host -> [Scheme -> Session \cup {None}]]
            /\ weak_session'[h][c] = slot
            /\ \A g \in Host, d \in Scheme :
                 (g # h \/ d # c) => weak_session'[g][d] = weak_session[g][d]
        BY <3>2, <3>4, <1>1 DEF Inv, TypeOK
      <3> QED BY <3>2, <3>3, <3>6, <3>7
    <2> QED BY <2>1, <2>2
  <1> HIDE DEF slot
  <1>2. /\ future[q] = "new" /\ resp[q] = None
        /\ request_queue' = [request_queue EXCEPT ![h] = Append(@, q)]
        /\ future' = [future EXCEPT ![q] = "waiting"]
        /\ resp' = resp
    BY <1>a
  <1>3. PICK s \in Session :
          /\ sess' \in [Session -> Sess]
          /\ sess'[s].state \in {"open", "shut"} /\ sess'[s].uri = Uri[q]
          /\ \A x \in Session : x # s => sess'[x] = sess[x]
          /\ \/ sess[s].state = "new" /\ sess'[s].state = "open" /\ weak = None
             \/ sess'[s] = sess[s]
          /\ weak_session' \in [Host -> [Scheme -> Session \cup {None}]]
          /\ weak_session'[h][c] = s
          /\ \A g \in Host, d \in Scheme :
               (g # h \/ d # c) => weak_session'[g][d] = weak_session[g][d]
          /\ via' = [via EXCEPT ![q] = s]
          /\ pending' = IF sess'[s].state = "open"
                        THEN [pending EXCEPT ![s] = Append(@, q)] ELSE pending
    BY <1>a, <1>b
  <1>4. /\ request_queue \in [Host -> Seq(Request)] /\ pending \in [Session -> Seq(Request)]
        /\ request_queue' \in [Host -> Seq(Request)] /\ pending' \in [Session -> Seq(Request)]
        /\ request_queue'[h] = Append(request_queue[h], q)
        /\ \A g \in Host : g # h => request_queue'[g] = request_queue[g]
        /\ sess'[s].state = "open" => pending'[s] = Append(pending[s], q)
        /\ sess'[s].state # "open" => pending'[s] = pending[s]
        /\ \A x \in Session : x # s => pending'[x] = pending[x]
    <3>1. request_queue \in [Host -> Seq(Request)] /\ pending \in [Session -> Seq(Request)]
      BY DEF Inv, TypeOK
    <3>2. request_queue[h] \in Seq(Request) /\ pending[s] \in Seq(Request)
      BY <3>1, <1>1, <1>3
    <3>3. Append(request_queue[h], q) \in Seq(Request) /\ Append(pending[s], q) \in Seq(Request)
      BY <3>2, AppendFacts
    <3>4. /\ request_queue' \in [Host -> Seq(Request)]
          /\ request_queue'[h] = Append(request_queue[h], q)
          /\ \A g \in Host : g # h => request_queue'[g] = request_queue[g]
      BY <3>1, <3>3, <1>1, <1>2
    <3>5. CASE sess'[s].state = "open"
      <4>1. pending' = [pending EXCEPT ![s] = Append(pending[s], q)]
        BY <3>5, <1>3
      <4> QED BY <3>1, <3>3, <3>4, <3>5, <4>1, <1>3
    <3>6. CASE sess'[s].state # "open"
      BY <3>1, <3>4, <3>6, <1>3
    <3> QED BY <3>5, <3>6
  <1>5. /\ via' \in [Request -> Session \cup {None}] /\ via'[q] = s
        /\ \A p \in Request : p # q => via'[p] = via[p]
        /\ future' \in [Request -> {"new", "waiting", "done", "gone"}]
        /\ future'[q] = "waiting"
        /\ \A p \in Request : p # q => future'[p] = future[p]
    BY <1>2, <1>3 DEF Inv, TypeOK
  <1>6. \A x \in Session : x # s => (Alive(x)' <=> Alive(x)) /\ sess'[x] = sess[x]
    BY <1>3 DEF Alive
  <1>7. Alive(s)'
    BY <1>3 DEF Alive
  <1>8. TypeOK'
    <2>1. ASSUME NEW g \in Host, NEW d \in Scheme, weak_session'[g][d] # None
          PROVE  /\ sess'[weak_session'[g][d]].state \in {"open", "shut"}
                 /\ sess'[weak_session'[g][d]].uri = [host |-> g, scheme |-> d]
      <3>1. CASE g = h /\ d = c
        BY <3>1, <1>1, <1>3
      <3>2. CASE g # h \/ d # c
        <4>1. weak_session'[g][d] = weak_session[g][d]
          BY <3>2, <1>3
        <4>2. /\ weak_session[g][d] \in Session
              /\ sess[weak_session[g][d]].state \in {"open", "shut"}
              /\ sess[weak_session[g][d]].uri = [host |-> g, scheme |-> d]
          BY <4>1, <2>1 DEF Inv, TypeOK
        <4>3. sess'[weak_session[g][d]] = sess[weak_session[g][d]]
          BY <4>2, <1>3
        <4> QED BY <4>1, <4>2, <4>3
      <3> QED BY <3>1, <3>2
    <2>2. \A x \in Session : sess'[x].state # "new" => sess'[x].uri # None
      <3>1. sess'[s].uri # None
        BY <1>1, <1>3 DEF Inv, TypeOK
      <3> QED BY <3>1, <1>3 DEF Inv, TypeOK
    <2>3. /\ resp' \in [Request -> Request \cup {Closed, None}]
          /\ \A p \in Request :
               /\ future'[p] \in {"new", "waiting"} => resp'[p] = None
               /\ future'[p] = "done" => resp'[p] # None
      BY <1>2, <1>5 DEF Inv, TypeOK
    <2> QED BY <2>1, <2>2, <2>3, <1>3, <1>4, <1>5 DEF TypeOK
  <1>9. ASSUME NEW x \in Session PROVE SessionInv(x)'
    <2>1. SessionInv(x)
      BY DEF Inv
    <2>2. CASE x = s
      BY <2>2, <1>3, <1>7 DEF SessionInv
    <2>3. CASE x # s
      BY <2>1, <2>3, <1>4, <1>6 DEF SessionInv
    <2> QED BY <2>2, <2>3
  <1>10. ASSUME NEW p \in Request PROVE RequestInv(p)'
    <2>1. RequestInv(p)
      BY DEF Inv
    <2>2. future'[p] # "new" => via'[p] \in Session
      BY <2>1, <1>3, <1>5 DEF RequestInv
    <2>3. ASSUME NEW g \in Host, NEW i \in 1 .. Len(request_queue'[g]),
                 request_queue'[g][i] = p
          PROVE  future'[p] # "new" /\ Uri[p].host = g
      <3>1. CASE p = q /\ g = h
        BY <3>1, <1>5
      <3>2. CASE p # q \/ g # h
        <4>1. i \in 1 .. Len(request_queue[g]) /\ request_queue[g][i] = p
          <5>1. CASE g # h
            BY <5>1, <2>3, <1>4
          <5>2. CASE g = h /\ p # q
            <6>1. /\ request_queue[h] \in Seq(Request) /\ Len(request_queue[h]) \in Nat
                  /\ request_queue'[h] = Append(request_queue[h], q)
              BY <1>1, <1>4, IndexFacts
            <6>2. /\ Len(request_queue'[h]) = Len(request_queue[h]) + 1
                  /\ request_queue'[h][Len(request_queue[h]) + 1] = q
                  /\ \A j \in 1 .. Len(request_queue[h]) :
                       request_queue'[h][j] = request_queue[h][j]
              BY <6>1, AppendFacts
            <6>3. i \in 1 .. Len(request_queue'[h]) /\ request_queue'[h][i] = p
              BY <5>2, <2>3
            <6>4. i # Len(request_queue[h]) + 1
              BY <5>2, <6>2, <6>3
            <6>5. i \in 1 .. Len(request_queue[h])
              BY <6>1, <6>2, <6>3, <6>4
            <6> QED BY <5>2, <6>2, <6>3, <6>5
          <5> QED BY <5>1, <5>2, <3>2
        <4>2. future[p] # "new" /\ Uri[p].host = g
          BY <4>1, <2>1 DEF RequestInv
        <4> QED BY <4>2, <1>5
      <3> QED BY <3>1, <3>2
    <2> QED BY <2>2, <2>3 DEF RequestInv
  <1>11. ASSUME NEW g \in Host, Exclusive(g) PROVE InOrder(g)'
    <2>0. InOrder(g)
      BY <1>11 DEF Inv
    <2>1. \A i \in 1 .. Len(request_queue[g]) :
             /\ request_queue[g][i] \in Request /\ request_queue[g][i] # q
             /\ via[request_queue[g][i]] \in Session
      BY <1>2, <1>4, IndexFacts DEF Inv, RequestInv
    <2>2. CASE g # h
      <3>1. \A x \in Session : Alive(x)' /\ sess'[x].uri.host = g => x # s
        BY <2>2, <1>1, <1>3
      <3>2. \A d \in Scheme : weak_session'[g][d] = weak_session[g][d]
        BY <2>2, <1>3
      <3>3. \A x \in Session : Alive(x) /\ sess[x].uri.host = g => sess[x].uri.scheme \in Scheme
        BY DEF Inv, SessionInv, Alive
      <3>4. \A i \in 1 .. Len(request_queue[g]) :
               /\ via'[request_queue[g][i]] = via[request_queue[g][i]]
               /\ via[request_queue[g][i]] # s
        <4>1. sess[s].state = "new" \/ sess[s].uri.host = h
          BY <1>1, <1>3
        <4>2. Alive(s) => sess[s].uri.host = h
          BY <4>1 DEF Alive
        <4> QED BY <2>0, <2>1, <2>2, <1>5, <4>2 DEF InOrder
      <3>5. ASSUME NEW x \in Session, Alive(x)', sess'[x].uri.host = g
            PROVE  /\ weak_session'[g][sess'[x].uri.scheme] = x
                   /\ Len(pending'[x]) <= Len(request_queue'[g])
                   /\ sess'[x].state = "open" => Len(pending'[x]) = Len(request_queue'[g])
                   /\ \A i \in 1 .. Len(pending'[x]) : request_queue'[g][i] = pending'[x][i]
        <4>1. /\ x # s /\ sess'[x] = sess[x] /\ pending'[x] = pending[x]
              /\ request_queue'[g] = request_queue[g] /\ Alive(x)
          BY <3>1, <3>5, <2>2, <1>4, <1>6
        <4> QED BY <4>1, <3>2, <3>3, <3>5, <2>0 DEF InOrder
      <3>6. ASSUME NEW i \in 1 .. Len(request_queue'[g])
            PROVE  /\ sess'[via'[request_queue'[g][i]]].state \in {"open", "shut"}
                   /\ sess'[via'[request_queue'[g][i]]].uri.host = g
        <4>1. i \in 1 .. Len(request_queue[g]) /\ request_queue'[g] = request_queue[g]
          BY <2>2, <3>6, <1>4
        <4>2. Alive(via[request_queue[g][i]]) /\ sess[via[request_queue[g][i]]].uri.host = g
          BY <4>1, <2>0 DEF InOrder
        <4> QED BY <4>1, <4>2, <3>4, <2>1, <1>6 DEF Alive
      <3> QED BY <3>5, <3>6 DEF InOrder, Alive
    <2>3. CASE g = h
      (* Only one session of the host can be alive: the one that is used.  *)
      <3>1. \A x \in Session : Alive(x)' /\ sess'[x].uri.host = h => x = s
        <4> SUFFICES ASSUME NEW x \in Session, Alive(x)', sess'[x].uri.host = h, x # s
                     PROVE  FALSE
          OBVIOUS
        <4>1. Alive(x) /\ sess[x].uri.host = h
          BY <1>6
        <4>2. sess[x].uri = Uri[q]
          BY <4>1, <2>3, <1>1, <1>11 DEF Inv, SessionInv, Alive, Exclusive
        <4>3. weak = x
          BY <4>1, <4>2, <2>0, <2>3 DEF InOrder
        <4>4. weak # None
          BY <4>3
        <4>5. sess'[s] = sess[s]
          BY <4>4, <1>3
        <4>6. Alive(s) /\ sess[s].uri = Uri[q]
          BY <4>5, <1>3 DEF Alive
        <4>7. weak = s
          BY <4>6, <2>0, <2>3, <1>3 DEF InOrder
        <4> QED BY <4>3, <4>7
      <3>2. /\ Len(pending'[s]) <= Len(request_queue'[h])
            /\ sess'[s].state = "open" => Len(pending'[s]) = Len(request_queue'[h])
            /\ \A i \in 1 .. Len(pending'[s]) : request_queue'[h][i] = pending'[s][i]
            /\ \A i \in 1 .. Len(request_queue[h]) : via[request_queue[h][i]] = s
        <4>0. /\ request_queue[h] \in Seq(Request) /\ pending[s] \in Seq(Request)
              /\ Len(request_queue[h]) \in Nat /\ Len(pending[s]) \in Nat
          BY <1>1, <1>3, <1>4, IndexFacts
        <4>1. /\ Len(pending[s]) <= Len(request_queue[h])
              /\ sess'[s].state = "open" => Len(pending[s]) = Len(request_queue[h])
              /\ \A i \in 1 .. Len(pending[s]) : request_queue[h][i] = pending[s][i]
              /\ \A i \in 1 .. Len(request_queue[h]) : via[request_queue[h][i]] = s
          <5>1. CASE sess'[s] = sess[s]
            <6>1. Alive(s) /\ sess[s].uri.host = h
              BY <5>1, <1>1, <1>3 DEF Alive
            <6>2. \A i \in 1 .. Len(request_queue[h]) : via[request_queue[h][i]] = s
              <7> SUFFICES ASSUME NEW i \in 1 .. Len(request_queue[h])
                           PROVE  via[request_queue[h][i]] = s
                OBVIOUS
              <7>1. PICK x \in Session : /\ x = via[request_queue[h][i]]
                                         /\ Alive(x) /\ sess[x].uri.host = h
                BY <2>0, <2>1, <2>3 DEF InOrder
              <7>2. x # s => Alive(x)' /\ sess'[x].uri.host = h
                BY <7>1, <1>6
              <7>3. x = s
                BY <7>1, <7>2, <3>1
              <7> QED BY <7>1, <7>3
            <6> QED BY <5>1, <6>1, <6>2, <2>0, <2>3 DEF InOrder
          <5>2. CASE sess[s].state = "new"
            <6>1. ~Alive(s)
              BY <5>2 DEF Alive
            <6>2. pending[s] = << >>
              BY <6>1, <1>3 DEF Inv, SessionInv
            <6>3. Len(request_queue[h]) = 0
              <7> SUFFICES ASSUME 1 \in 1 .. Len(request_queue[h]) PROVE FALSE
                BY <4>0
              <7>1. PICK x \in Session : Alive(x) /\ sess[x].uri.host = h
                BY <2>0, <2>1, <2>3 DEF InOrder
              <7>2. x # s
                BY <7>1, <6>1
              <7> QED BY <7>1, <7>2, <3>1, <1>6
            <6> QED BY <6>2, <6>3, <4>0
          <5> QED BY <5>1, <5>2, <1>3
        <4>2. CASE sess'[s].state = "open"
          <5>1. pending'[s] = Append(pending[s], q) /\ request_queue'[h] = Append(request_queue[h], q)
            BY <4>2, <1>4
          <5>2. Len(pending'[s]) = Len(pending[s]) + 1 /\ Len(request_queue'[h]) = Len(pending[s]) + 1
            BY <5>1, <4>0, <4>1, <4>2, AppendFacts
          <5>3. ASSUME NEW i \in 1 .. Len(pending'[s])
                PROVE  request_queue'[h][i] = pending'[s][i]
            <6>1. CASE i \in 1 .. Len(pending[s])
              BY <6>1, <5>1, <4>0, <4>1, <4>2, AppendFacts
            <6>2. CASE i = Len(pending[s]) + 1
              BY <6>2, <5>1, <4>0, <4>1, <4>2, AppendFacts
            <6> QED BY <6>1, <6>2, <5>2, <5>3, <4>0
          <5> QED BY <5>2, <5>3, <4>0, <4>1
        <4>3. CASE sess'[s].state # "open"
          <5>1. pending'[s] = pending[s] /\ request_queue'[h] = Append(request_queue[h], q)
            BY <4>3, <1>4
          <5>2. Len(request_queue'[h]) = Len(request_queue[h]) + 1
            BY <5>1, <4>0, AppendFacts
          <5>3. \A i \in 1 .. Len(request_queue[h]) : request_queue'[h][i] = request_queue[h][i]
            BY <5>1, <4>0, AppendFacts
          <5> QED BY <5>1, <5>2, <5>3, <4>0, <4>1, <4>3
        <4> QED BY <4>2, <4>3
      <3>3. \A x \in Session : Alive(x)' /\ sess'[x].uri.host = g =>
              weak_session'[g][sess'[x].uri.scheme] = x
        BY <3>1, <2>3, <1>1, <1>3
      <3>4. ASSUME NEW i \in 1 .. Len(request_queue'[h])
            PROVE  via'[request_queue'[h][i]] = s
        <4>0. request_queue[h] \in Seq(Request) /\ Len(request_queue[h]) \in Nat
          BY <1>1, <1>4, IndexFacts
        <4>1. Len(request_queue'[h]) = Len(request_queue[h]) + 1
          BY <4>0, <1>4, AppendFacts
        <4>2. CASE i \in 1 .. Len(request_queue[h])
          <5>1. request_queue'[h][i] = request_queue[h][i]
            BY <4>0, <4>2, <1>4, AppendFacts
          <5> QED BY <5>1, <4>2, <3>2, <2>1, <2>3, <1>5
        <4>3. CASE i = Len(request_queue[h]) + 1
          BY <4>0, <4>3, <1>4, <1>5, AppendFacts
        <4> QED BY <4>0, <4>1, <4>2, <4>3, <3>4
      <3>5. Alive(s)' /\ sess'[s].uri.host = h
        BY <1>1, <1>3, <1>7
      <3> QED BY <3>1, <3>2, <3>3, <3>4, <3>5, <2>3 DEF InOrder
    <2> QED BY <2>2, <2>3
  <1>12. OwnResponse'
    BY <1>2 DEF Inv, OwnResponse, Exclusive
  <1>13. ZeroMeansClosed'
    <2> SUFFICES ASSUME NEW p \in Request, resp[p] = Closed, Exclusive(Uri[p].host)
                 PROVE  sess'[via'[p]].state = "gone"
      BY <1>2 DEF ZeroMeansClosed, Exclusive
    <2>1. p # q
      BY <1>2
    <2>2. sess[via[p]].state = "gone"
      BY DEF Inv, ZeroMeansClosed
    <2>3. future[p] # "new"
      BY DEF Inv, TypeOK
    <2>4. via[p] \in Session
      BY <2>3 DEF Inv, RequestInv
    <2>5. via[p] # s
      BY <2>2, <1>3
    <2> QED BY <2>1, <2>2, <2>4, <2>5, <1>3, <1>5
  <1> QED BY <1>8, <1>9, <1>10, <1>11, <1>12, <1>13 DEF Inv, Exclusive

(* Of a host with one scheme only one session is alive.                    *)
LEMMA OneAlive ==
  ASSUME Inv, NEW h \in Host, Exclusive(h),
         NEW x \in Session, Alive(x), sess[x].uri.host = h,
         NEW y \in Session, Alive(y), sess[y].uri.host = h
  PROVE  x = y
  <1>1. PICK p \in Request : sess[x].uri = Uri[p]
    BY DEF Inv, SessionInv, Alive
  <1>2. PICK q \in Request : sess[y].uri = Uri[q]
    BY DEF Inv, SessionInv, Alive
  <1>3. sess[x].uri.scheme = sess[y].uri.scheme
    BY <1>1, <1>2 DEF Exclusive
  <1>4. InOrder(h)
    BY DEF Inv
  <1> QED BY <1>3, <1>4 DEF InOrder

LEMMA StutterInv == ASSUME Inv, UNCHANGED vars PROVE Inv'
  BY DEF vars, Inv, TypeOK, SessionInv, RequestInv, InOrder, Alive, Exclusive,
         OwnResponse, ZeroMeansClosed

(* An interim response changes nothing.                                    *)
LEMMA InterimInv ==
  ASSUME Inv, NEW s \in Session, Message(s, "1xx")
  PROVE  Inv'
  <1>1. UNCHANGED vars
    BY DEF Message, IsInterim, vars
  <1> QED BY <1>1, StutterInv

(* The queue and what the session has to answer shrink at their heads,     *)
(* which are the same.                                                     *)
LEMMA MessageInv ==
  ASSUME Inv, NEW s \in Session, Message(s, "final")
  PROVE  Inv'
  <1> USE HttpAssumption
  <1>1. PICK h \in Host : h = sess[s].uri.host
    BY DEF Message, Inv, TypeOK, Sess
  <1>2. /\ UNCHANGED <<weak_session, sess, via>>
        /\ Alive(s) /\ pending[s] # << >>
        /\ pending \in [Session -> Seq(Request)]
        /\ request_queue \in [Host -> Seq(Request)]
    BY DEF Message, Alive, Inv, TypeOK
  <1>3. pending[s] \in Seq(Request) /\ request_queue[h] \in Seq(Request)
    BY <1>2
  <1>4. PICK answer \in Request : answer = Head(pending[s]) /\ answer = pending[s][1]
    BY <1>2, <1>3, TailFacts
  <1>5. /\ pending' \in [Session -> Seq(Request)]
        /\ pending'[s] = Tail(pending[s])
        /\ \A x \in Session : x # s => pending'[x] = pending[x]
    <2>1. pending' = [pending EXCEPT ![s] = Tail(pending[s])]
      BY DEF Message
    <2>2. Tail(pending[s]) \in Seq(Request)
      BY <1>2, <1>3, TailFacts
    <2> QED BY <2>1, <2>2, <1>2
  <1>6. ASSUME request_queue[h] = << >>
        PROVE  UNCHANGED <<request_queue, future, resp>>
    BY <1>1, <1>6 DEF Message, NextInQueue
  <1>7. ASSUME request_queue[h] # << >>
        PROVE  /\ request_queue' = [request_queue EXCEPT ![h] = Tail(request_queue[h])]
               /\ Complete({request_queue[h][1]}, answer)
    <2>1. Head(request_queue[h]) = request_queue[h][1]
      BY <1>3, <1>7, TailFacts
    <2> QED BY <2>1, <1>1, <1>4, <1>7 DEF Message, NextInQueue, IsInterim
  <1>8. /\ request_queue' \in [Host -> Seq(Request)]
        /\ request_queue[h] = << >> => request_queue'[h] = << >>
        /\ request_queue[h] # << >> => request_queue'[h] = Tail(request_queue[h])
        /\ \A g \in Host : g # h => request_queue'[g] = request_queue[g]
    <2>1. CASE request_queue[h] = << >>
      BY <2>1, <1>2, <1>6
    <2>2. CASE request_queue[h] # << >>
      <3>1. Tail(request_queue[h]) \in Seq(Request)
        BY <2>2, <1>3, TailFacts
      <3>2. request_queue' = [request_queue EXCEPT ![h] = Tail(request_queue[h])]
        BY <2>2, <1>7
      <3>3. request_queue' \in [Host -> Seq(Request)]
        BY <3>1, <3>2, <1>2
      <3>4. request_queue'[h] = Tail(request_queue[h])
        BY <3>2, <1>2
      <3> QED BY <2>2, <3>2, <3>3, <3>4, <1>2
    <2> QED BY <2>1, <2>2
  (* Every place in the new queue was the next place in the old one.       *)
  <1>9. ASSUME NEW g \in Host, NEW i \in 1 .. Len(request_queue'[g])
        PROVE  \E j \in 1 .. Len(request_queue[g]) :
                 request_queue'[g][i] = request_queue[g][j]
    <2>1. CASE g = h /\ request_queue[h] # << >>
      <3>0. /\ i \in 1 .. Len(Tail(request_queue[h]))
            /\ request_queue'[h] = Tail(request_queue[h])
        BY <2>1, <1>8, <1>9
      <3>1. i + 1 \in 1 .. Len(request_queue[h])
            /\ request_queue'[h][i] = request_queue[h][i + 1]
        BY <3>0, <2>1, <1>3, TailFacts
      <3> QED BY <2>1, <3>1
    <2>2. CASE g # h \/ request_queue[h] = << >>
      BY <2>2, <1>8, <1>9
    <2> QED BY <2>1, <2>2
  <1>10. ASSUME NEW q \in Request
         PROVE  \/ future'[q] = future[q] /\ resp'[q] = resp[q]
                \/ /\ request_queue[h] # << >> /\ q = request_queue[h][1]
                   /\ future[q] = "waiting" /\ future'[q] = "done"
                   /\ resp'[q] = answer
    <2>1. CASE request_queue[h] = << >>
      BY <2>1, <1>6
    <2>2. CASE request_queue[h] # << >>
      BY <2>2, <1>3, <1>7, TailFacts DEF Complete
    <2> QED BY <2>1, <2>2
  <1>11. TypeOK'
    <2>1. /\ future' \in [Request -> {"new", "waiting", "done", "gone"}]
          /\ resp' \in [Request -> Request \cup {Closed, None}]
      <3>1. CASE request_queue[h] = << >>
        BY <3>1, <1>6 DEF Inv, TypeOK
      <3>2. CASE request_queue[h] # << >>
        <4>1. /\ future \in [Request -> {"new", "waiting", "done", "gone"}]
              /\ resp \in [Request -> Request \cup {Closed, None}]
          BY DEF Inv, TypeOK
        <4>2. Complete({request_queue[h][1]}, answer)
          BY <3>2, <1>7
        <4> QED BY <4>1, <4>2 DEF Complete
      <3> QED BY <3>1, <3>2
    <2>2. \A q \in Request :
            /\ future'[q] \in {"new", "waiting"} => resp'[q] = None
            /\ future'[q] = "done" => resp'[q] # None
      <3>1. \A q \in Request :
              /\ future[q] \in {"new", "waiting"} => resp[q] = None
              /\ future[q] = "done" => resp[q] # None
        BY DEF Inv, TypeOK
      <3>2. answer # None
        OBVIOUS
      <3> QED BY <3>1, <3>2, <1>10
    <2> QED BY <2>1, <2>2, <1>2, <1>5, <1>8 DEF Inv, TypeOK
  <1>12. ASSUME NEW x \in Session PROVE SessionInv(x)'
    <2>1. SessionInv(x)
      BY DEF Inv
    <2>2. Alive(x)' <=> Alive(x)
      BY <1>2 DEF Alive
    <2> QED BY <2>1, <2>2, <1>2, <1>5 DEF SessionInv
  <1>13. ASSUME NEW q \in Request PROVE RequestInv(q)'
    <2>1. RequestInv(q)
      BY DEF Inv
    <2>2. future'[q] # "new" <=> future[q] # "new"
      BY <1>10
    <2>3. ASSUME NEW g \in Host, NEW i \in 1 .. Len(request_queue'[g]),
                 request_queue'[g][i] = q
          PROVE  future[q] # "new" /\ Uri[q].host = g
      <3>1. PICK j \in 1 .. Len(request_queue[g]) : q = request_queue[g][j]
        BY <2>3, <1>9
      <3> QED BY <3>1, <2>1 DEF RequestInv
    <2> QED BY <2>1, <2>2, <2>3, <1>2 DEF RequestInv
  (* Of a host with one scheme, s is the only session that is alive.       *)
  <1>14. ASSUME NEW g \in Host, Exclusive(g) PROVE InOrder(g)'
    <2>1. InOrder(g)
      BY <1>14 DEF Inv
    <2>2. ASSUME NEW i \in 1 .. Len(request_queue'[g])
          PROVE  /\ sess[via[request_queue'[g][i]]].state \in {"open", "shut"}
                 /\ sess[via[request_queue'[g][i]]].uri.host = g
      <3>1. PICK j \in 1 .. Len(request_queue[g]) :
              request_queue'[g][i] = request_queue[g][j]
        BY <1>9
      <3> QED BY <3>1, <2>1 DEF InOrder, Alive
    <2>3. ASSUME NEW x \in Session, Alive(x), sess[x].uri.host = g
          PROVE  /\ Len(pending'[x]) <= Len(request_queue'[g])
                 /\ sess[x].state = "open" => Len(pending'[x]) = Len(request_queue'[g])
                 /\ \A i \in 1 .. Len(pending'[x]) : request_queue'[g][i] = pending'[x][i]
      <3>0. /\ Len(pending[x]) <= Len(request_queue[g])
            /\ sess[x].state = "open" => Len(pending[x]) = Len(request_queue[g])
            /\ \A i \in 1 .. Len(pending[x]) : request_queue[g][i] = pending[x][i]
            /\ weak_session[g][sess[x].uri.scheme] = x
        BY <2>1, <2>3 DEF InOrder
      <3>1. CASE g # h
        <4>1. x # s
          BY <2>3, <3>1, <1>1
        <4> QED BY <3>0, <3>1, <4>1, <1>5, <1>8
      <3>2. CASE g = h
        <4>1. x = s
          BY <2>3, <3>2, <1>1, <1>2, <1>14, OneAlive
        <4>2. Len(pending[s]) \in Nat /\ Len(request_queue[h]) \in Nat /\ Len(pending[s]) # 0
          BY <1>2, <1>3, IndexFacts
        <4>3. request_queue[h] # << >>
          BY <3>0, <3>2, <4>1, <4>2, <1>3, IndexFacts
        <4>4. /\ Len(pending'[s]) = Len(pending[s]) - 1
              /\ Len(request_queue'[h]) = Len(request_queue[h]) - 1
              /\ \A i \in 1 .. Len(pending'[s]) : /\ i + 1 \in 1 .. Len(pending[s])
                                                  /\ pending'[s][i] = pending[s][i + 1]
              /\ \A i \in 1 .. Len(request_queue'[h]) :
                   request_queue'[h][i] = request_queue[h][i + 1]
          <5>1. pending'[s] = Tail(pending[s]) /\ request_queue'[h] = Tail(request_queue[h])
            BY <4>3, <1>5, <1>8
          <5>2. /\ Len(pending'[s]) = Len(pending[s]) - 1
                /\ \A i \in 1 .. Len(pending'[s]) : /\ i + 1 \in 1 .. Len(pending[s])
                                                    /\ pending'[s][i] = pending[s][i + 1]
            BY <5>1, <1>2, <1>3, TailFacts
          <5>3. /\ Len(request_queue'[h]) = Len(request_queue[h]) - 1
                /\ \A i \in 1 .. Len(request_queue'[h]) :
                     request_queue'[h][i] = request_queue[h][i + 1]
            BY <5>1, <4>3, <1>3, TailFacts
          <5> QED BY <5>2, <5>3
        <4>5. \A i \in 1 .. Len(pending'[s]) : i \in 1 .. Len(request_queue'[h])
          BY <3>0, <3>2, <4>1, <4>2, <4>4
        <4>6. \A i \in 1 .. Len(pending'[s]) : request_queue'[h][i] = pending'[s][i]
          BY <3>0, <3>2, <4>1, <4>4, <4>5
        <4> QED BY <3>0, <3>2, <4>1, <4>2, <4>4, <4>6
      <3> QED BY <3>1, <3>2
    <2> QED BY <2>1, <2>2, <2>3, <1>2 DEF InOrder, Alive
  (* The response is for the request at the head of the queue.             *)
  <1>15. OwnResponse'
    <2> SUFFICES ASSUME NEW q \in Request, resp'[q] # None, Exclusive(Uri[q].host)
                 PROVE  resp'[q] \in {q, Closed}
      BY DEF OwnResponse, Exclusive
    <2>1. CASE resp'[q] = resp[q]
      BY <2>1 DEF Inv, OwnResponse
    <2>2. CASE resp'[q] # resp[q]
      <3>1. /\ request_queue[h] # << >> /\ q = request_queue[h][1]
            /\ resp'[q] = answer
        BY <2>2, <1>10
      <3>2. 1 \in 1 .. Len(request_queue[h])
        BY <3>1, <1>3, TailFacts
      <3>3. Uri[q].host = h
        BY <3>1, <3>2 DEF Inv, RequestInv
      <3>4. InOrder(h)
        BY <3>3 DEF Inv
      <3>5. 1 \in 1 .. Len(pending[s])
        BY <1>2, <1>3, TailFacts
      <3>6. request_queue[h][1] = pending[s][1]
        BY <3>4, <3>5, <1>1, <1>2 DEF InOrder
      <3> QED BY <3>1, <3>6, <1>4
    <2> QED BY <2>1, <2>2
  <1>16. ZeroMeansClosed'
    <2> SUFFICES ASSUME NEW q \in Request, resp'[q] = Closed, Exclusive(Uri[q].host)
                 PROVE  sess[via[q]].state = "gone"
      BY <1>2 DEF ZeroMeansClosed, Exclusive
    <2>1. resp[q] = Closed
      BY <1>10
    <2> QED BY <2>1 DEF Inv, ZeroMeansClosed
  <1> QED BY <1>11, <1>12, <1>13, <1>14, <1>15, <1>16 DEF Inv, Exclusive

-----------------------------------------------------------------------------
(* All requests of the queue were given to the session that is closed.     *)
LEMMA CloseInv ==
  ASSUME Inv, NEW s \in Session, Close(s)
  PROVE  Inv'
  <1> USE HttpAssumption
  <1>1. PICK h \in Host : h = sess[s].uri.host
    BY DEF Close, Inv, TypeOK, Sess
  <1>2. /\ sess[s].state = "shut"
        /\ sess' = [sess EXCEPT ![s].state = "gone"]
        /\ pending' = [pending EXCEPT ![s] = << >>]
        /\ weak_session' = [weak_session EXCEPT ![h] = NoSessions]
        /\ request_queue' = [request_queue EXCEPT ![h] = << >>]
        /\ Complete(AllIn(request_queue[h]), Closed)
        /\ via' = via
    BY <1>1 DEF Close, ErasedSessions
  <1>3. /\ sess' \in [Session -> Sess]
        /\ sess'[s].state = "gone" /\ sess'[s].uri = sess[s].uri
        /\ \A x \in Session : x # s => sess'[x] = sess[x]
    <2>1. sess \in [Session -> Sess]
      BY DEF Inv, TypeOK
    <2> QED BY <2>1, <1>2 DEF Sess
  <1>4. /\ pending' \in [Session -> Seq(Request)] /\ pending'[s] = << >>
        /\ \A x \in Session : x # s => pending'[x] = pending[x]
        /\ request_queue' \in [Host -> Seq(Request)] /\ request_queue'[h] = << >>
        /\ \A g \in Host : g # h => request_queue'[g] = request_queue[g]
    BY <1>2 DEF Inv, TypeOK
  <1>5. /\ weak_session' \in [Host -> [Scheme -> Session \cup {None}]]
        /\ \A d \in Scheme : weak_session'[h][d] = None
        /\ \A g \in Host : g # h => weak_session'[g] = weak_session[g]
    BY <1>2 DEF Inv, TypeOK, NoSessions
  <1>6. /\ future' \in [Request -> {"new", "waiting", "done", "gone"}]
        /\ resp' \in [Request -> Request \cup {Closed, None}]
    BY <1>2 DEF Complete, Inv, TypeOK
  <1>7. ASSUME NEW q \in Request
        PROVE  \/ future'[q] = future[q] /\ resp'[q] = resp[q]
               \/ /\ q \in AllIn(request_queue[h]) /\ future[q] = "waiting"
                  /\ future'[q] = "done" /\ resp'[q] = Closed
    BY <1>2 DEF Complete
  <1>8. \A x \in Session : Alive(x)' => x # s /\ Alive(x)
    BY <1>3 DEF Alive
  <1>9. TypeOK'
    <2>1. ASSUME NEW g \in Host, NEW d \in Scheme, weak_session'[g][d] # None
          PROVE  /\ sess'[weak_session'[g][d]].state \in {"open", "shut"}
                 /\ sess'[weak_session'[g][d]].uri = [host |-> g, scheme |-> d]
      <3>1. g # h
        BY <2>1, <1>5
      <3>2. weak_session'[g][d] = weak_session[g][d]
        BY <3>1, <1>5
      <3>3. PICK x \in Session : /\ x = weak_session[g][d]
                                 /\ sess[x].state \in {"open", "shut"}
                                 /\ sess[x].uri = [host |-> g, scheme |-> d]
        BY <2>1, <3>2 DEF Inv, TypeOK
      <3>4. x # s
        BY <3>1, <3>3, <1>1
      <3> QED BY <3>2, <3>3, <3>4, <1>3
    <2>2. \A x \in Session : sess'[x].state # "new" => sess'[x].uri # None
      BY <1>2, <1>3 DEF Inv, TypeOK
    <2>3. \A q \in Request :
            /\ future'[q] \in {"new", "waiting"} => resp'[q] = None
            /\ future'[q] = "done" => resp'[q] # None
      BY <1>7 DEF Inv, TypeOK
    <2> QED BY <2>1, <2>2, <2>3, <1>2, <1>3, <1>4, <1>5, <1>6 DEF Inv, TypeOK
  <1>10. ASSUME NEW x \in Session PROVE SessionInv(x)'
    <2>1. SessionInv(x)
      BY DEF Inv
    <2>2. CASE x = s
      BY <2>1, <2>2, <1>2, <1>3, <1>4 DEF SessionInv
    <2>3. CASE x # s
      BY <2>1, <2>3, <1>3, <1>4 DEF SessionInv, Alive
    <2> QED BY <2>2, <2>3
  <1>11. ASSUME NEW q \in Request PROVE RequestInv(q)'
    <2>1. RequestInv(q)
      BY DEF Inv
    <2>2. future'[q] # "new" <=> future[q] # "new"
      BY <1>7
    <2>3. \A g \in Host : \A i \in 1 .. Len(request_queue'[g]) :
            i \in 1 .. Len(request_queue[g]) /\ request_queue'[g][i] = request_queue[g][i]
      <3>1. 1 .. Len(request_queue'[h]) = {}
        BY <1>4
      <3> QED BY <3>1, <1>4
    <2> QED BY <2>1, <2>2, <2>3, <1>2 DEF RequestInv
  <1>12. ASSUME NEW g \in Host, Exclusive(g) PROVE InOrder(g)'
    <2>1. InOrder(g)
      BY <1>12 DEF Inv
    <2>2. CASE g = h
      <3>1. \A x \in Session : ~(Alive(x)' /\ sess'[x].uri.host = h)
        <4> SUFFICES ASSUME NEW x \in Session, Alive(x)', sess'[x].uri.host = h
                     PROVE  FALSE
          OBVIOUS
        <4>1. x # s /\ Alive(x) /\ sess[x].uri.host = h
          BY <1>3, <1>8
        <4>2. Alive(s)
          BY <1>2 DEF Alive
        <4> QED BY <4>1, <4>2, <2>2, <1>1, <1>12, OneAlive
      <3>2. 1 .. Len(request_queue'[h]) = {}
        BY <1>4
      <3> QED BY <2>2, <3>1, <3>2 DEF InOrder
    <2>3. CASE g # h
      <3>1. ASSUME NEW x \in Session, Alive(x)', sess'[x].uri.host = g
            PROVE  /\ weak_session'[g][sess'[x].uri.scheme] = x
                   /\ Len(pending'[x]) <= Len(request_queue'[g])
                   /\ sess'[x].state = "open" => Len(pending'[x]) = Len(request_queue'[g])
                   /\ \A i \in 1 .. Len(pending'[x]) : request_queue'[g][i] = pending'[x][i]
        <4>1. /\ x # s /\ Alive(x) /\ sess'[x] = sess[x] /\ pending'[x] = pending[x]
              /\ request_queue'[g] = request_queue[g]
              /\ weak_session'[g] = weak_session[g]
          BY <2>3, <3>1, <1>3, <1>4, <1>5, <1>8
        <4> QED BY <3>1, <4>1, <2>1 DEF InOrder
      <3>2. ASSUME NEW i \in 1 .. Len(request_queue'[g])
            PROVE  /\ sess'[via'[request_queue'[g][i]]].state \in {"open", "shut"}
                   /\ sess'[via'[request_queue'[g][i]]].uri.host = g
        <4>1. i \in 1 .. Len(request_queue[g]) /\ request_queue'[g] = request_queue[g]
          BY <2>3, <3>2, <1>4
        <4>2. request_queue[g][i] \in Request
          BY <4>1, IndexFacts DEF Inv, TypeOK
        <4>3. PICK x \in Session : x = via[request_queue[g][i]]
          BY <4>1, <4>2 DEF Inv, RequestInv
        <4>4. sess[x].state \in {"open", "shut"} /\ sess[x].uri.host = g
          BY <4>1, <4>3, <2>1 DEF InOrder, Alive
        <4>5. x # s
          BY <4>4, <2>3, <1>1
        <4> QED BY <4>1, <4>3, <4>4, <4>5, <1>2, <1>3
      <3> QED BY <3>1, <3>2 DEF InOrder, Alive
    <2> QED BY <2>2, <2>3
  <1>13. OwnResponse'
    BY <1>7 DEF Inv, OwnResponse, Exclusive
  <1>14. ZeroMeansClosed'
    <2> SUFFICES ASSUME NEW q \in Request, resp'[q] = Closed, Exclusive(Uri[q].host)
                 PROVE  sess'[via[q]].state = "gone"
      BY <1>2 DEF ZeroMeansClosed, Exclusive
    <2>1. CASE resp[q] = Closed
      <3>1. sess[via[q]].state = "gone"
        BY <2>1 DEF Inv, ZeroMeansClosed
      <3>2. future[q] # "new"
        BY <2>1 DEF Inv, TypeOK
      <3>3. via[q] \in Session
        BY <3>2 DEF Inv, RequestInv
      <3> QED BY <3>1, <3>3, <1>2, <1>3
    <2>2. CASE resp[q] # Closed
      <3>1. PICK i \in 1 .. Len(request_queue[h]) : q = request_queue[h][i]
        BY <2>2, <1>7 DEF AllIn
      <3>2. Uri[q].host = h /\ via[q] \in Session
        BY <3>1 DEF Inv, RequestInv
      <3>3. InOrder(h)
        BY <3>2 DEF Inv
      <3>4. Alive(via[q]) /\ sess[via[q]].uri.host = h
        BY <3>1, <3>3 DEF InOrder
      <3>5. Alive(s)
        BY <1>2 DEF Alive
      <3>7. via[q] = s
        BY <3>2, <3>4, <3>5, <1>1, OneAlive
      <3> QED BY <3>7, <1>3
    <2> QED BY <2>1, <2>2
  <1> QED BY <1>9, <1>10, <1>11, <1>12, <1>13, <1>14 DEF Inv, Exclusive

-----------------------------------------------------------------------------
LEMMA NextInv == ASSUME Inv, [Next]_vars PROVE Inv'
  <1>1. CASE UNCHANGED vars
    BY <1>1, StutterInv
  <1>2. ASSUME NEW q \in Request, Enqueue(q) \/ Forget(q) PROVE Inv'
    BY <1>2, EnqueueInv, ForgetInv
  <1>3. ASSUME NEW s \in Session, Message(s, "1xx") \/ Message(s, "final") PROVE Inv'
    BY <1>3, InterimInv, MessageInv
  <1>4. ASSUME NEW s \in Session, Break(s) \/ Close(s) PROVE Inv'
    BY <1>4, BreakInv, CloseInv
  <1> QED BY <1>1, <1>2, <1>3, <1>4 DEF Next

(* The inductive invariant of the HTTP requestor.                          *)
THEOREM InvAlways == Spec => []Inv
  <1>1. Init => Inv
    BY InitInv
  <1>2. Inv /\ [Next]_vars => Inv'
    BY NextInv
  <1> QED BY <1>1, <1>2, PTL DEF Spec

(* Type correctness: the sessions of a record are alive, and responses are *)
(* there exactly when futures have been completed.                         *)
THEOREM TypeOKAlways == Spec => []TypeOK
  <1>1. Inv => TypeOK
    BY DEF Inv
  <1> QED BY <1>1, InvAlways, PTL

(* Where a host is asked with one scheme, no request gets the response to  *)
(* another one, for any number of requests, sessions and hosts.            *)
THEOREM OwnResponseAlways == Spec => []OwnResponse
  <1>1. Inv => OwnResponse
    BY DEF Inv
  <1> QED BY <1>1, InvAlways, PTL

(* The status code zero is never due to another connection.                *)
THEOREM ZeroMeansClosedAlways == Spec => []ZeroMeansClosed
  <1>1. Inv => ZeroMeansClosed
    BY DEF Inv
  <1> QED BY <1>1, InvAlways, PTL

=============================================================================
