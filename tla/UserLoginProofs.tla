--------------------------- MODULE UserLoginProofs ---------------------------
(***************************************************************************)
(* Theorems about UserLogin, for any agents, users and sessions: the       *)
(* agents' connections are those of sessions that still exist, none is     *)
(* dropped while its client believes to be connected, and a user that is   *)
(* banned is not let in.                                                   *)
(***************************************************************************)
EXTENDS UserLogin, TLAPS

(***************************************************************************)
(* The strengthening.  The stage of a session's fiber says whether the     *)
(* session exists, and a session is in `connections` only between the      *)
(* insertion and its close event.                                          *)
(***************************************************************************)
Stages ==
  \A s \in Session :
    /\ fib[s].pc = "idle" <=> sess[s].state \in {"new", "gone"}
    /\ sess[s].state = "gone" => fib[s].pc = "idle"
    /\ fib[s].pc # "idle" => sess[s].agent \in Agent /\ sess[s].user \in User

Publishing ==
  \A f \in Thread :
    fib[f].pc \in {"set", "kick"} => fib[f].agent \in Agent /\ fib[f].user \in User

Held ==
  \A a \in Agent, u \in User :
    LET s == connections[a][u] IN
    s # None => /\ fib[s].pc \in {"welcome", "ready"}
                /\ sess[s].agent = a /\ sess[s].user = u

(* A session that was opened under a ban gets no further than the check    *)
(* of the ban while it lasts.                                              *)
Late ==
  \A s \in late : /\ fib[s].pc \in {"prepare", "select", "ready", "closing"}
                  /\ row[sess[s].user] = "banned"

IInv == TypeOK /\ Stages /\ Publishing /\ Held /\ Late /\ BannedStaysOut

(* ShutDown changes nothing of a session but its state, from open to shut. *)
LEMMA ShutDownFact ==
  ASSUME TypeOK, NEW S, ShutDown(S)
  PROVE  /\ sess' \in [Session -> Sess]
         /\ \A s \in Session :
              /\ sess'[s].agent = sess[s].agent
              /\ sess'[s].user = sess[s].user
              /\ sess'[s].state \in {"new", "gone"} <=> sess[s].state \in {"new", "gone"}
              /\ sess'[s].state = "gone" <=> sess[s].state = "gone"
              /\ sess'[s].state = "open" => sess[s].state = "open" /\ s \notin S
<1>1. ASSUME NEW s \in Session
      PROVE  /\ sess'[s] \in Sess
             /\ sess'[s].agent = sess[s].agent
             /\ sess'[s].user = sess[s].user
             /\ sess'[s].state \in {"new", "gone"} <=> sess[s].state \in {"new", "gone"}
             /\ sess'[s].state = "gone" <=> sess[s].state = "gone"
             /\ sess'[s].state = "open" => sess[s].state = "open" /\ s \notin S
  <2>1. sess[s] \in Sess
    BY DEF TypeOK
  <2>2. CASE s \in S /\ sess[s].state = "open"
    BY <2>1, <2>2 DEF ShutDown, Sess
  <2>3. CASE ~(s \in S /\ sess[s].state = "open")
    BY <2>1, <2>3 DEF ShutDown, Sess
  <2>4. QED
    BY <2>2, <2>3
<1>2. sess' \in [Session -> Sess]
  BY <1>1 DEF ShutDown
<1>3. QED
  BY <1>1, <1>2

(* The record of a fiber that is set anew.                                 *)
LEMMA SetFact ==
  ASSUME TypeOK, NEW f \in Thread, NEW r \in FiberState, r.pc # "kick",
         fib' = [fib EXCEPT ![f] = r]
  PROVE  /\ fib' \in [Thread -> FiberState]
         /\ fib'[f] = r
         /\ \A g \in Thread \ {f} : fib'[g] = fib[g]
         /\ \A g \in Thread : fib'[g].pc = "kick" => fib'[g].old \in Agent
BY DEF TypeOK

(* The same, of a fiber that goes to a stage where it publishes nothing.   *)
LEMMA GotoFact ==
  ASSUME TypeOK, NEW f \in Thread, NEW pc \in Pcs \ {"set", "kick"},
         Goto(f, pc)
  PROVE  /\ fib' \in [Thread -> FiberState]
         /\ fib'[f].pc = pc
         /\ \A g \in Thread \ {f} : fib'[g] = fib[g]
         /\ \A g \in Thread : fib'[g].pc = "kick" => fib'[g].old \in Agent
<1> DEFINE r == [Idle EXCEPT !.pc = pc]
<1>1. r \in FiberState /\ r.pc = pc /\ r.pc # "kick"
  BY DEF Idle, FiberState, Pcs
<1>2. fib' = [fib EXCEPT ![f] = r]
  BY DEF Goto
<1> HIDE DEF r
<1>3. QED
  BY <1>1, <1>2, SetFact

LEMMA PublishFact ==
  ASSUME NEW a \in Agent, NEW u \in User
  PROVE  LET r == [Idle EXCEPT !.pc = "set", !.agent = a, !.user = u]
         IN  r \in FiberState /\ r.pc = "set" /\ r.agent = a /\ r.user = u
BY DEF Idle, FiberState, Pcs

LEMMA ThreadFact ==
  /\ \A s \in Session : s \in Thread /\ s \notin Agent /\ s # None
  /\ \A a \in Agent : a \in Thread /\ a \notin Session /\ a # None
  /\ \A f \in Thread : f \in Session \/ f \in Agent
BY LoginAssumption DEF Thread

(* What concerns bans is kept by a step that leaves the bans alone, moves  *)
(* no session that is late past the check, and lets none of these in.      *)
LEMMA Stay ==
  ASSUME TypeOK, Late, BannedStaysOut, UNCHANGED database,
         \A s \in late :
           /\ fib'[s].pc \in {fib[s].pc, "select", "ready", "closing"}
           /\ sess'[s].user = sess[s].user,
         \A a \in Agent, u \in User :
           connections'[a][u] \in {connections[a][u], None} \/ connections'[a][u] \notin late
  PROVE  Late' /\ BannedStaysOut'
<1>1. late' = late /\ row' = row /\ None \notin late
  BY LoginAssumption DEF database, TypeOK
<1>2. Late'
  BY <1>1 DEF Late
<1>3. BannedStaysOut'
  BY <1>1 DEF BannedStaysOut
<1>4. QED
  BY <1>2, <1>3

(* The strengthened invariant holds initially, and every step preserves it. *)
LEMMA InitIInv ==
  ASSUME Init PROVE IInv
<1>1. TypeOK
  BY LoginAssumption DEF Init, TypeOK, Idle, FiberState, Pcs, Sess
<1>2. Stages
  BY ThreadFact DEF Init, Stages, Idle
<1>3. Publishing
  BY DEF Init, Publishing, Idle
<1>4. Held
  BY DEF Init, Held
<1>5. Late /\ BannedStaysOut
  BY DEF Init, Late, BannedStaysOut
<1>6. QED
  BY <1>1, <1>2, <1>3, <1>4, <1>5 DEF IInv

LEMMA StepIInv ==
  ASSUME IInv, [Next]_vars PROVE IInv'
<1> USE ThreadFact
<1>t. TypeOK /\ Stages /\ Publishing /\ Held /\ Late /\ BannedStaysOut
  BY DEF IInv
<1> USE <1>t DEF database
<1>s. \A s \in Session : sess[s] \in Sess /\ s \in Thread
  BY DEF TypeOK
<1>c. \A a \in Agent, u \in User : connections[a][u] \in Session \cup {None}
  BY DEF TypeOK
<1>u. /\ sess' = sess => sess' \in [Session -> Sess]
      /\ connections' = connections => connections' \in [Agent -> [User -> Session \cup {None}]]
      /\ users' = users => users' \in [Agent -> SUBSET User]
      /\ todo' = todo => todo' \in [Agent -> SUBSET User]
      /\ redis' = redis => redis' \in [User -> Agent \cup {None}]
      /\ row' = row => row' \in [User -> {"none", "free", "banned"}]
      /\ ban' = ban => ban' \in [BanAgent -> User \cup {None}]
      /\ late' = late => late' \in SUBSET Session
      /\ faults' = faults => faults' \in Nat
  BY DEF TypeOK
<1>1. CASE UNCHANGED vars
  BY <1>1 DEF IInv, TypeOK, Stages, Publishing, Held, Late, BannedStaysOut, vars
<1>2. ASSUME NEW s \in Session, NEW a \in Agent, NEW u \in User, Open(s, a, u)
      PROVE  IInv'
  <2>1. fib[s].pc = "idle" /\ "prepare" \in Pcs
    BY <1>2 DEF Open, Stages, Pcs
  <2>2. /\ fib' \in [Thread -> FiberState]
        /\ fib'[s].pc = "prepare"
        /\ \A g \in Thread \ {s} : fib'[g] = fib[g]
        /\ \A g \in Thread : fib'[g].pc = "kick" => fib'[g].old \in Agent
    BY <1>2, <2>1, GotoFact DEF Open
  <2>3. /\ sess' \in [Session -> Sess]
        /\ sess'[s] = [agent |-> a, user |-> u, state |-> "open"]
        /\ \A t \in Session \ {s} : sess'[t] = sess[t]
    BY <1>2, <1>s DEF Open, TypeOK, Sess
  <2>4. TypeOK'
    <3>1. late' \in SUBSET Session
      BY <1>2 DEF Open, TypeOK
    <3>2. QED
      BY <1>2, <1>u, <2>2, <2>3, <3>1 DEF Open, TypeOK
  <2>5. Stages'
    BY <2>2, <2>3 DEF Stages
  <2>6. Publishing'
    BY <2>2 DEF Publishing
  <2>7. Held'
    BY <1>2, <1>c, <2>1, <2>2, <2>3 DEF Open, Held
  <2>8. Late' /\ BannedStaysOut'
    <3>1. /\ late' \subseteq late \cup {s} /\ row' = row /\ connections' = connections
          /\ s \in late' => s \in late \/ row[u] = "banned"
      BY <1>2 DEF Open
    <3>2. s \notin late
      BY <2>1 DEF Late
    <3>3. Late'
      BY <2>2, <2>3, <3>1, <3>2 DEF Late, TypeOK
    <3>4. \A b \in Agent, v \in User : connections[b][v] # s
      BY <2>1 DEF Held
    <3>5. BannedStaysOut'
      BY <3>1, <3>4 DEF BannedStaysOut
    <3>6. QED
      BY <3>3, <3>5
  <2>9. QED
    BY <2>4, <2>5, <2>6, <2>7, <2>8 DEF IInv
<1>3. ASSUME NEW s \in Session, Refused(s) PROVE IInv'
  <2>1. fib[s].pc \in {"prepare", "select"} /\ "ready" \in Pcs
    BY <1>3 DEF Refused, Pcs
  <2>2. /\ fib' \in [Thread -> FiberState]
        /\ fib'[s].pc = "ready"
        /\ \A g \in Thread \ {s} : fib'[g] = fib[g]
        /\ \A g \in Thread : fib'[g].pc = "kick" => fib'[g].old \in Agent
    BY <1>3, <2>1, GotoFact DEF Refused
  <2>3. /\ sess' \in [Session -> Sess]
        /\ \A t \in Session :
              /\ sess'[t].agent = sess[t].agent /\ sess'[t].user = sess[t].user
              /\ sess'[t].state \in {"new", "gone"} <=> sess[t].state \in {"new", "gone"}
              /\ sess'[t].state = "gone" <=> sess[t].state = "gone"
    BY <1>3, ShutDownFact DEF Refused
  <2>4. TypeOK'
    BY <1>3, <1>u, <2>2, <2>3 DEF Refused, TypeOK
  <2>5. Stages'
    BY <2>1, <2>2, <2>3 DEF Stages
  <2>6. Publishing'
    BY <2>2 DEF Publishing
  <2>7. Held'
    BY <1>3, <1>c, <2>1, <2>2, <2>3 DEF Refused, Held
  <2>8. Late' /\ BannedStaysOut'
    BY <1>3, <1>c, <2>1, <2>2, <2>3, Stay DEF Refused, Late, TypeOK
  <2>9. QED
    BY <2>4, <2>5, <2>6, <2>7, <2>8 DEF IInv
<1>4. ASSUME NEW s \in Session, RowInserted(s) PROVE IInv'
  <2> DEFINE u == sess[s].user
  <2>1. fib[s].pc = "prepare" /\ "select" \in Pcs /\ u \in User
    BY <1>4 DEF RowInserted, Stages, Pcs
  <2>2. /\ fib' \in [Thread -> FiberState]
        /\ fib'[s].pc = "select"
        /\ \A g \in Thread \ {s} : fib'[g] = fib[g]
        /\ \A g \in Thread : fib'[g].pc = "kick" => fib'[g].old \in Agent
    BY <1>4, <2>1, GotoFact DEF RowInserted
  <2>3. /\ row' = [row EXCEPT ![u] = Upsert(row[u])]
        /\ UNCHANGED <<users, connections, sess, todo, redis, faults, ban, late>>
    BY <1>4 DEF RowInserted
  <2> HIDE DEF u
  <2>4. /\ row' \in [User -> {"none", "free", "banned"}]
        /\ \A v \in User : row[v] = "banned" => row'[v] = "banned"
    BY <2>1, <2>3 DEF TypeOK, Upsert
  <2>5. TypeOK'
    BY <1>u, <2>2, <2>3, <2>4 DEF TypeOK
  <2>6. Stages'
    BY <2>1, <2>2, <2>3 DEF Stages
  <2>7. Publishing'
    BY <2>2 DEF Publishing
  <2>8. Held'
    BY <1>c, <2>1, <2>2, <2>3 DEF Held
  <2>9. Late' /\ BannedStaysOut'
    BY <2>1, <2>2, <2>3, <2>4 DEF Late, BannedStaysOut, Stages, TypeOK
  <2>10. QED
    BY <2>5, <2>6, <2>7, <2>8, <2>9 DEF IInv
<1>5. ASSUME NEW s \in Session, Connect(s) PROVE IInv'
  <2> DEFINE a == sess[s].agent
             u == sess[s].user
  <2>1. /\ fib[s].pc = "insert" /\ a \in Agent /\ u \in User
        /\ "welcome" \in Pcs
    BY <1>5 DEF Connect, Stages, Pcs
  <2>2. /\ fib' \in [Thread -> FiberState]
        /\ fib'[s].pc = "welcome"
        /\ \A g \in Thread \ {s} : fib'[g] = fib[g]
        /\ \A g \in Thread : fib'[g].pc = "kick" => fib'[g].old \in Agent
    BY <1>5, <2>1, GotoFact DEF Connect
  <2>3. /\ sess' \in [Session -> Sess]
        /\ \A t \in Session :
              /\ sess'[t].agent = sess[t].agent /\ sess'[t].user = sess[t].user
              /\ sess'[t].state \in {"new", "gone"} <=> sess[t].state \in {"new", "gone"}
              /\ sess'[t].state = "gone" <=> sess[t].state = "gone"
    BY <1>5, ShutDownFact DEF Connect
  <2>4. /\ users' = [users EXCEPT ![a] = @ \cup {u}]
        /\ connections' = [connections EXCEPT ![a][u] = s]
        /\ UNCHANGED <<todo, redis, faults, database>>
    BY <1>5 DEF Connect
  <2> HIDE DEF a, u
  <2>5. users' \in [Agent -> SUBSET User]
    BY <2>1, <2>4 DEF TypeOK
  <2>6. /\ connections' \in [Agent -> [User -> Session \cup {None}]]
        /\ connections'[a][u] = s
        /\ \A b \in Agent, v \in User :
              b # a \/ v # u => connections'[b][v] = connections[b][v]
    BY <2>1, <2>4 DEF TypeOK
  <2>7. TypeOK'
    BY <1>u, <2>2, <2>3, <2>4, <2>5, <2>6 DEF TypeOK
  <2>8. Stages'
    BY <2>1, <2>2, <2>3 DEF Stages
  <2>9. Publishing'
    BY <2>2 DEF Publishing
  <2>10. Held'
    <3>1. sess[s].agent = a /\ sess[s].user = u
      BY DEF a, u
    <3>2. ASSUME NEW b \in Agent, NEW v \in User, connections'[b][v] # None
          PROVE  /\ fib'[connections'[b][v]].pc \in {"welcome", "ready"}
                 /\ sess'[connections'[b][v]].agent = b
                 /\ sess'[connections'[b][v]].user = v
      <4>1. CASE b = a /\ v = u
        BY <2>2, <2>3, <2>6, <3>1, <4>1
      <4>2. CASE b # a \/ v # u
        BY <1>c, <2>1, <2>2, <2>3, <2>6, <3>2, <4>2 DEF Held
      <4>3. QED
        BY <4>1, <4>2
    <3>3. QED
      BY <3>2 DEF Held
  <2>11. Late' /\ BannedStaysOut'
    <3>1. s \notin late
      BY <2>1 DEF Late
    <3>2. /\ late' = late
          /\ \A t \in late : fib'[t].pc = fib[t].pc /\ sess'[t].user = sess[t].user
      BY <2>2, <2>3, <2>4, <3>1 DEF TypeOK
    <3>3. \A b \in Agent, v \in User :
            connections'[b][v] = connections[b][v] \/ connections'[b][v] \notin late
      BY <2>6, <3>1
    <3>4. QED
      BY <2>4, <3>2, <3>3, Stay
  <2>12. QED
    BY <2>7, <2>8, <2>9, <2>10, <2>11 DEF IInv
<1>6. ASSUME NEW s \in Session, Welcomed(s) PROVE IInv'
  <2>1. fib[s].pc = "welcome" /\ "ready" \in Pcs
    BY <1>6 DEF Welcomed, Pcs
  <2>2. /\ fib' \in [Thread -> FiberState]
        /\ fib'[s].pc = "ready"
        /\ \A g \in Thread \ {s} : fib'[g] = fib[g]
        /\ \A g \in Thread : fib'[g].pc = "kick" => fib'[g].old \in Agent
    BY <1>6, <2>1, GotoFact DEF Welcomed
  <2>3. /\ sess' \in [Session -> Sess]
        /\ \A t \in Session :
              /\ sess'[t].agent = sess[t].agent /\ sess'[t].user = sess[t].user
              /\ sess'[t].state \in {"new", "gone"} <=> sess[t].state \in {"new", "gone"}
              /\ sess'[t].state = "gone" <=> sess[t].state = "gone"
    BY <1>6, ShutDownFact DEF Welcomed
  <2>4. TypeOK'
    BY <1>6, <1>u, <2>2, <2>3 DEF Welcomed, TypeOK
  <2>5. Stages'
    BY <2>1, <2>2, <2>3 DEF Stages
  <2>6. Publishing'
    BY <2>2 DEF Publishing
  <2>7. Held'
    BY <1>6, <1>c, <2>2, <2>3 DEF Welcomed, Held
  <2>8. Late' /\ BannedStaysOut'
    BY <1>6, <1>c, <2>2, <2>3, Stay DEF Welcomed, Late, TypeOK
  <2>9. QED
    BY <2>4, <2>5, <2>6, <2>7, <2>8 DEF IInv
<1>7. ASSUME NEW s \in Session, ClientCloses(s) PROVE IInv'
  <2>1. fib' = fib /\ fib' \in [Thread -> FiberState]
    BY <1>7 DEF ClientCloses, TypeOK
  <2>2. \A f \in Thread : fib'[f].pc = "kick" => fib'[f].old \in Agent
    BY <2>1 DEF TypeOK
  <2>3. /\ sess' \in [Session -> Sess]
        /\ \A t \in Session :
              /\ sess'[t].agent = sess[t].agent /\ sess'[t].user = sess[t].user
              /\ sess'[t].state \in {"new", "gone"} <=> sess[t].state \in {"new", "gone"}
              /\ sess'[t].state = "gone" <=> sess[t].state = "gone"
    BY <1>7, ShutDownFact DEF ClientCloses
  <2>4. TypeOK'
    BY <1>7, <1>u, <2>1, <2>2, <2>3 DEF ClientCloses, TypeOK
  <2>5. Stages'
    BY <2>1, <2>3 DEF Stages
  <2>6. Publishing'
    BY <2>1 DEF Publishing
  <2>7. Held'
    BY <1>7, <1>c, <2>1, <2>3 DEF ClientCloses, Held
  <2>8. Late' /\ BannedStaysOut'
    BY <1>7, <1>c, <2>1, <2>3, Stay DEF ClientCloses, Late, TypeOK
  <2>9. QED
    BY <2>4, <2>5, <2>6, <2>7, <2>8 DEF IInv
<1>8. ASSUME NEW s \in Session, Close(s) PROVE IInv'
  <2> DEFINE a == sess[s].agent
             u == sess[s].user
  <2>1. /\ fib[s].pc = "ready" /\ sess' = sess /\ "closing" \in Pcs
        /\ a \in Agent /\ u \in User
    BY <1>8 DEF Close, Stages, Pcs
  <2>2. /\ fib' \in [Thread -> FiberState]
        /\ fib'[s].pc = "closing"
        /\ \A g \in Thread \ {s} : fib'[g] = fib[g]
        /\ \A g \in Thread : fib'[g].pc = "kick" => fib'[g].old \in Agent
    BY <1>8, <2>1, GotoFact DEF Close
  <2>3. /\ connections' \in [Agent -> [User -> Session \cup {None}]]
        /\ \A b \in Agent, v \in User :
              /\ connections'[b][v] \in {connections[b][v], None}
              /\ b = a /\ v = u => connections'[b][v] # s
    <3>1. CASE IsMine(s)
      <4>1. connections' = [connections EXCEPT ![a][u] = None]
        BY <1>8, <3>1 DEF Close
      <4> HIDE DEF a, u
      <4>2. QED
        BY <2>1, <4>1 DEF TypeOK
    <3>2. CASE ~IsMine(s)
      BY <1>8, <1>u, <3>2 DEF Close, IsMine
    <3>3. QED
      BY <3>1, <3>2
  <2>4. TypeOK'
    BY <1>8, <1>u, <2>1, <2>2, <2>3 DEF Close, TypeOK
  <2>5. Stages'
    BY <2>1, <2>2 DEF Stages
  <2>6. Publishing'
    BY <2>2 DEF Publishing
  <2>7. Held'
    <3> SUFFICES ASSUME NEW b \in Agent, NEW v \in User, connections'[b][v] # None
                 PROVE  /\ fib'[connections'[b][v]].pc \in {"welcome", "ready"}
                        /\ sess'[connections'[b][v]].agent = b
                        /\ sess'[connections'[b][v]].user = v
      BY DEF Held
    <3>1. /\ connections'[b][v] = connections[b][v]
          /\ connections[b][v] \in Session
      BY <1>c, <2>3
    <3>2. /\ fib[connections[b][v]].pc \in {"welcome", "ready"}
          /\ sess[connections[b][v]].agent = b /\ sess[connections[b][v]].user = v
      BY <3>1 DEF Held
    <3>3. connections[b][v] # s
      BY <2>3, <3>1, <3>2
    <3>4. QED
      BY <2>1, <2>2, <3>1, <3>2, <3>3
  <2>8. Late' /\ BannedStaysOut'
    BY <1>8, <1>c, <2>1, <2>2, <2>3, <2>4, <2>6, Stay DEF Close, Late, TypeOK
  <2>9. QED
    BY <2>4, <2>5, <2>6, <2>7, <2>8 DEF IInv
<1>9. ASSUME NEW s \in Session, Closed(s) PROVE IInv'
  <2>1. fib[s].pc = "closing" /\ Goto(s, "idle")
    BY <1>9 DEF Closed
  <2>2. /\ fib' \in [Thread -> FiberState] /\ fib'[s].pc = "idle"
        /\ \A g \in Thread \ {s} : fib'[g] = fib[g]
        /\ \A g \in Thread : fib'[g].pc = "kick" => fib'[g].old \in Agent
    <3>1. "idle" \in Pcs \ {"set", "kick"}
      BY DEF Pcs
    <3>2. QED
      BY <2>1, <3>1, GotoFact
  <2>3. /\ sess' \in [Session -> Sess] /\ sess'[s].state = "gone"
        /\ \A t \in Session \ {s} : sess'[t] = sess[t]
    <3>1. /\ sess[s] \in Sess /\ sess \in [Session -> Sess]
          /\ sess' = [sess EXCEPT ![s] = [sess[s] EXCEPT !.state = "gone"]]
      BY <1>9 DEF Closed, TypeOK
    <3>2. [sess[s] EXCEPT !.state = "gone"] \in Sess
      BY <3>1 DEF Sess
    <3>3. QED
      BY <3>1, <3>2 DEF Sess
  <2>4. TypeOK'
    <3>1. late' \in SUBSET Session
      BY <1>9 DEF Closed, TypeOK
    <3>2. QED
      BY <1>9, <1>u, <2>2, <2>3, <3>1 DEF Closed, TypeOK
  <2>5. Stages'
    BY <2>2, <2>3 DEF Stages
  <2>6. Publishing'
    BY <2>2 DEF Publishing
  <2>7. Held'
    BY <1>9, <1>c, <2>1, <2>2, <2>3 DEF Closed, Held
  <2>8. Late' /\ BannedStaysOut'
    <3>1. late' = late \ {s} /\ row' = row /\ connections' = connections
      BY <1>9 DEF Closed
    <3>2. Late'
      BY <2>2, <2>3, <3>1 DEF Late, TypeOK
    <3>3. BannedStaysOut'
      BY <3>1 DEF BannedStaysOut
    <3>4. QED
      BY <3>2, <3>3
  <2>9. QED
    BY <2>4, <2>5, <2>6, <2>7, <2>8 DEF IInv
<1>10. ASSUME NEW s \in Session, Selected(s) PROVE IInv'
  <2> DEFINE r == [Idle EXCEPT !.pc = "set", !.agent = sess[s].agent,
                               !.user = sess[s].user]
  <2>1. /\ fib[s].pc = "select" /\ sess[s].agent \in Agent
        /\ sess[s].user \in User /\ "ready" \in Pcs
        /\ UNCHANGED <<users, connections, todo, redis, faults, database>>
    BY <1>10 DEF Selected, Stages, Pcs
  <2>2. CASE row[sess[s].user] = "banned"
    <3>1. ShutDown({s}) /\ Goto(s, "ready")
      BY <1>10, <2>2 DEF Selected
    <3>2. /\ fib' \in [Thread -> FiberState]
          /\ fib'[s].pc = "ready"
          /\ \A g \in Thread \ {s} : fib'[g] = fib[g]
          /\ \A g \in Thread : fib'[g].pc = "kick" => fib'[g].old \in Agent
      BY <2>1, <3>1, GotoFact
    <3>3. /\ sess' \in [Session -> Sess]
          /\ \A t \in Session :
                /\ sess'[t].agent = sess[t].agent /\ sess'[t].user = sess[t].user
                /\ sess'[t].state \in {"new", "gone"} <=> sess[t].state \in {"new", "gone"}
                /\ sess'[t].state = "gone" <=> sess[t].state = "gone"
      BY <3>1, ShutDownFact
    <3>4. TypeOK'
      BY <1>u, <2>1, <3>2, <3>3 DEF TypeOK
    <3>5. Stages'
      BY <2>1, <3>2, <3>3 DEF Stages
    <3>6. Publishing'
      BY <3>2 DEF Publishing
    <3>7. Held'
      BY <1>c, <2>1, <3>2, <3>3 DEF Held
    <3>8. Late' /\ BannedStaysOut'
      BY <1>c, <2>1, <3>2, <3>3, Stay DEF TypeOK
    <3>9. QED
      BY <3>4, <3>5, <3>6, <3>7, <3>8 DEF IInv
  <2>3. CASE row[sess[s].user] # "banned"
    <3>1. sess' = sess /\ fib' = [fib EXCEPT ![s] = r] /\ s \notin late
      BY <1>10, <2>3 DEF Selected, Publish, Late
    <3>2. r \in FiberState /\ r.pc = "set" /\ r.agent \in Agent /\ r.user \in User
      BY <2>1 DEF Idle, FiberState, Pcs
    <3> HIDE DEF r
    <3>3. /\ fib' \in [Thread -> FiberState] /\ fib'[s] = r
          /\ \A g \in Thread \ {s} : fib'[g] = fib[g]
          /\ \A g \in Thread : fib'[g].pc = "kick" => fib'[g].old \in Agent
      BY <3>1, <3>2, SetFact
    <3>4. TypeOK'
      BY <1>u, <2>1, <3>1, <3>3 DEF TypeOK
    <3>5. Stages'
      BY <2>1, <3>1, <3>2, <3>3 DEF Stages
    <3>6. Publishing'
      BY <3>2, <3>3 DEF Publishing
    <3>7. Held'
      BY <1>c, <2>1, <3>1, <3>3 DEF Held
    <3>8. Late' /\ BannedStaysOut'
      BY <1>c, <2>1, <3>1, <3>3, Stay DEF TypeOK
    <3>9. QED
      BY <3>4, <3>5, <3>6, <3>7, <3>8 DEF IInv
  <2>4. QED
    BY <2>2, <2>3
<1>11. ASSUME NEW f \in Thread, Published(f) PROVE IInv'
  <2> DEFINE old == redis[fib[f].user]
  <2>1. /\ fib[f].pc = "set" /\ fib[f].agent \in Agent /\ fib[f].user \in User
        /\ fib[f] \in FiberState /\ fib \in [Thread -> FiberState]
        /\ UNCHANGED <<users, connections, sess, todo, faults, database>>
    BY <1>11 DEF Published, Publishing, TypeOK
  <2>2. redis' = [redis EXCEPT ![fib[f].user] = fib[f].agent]
    BY <1>11 DEF Published
  <2>3. redis' \in [User -> Agent \cup {None}] /\ old \in Agent \cup {None}
    BY <2>1, <2>2 DEF TypeOK
  <2>4. /\ fib' \in [Thread -> FiberState]
        /\ fib'[f].pc \in {"kick", "insert"}
        /\ fib'[f].pc = "kick" => fib'[f].agent \in Agent /\ fib'[f].user \in User
        /\ \A g \in Thread \ {f} : fib'[g] = fib[g]
        /\ \A g \in Thread : fib'[g].pc = "kick" => fib'[g].old \in Agent
    <3>1. CASE IsElsewhere(old, fib[f].agent)
      <4> DEFINE r == [fib[f] EXCEPT !.pc = "kick", !.old = old]
      <4>1. fib' = [fib EXCEPT ![f] = r] /\ old \in Agent
        BY <1>11, <2>1, <2>3, <3>1 DEF Published, IsElsewhere
      <4>2. /\ r \in FiberState /\ r.pc = "kick" /\ r.old \in Agent
            /\ r.agent \in Agent /\ r.user \in User
        BY <2>1, <4>1 DEF FiberState, Pcs
      <4> HIDE DEF r
      <4>3. /\ fib' \in [Thread -> FiberState] /\ fib'[f] = r
            /\ \A g \in Thread \ {f} : fib'[g] = fib[g]
        BY <2>1, <4>1, <4>2
      <4>4. QED
        BY <4>2, <4>3 DEF TypeOK
    <3>2. CASE ~IsElsewhere(old, fib[f].agent)
      <4>1. Goto(f, "insert") /\ "insert" \in Pcs \ {"set", "kick"}
        BY <1>11, <3>2 DEF Published, Pcs
      <4>2. QED
        BY <4>1, GotoFact
    <3>3. QED
      BY <3>1, <3>2
  <2> HIDE DEF old
  <2>7. TypeOK'
    BY <1>u, <2>1, <2>3, <2>4 DEF TypeOK
  <2>8. Stages'
    BY <2>1, <2>4 DEF Stages
  <2>9. Publishing'
    BY <2>1, <2>4 DEF Publishing
  <2>10. Held'
    BY <1>c, <2>1, <2>4 DEF Held
  <2>11. Late' /\ BannedStaysOut'
    BY <1>c, <2>1, <2>4, Stay DEF Late, TypeOK
  <2>12. QED
    BY <2>7, <2>8, <2>9, <2>10, <2>11 DEF IInv
<1>12. ASSUME NEW f \in Thread, Kick(f) PROVE IInv'
  <2>1. fib[f].pc = "kick" /\ "insert" \in Pcs
    BY <1>12 DEF Kick, Pcs
  <2>2. /\ fib' \in [Thread -> FiberState]
        /\ fib'[f].pc = "insert"
        /\ \A g \in Thread \ {f} : fib'[g] = fib[g]
        /\ \A g \in Thread : fib'[g].pc = "kick" => fib'[g].old \in Agent
    BY <1>12, <2>1, GotoFact DEF Kick
  <2>3. /\ sess' \in [Session -> Sess]
        /\ \A t \in Session :
              /\ sess'[t].agent = sess[t].agent /\ sess'[t].user = sess[t].user
              /\ sess'[t].state \in {"new", "gone"} <=> sess[t].state \in {"new", "gone"}
              /\ sess'[t].state = "gone" <=> sess[t].state = "gone"
    BY <1>12, ShutDownFact DEF Kick
  <2>4. TypeOK'
    BY <1>12, <1>u, <2>2, <2>3 DEF Kick, TypeOK
  <2>5. Stages'
    BY <1>12, <2>1, <2>2, <2>3 DEF Kick, Stages
  <2>6. Publishing'
    BY <1>12, <2>1, <2>2, <2>3 DEF Kick, Publishing
  <2>7. Held'
    BY <1>12, <1>c, <2>1, <2>2, <2>3 DEF Kick, Held
  <2>8. Late' /\ BannedStaysOut'
    BY <1>12, <1>c, <2>1, <2>2, <2>3, Stay DEF Kick, Late, TypeOK
  <2>9. QED
    BY <2>4, <2>5, <2>6, <2>7, <2>8 DEF IInv
<1>13. ASSUME NEW a \in Agent, PingTimer(a) PROVE IInv'
  <2>1. PICK silent \in SUBSET {u \in User : Locked(connections[a][u]) # {}} :
          LET expired == silent \cup {u \in User : NoSession(a, u)} IN
          /\ ShutDown({connections[a][u] : u \in silent})
          /\ users' = [users EXCEPT ![a] = @ \ expired]
          /\ connections' = [connections EXCEPT ![a] =
                               [u \in User |-> IF u \in expired THEN None ELSE @[u]]]
          /\ UNCHANGED <<fib, todo, redis, faults, database>>
    BY <1>13 DEF PingTimer
  <2> DEFINE expired == silent \cup {u \in User : NoSession(a, u)}
             kept == [u \in User |-> IF u \in expired THEN None ELSE connections[a][u]]
  <2>2. /\ connections' = [connections EXCEPT ![a] = kept]
        /\ users' = [users EXCEPT ![a] = users[a] \ expired]
    BY <2>1
  <2>3. kept \in [User -> Session \cup {None}]
        /\ \A u \in User : kept[u] \in {connections[a][u], None}
    BY <1>c
  <2> HIDE DEF kept, expired
  <2>4. /\ connections' \in [Agent -> [User -> Session \cup {None}]]
        /\ \A b \in Agent, v \in User :
              connections'[b][v] \in {connections[b][v], None}
    BY <2>2, <2>3 DEF TypeOK
  <2>5. users' \in [Agent -> SUBSET User]
    BY <2>2 DEF TypeOK
  <2>6. /\ sess' \in [Session -> Sess]
        /\ \A t \in Session :
              /\ sess'[t].agent = sess[t].agent /\ sess'[t].user = sess[t].user
              /\ sess'[t].state \in {"new", "gone"} <=> sess[t].state \in {"new", "gone"}
              /\ sess'[t].state = "gone" <=> sess[t].state = "gone"
    BY <2>1, ShutDownFact
  <2>7. TypeOK'
    BY <1>u, <2>1, <2>4, <2>5, <2>6 DEF TypeOK
  <2>8. Stages'
    BY <2>1, <2>6 DEF Stages
  <2>9. Publishing'
    BY <2>1 DEF Publishing
  <2>10. Held'
    BY <1>c, <2>1, <2>4, <2>6 DEF Held
  <2>11. Late' /\ BannedStaysOut'
    BY <1>c, <2>1, <2>4, <2>6, Stay DEF TypeOK
  <2>12. QED
    BY <2>7, <2>8, <2>9, <2>10, <2>11 DEF IInv
<1>14. ASSUME NEW a \in Agent, CheckStart(a) PROVE IInv'
  <2>1. "ready" \in Pcs
    BY DEF Pcs
  <2>2. /\ fib' \in [Thread -> FiberState]
        /\ fib'[a].pc = "ready"
        /\ \A g \in Thread \ {a} : fib'[g] = fib[g]
        /\ \A g \in Thread : fib'[g].pc = "kick" => fib'[g].old \in Agent
    BY <1>14, <2>1, GotoFact DEF CheckStart
  <2>3. todo' \in [Agent -> SUBSET User]
    BY <1>14 DEF CheckStart, TypeOK
  <2>4. TypeOK'
    BY <1>14, <1>u, <2>2, <2>3 DEF CheckStart, TypeOK
  <2>5. Stages'
    BY <1>14, <2>1, <2>2, <2>3 DEF CheckStart, Stages
  <2>6. Publishing'
    BY <1>14, <2>1, <2>2, <2>3 DEF CheckStart, Publishing
  <2>7. Held'
    BY <1>14, <1>c, <2>1, <2>2, <2>3 DEF CheckStart, Held
  <2>8. Late' /\ BannedStaysOut'
    BY <1>14, <1>c, <2>1, <2>2, <2>3, Stay DEF CheckStart, Late, TypeOK
  <2>9. QED
    BY <2>4, <2>5, <2>6, <2>7, <2>8 DEF IInv
<1>15. ASSUME NEW a \in Agent, NEW u \in User, CheckUser(a, u) PROVE IInv'
  <2>1. todo' \in [Agent -> SUBSET User]
    BY <1>15 DEF CheckUser, TypeOK
  <2> DEFINE r == [Idle EXCEPT !.pc = "set", !.agent = a, !.user = u]
  <2>2. r \in FiberState /\ r.pc = "set" /\ r.agent = a /\ r.user = u
    BY PublishFact
  <2>3. fib' = fib \/ fib' = [fib EXCEPT ![a] = r]
    BY <1>15 DEF CheckUser, Publish
  <2> HIDE DEF r
  <2>4. /\ fib' \in [Thread -> FiberState]
        /\ fib'[a] = fib[a] \/ fib'[a] = r
        /\ \A g \in Thread \ {a} : fib'[g] = fib[g]
        /\ \A g \in Thread : fib'[g].pc = "kick" => fib'[g].old \in Agent
    <3>1. CASE fib' = fib
      BY <3>1 DEF TypeOK
    <3>2. CASE fib' = [fib EXCEPT ![a] = r]
      BY <2>2, <3>2, SetFact
    <3>3. QED
      BY <2>3, <3>1, <3>2
  <2>5. TypeOK'
    BY <1>15, <1>u, <2>1, <2>4 DEF CheckUser, TypeOK
  <2>6. Stages'
    BY <1>15, <2>4 DEF CheckUser, Stages
  <2>7. Publishing'
    <3> SUFFICES ASSUME NEW f \in Thread, fib'[f].pc \in {"set", "kick"}
                 PROVE  fib'[f].agent \in Agent /\ fib'[f].user \in User
      BY DEF Publishing
    <3>1. CASE fib'[f] = fib[f]
      BY <3>1 DEF Publishing
    <3>2. CASE f = a /\ fib'[f] = r
      BY <2>2, <3>2
    <3>3. QED
      BY <2>4, <3>1, <3>2
  <2>8. Held'
    BY <1>15, <1>c, <2>4 DEF CheckUser, Held
  <2>9. Late' /\ BannedStaysOut'
    BY <1>15, <1>c, <2>4, Stay DEF CheckUser, Late, TypeOK
  <2>10. QED
    BY <2>5, <2>6, <2>7, <2>8, <2>9 DEF IInv
<1>16. ASSUME NEW a \in Agent, CheckNext(a) PROVE IInv'
  <2>1. Goto(a, "ready") /\ "ready" \in Pcs \ {"set", "kick"}
    BY <1>16 DEF CheckNext, Pcs
  <2>2. /\ fib' \in [Thread -> FiberState] /\ fib'[a].pc = "ready"
        /\ \A g \in Thread \ {a} : fib'[g] = fib[g]
        /\ \A g \in Thread : fib'[g].pc = "kick" => fib'[g].old \in Agent
    BY <2>1, GotoFact
  <2>4. TypeOK'
    BY <1>16, <1>u, <2>2 DEF CheckNext, TypeOK
  <2>5. Stages'
    BY <1>16, <2>2 DEF CheckNext, Stages
  <2>6. Publishing'
    BY <1>16, <2>2 DEF CheckNext, Publishing
  <2>7. Held'
    BY <1>16, <1>c, <2>2 DEF CheckNext, Held
  <2>8. Late' /\ BannedStaysOut'
    BY <1>16, <1>c, <2>2, Stay DEF CheckNext, Late, TypeOK
  <2>9. QED
    BY <2>4, <2>5, <2>6, <2>7, <2>8 DEF IInv
<1>17. ASSUME NEW a \in Agent, CheckEnd(a) PROVE IInv'
  <2>1. Goto(a, "idle") /\ "idle" \in Pcs \ {"set", "kick"}
    BY <1>17 DEF CheckEnd, Pcs
  <2>2. /\ fib' \in [Thread -> FiberState] /\ fib'[a].pc = "idle"
        /\ \A g \in Thread \ {a} : fib'[g] = fib[g]
        /\ \A g \in Thread : fib'[g].pc = "kick" => fib'[g].old \in Agent
    BY <2>1, GotoFact
  <2>4. TypeOK'
    BY <1>17, <1>u, <2>2 DEF CheckEnd, TypeOK
  <2>5. Stages'
    BY <1>17, <2>2 DEF CheckEnd, Stages
  <2>6. Publishing'
    BY <1>17, <2>2 DEF CheckEnd, Publishing
  <2>7. Held'
    BY <1>17, <1>c, <2>2 DEF CheckEnd, Held
  <2>8. Late' /\ BannedStaysOut'
    BY <1>17, <1>c, <2>2, Stay DEF CheckEnd, Late, TypeOK
  <2>9. QED
    BY <2>4, <2>5, <2>6, <2>7, <2>8 DEF IInv
<1>18. ASSUME NEW u \in User, Expire(u) PROVE IInv'
  <2>1. redis' \in [User -> Agent \cup {None}]
    BY <1>18 DEF Expire, TypeOK
  <2>2. QED
    BY <1>18, <1>c, <2>1 DEF Expire, IInv, TypeOK, Stages, Publishing, Held, Late,
       BannedStaysOut
<1>19. ASSUME NEW a \in BanAgent, NEW u \in User, BanSet(a, u) PROVE IInv'
  <2>1. /\ row' = [row EXCEPT ![u] = "banned"] /\ ban' = [ban EXCEPT ![a] = u]
        /\ UNCHANGED <<users, connections, sess, fib, todo, redis, faults, late>>
    BY <1>19 DEF BanSet
  <2>2. /\ row' \in [User -> {"none", "free", "banned"}]
        /\ ban' \in [BanAgent -> User \cup {None}]
        /\ \A v \in User : row[v] = "banned" => row'[v] = "banned"
    BY <2>1 DEF TypeOK
  <2>3. TypeOK' /\ Stages' /\ Publishing' /\ Held'
    BY <1>c, <2>1, <2>2 DEF TypeOK, Stages, Publishing, Held
  <2>4. Late' /\ BannedStaysOut'
    BY <2>1, <2>2 DEF Late, BannedStaysOut, Stages, TypeOK
  <2>5. QED
    BY <2>3, <2>4 DEF IInv
<1>20. ASSUME NEW a \in BanAgent, BanKick(a) PROVE IInv'
  <2>1. /\ ban' \in [BanAgent -> User \cup {None}]
        /\ UNCHANGED <<users, connections, fib, todo, redis, faults, row, late>>
    BY <1>20 DEF BanKick, TypeOK
  <2>2. /\ sess' \in [Session -> Sess]
        /\ \A t \in Session :
              /\ sess'[t].agent = sess[t].agent /\ sess'[t].user = sess[t].user
              /\ sess'[t].state \in {"new", "gone"} <=> sess[t].state \in {"new", "gone"}
              /\ sess'[t].state = "gone" <=> sess[t].state = "gone"
    BY <1>20, ShutDownFact DEF BanKick
  <2>3. TypeOK'
    BY <1>u, <2>1, <2>2 DEF TypeOK
  <2>4. Stages' /\ Publishing'
    BY <2>1, <2>2 DEF Stages, Publishing
  <2>5. Held'
    BY <1>c, <2>1, <2>2 DEF Held
  <2>6. Late' /\ BannedStaysOut'
    BY <2>1, <2>2 DEF Late, BannedStaysOut, TypeOK
  <2>7. QED
    BY <2>3, <2>4, <2>5, <2>6 DEF IInv
<1>21. ASSUME NEW u \in User, BanEnds(u) PROVE IInv'
  <2>1. /\ row' = [row EXCEPT ![u] = "free"] /\ late' = {s \in late : sess[s].user # u}
        /\ UNCHANGED <<users, connections, sess, fib, todo, redis, faults, ban>>
    BY <1>21 DEF BanEnds
  <2>2. /\ row' \in [User -> {"none", "free", "banned"}]
        /\ late' \subseteq late
        /\ \A v \in User : v # u => row'[v] = row[v]
    BY <2>1 DEF TypeOK
  <2>3. TypeOK' /\ Stages' /\ Publishing' /\ Held'
    BY <1>c, <2>1, <2>2 DEF TypeOK, Stages, Publishing, Held
  <2>4. Late' /\ BannedStaysOut'
    BY <2>1, <2>2 DEF Late, BannedStaysOut, Stages, TypeOK
  <2>5. QED
    BY <2>3, <2>4 DEF IInv
<1>22. ASSUME NEW f \in Thread, PublishFails(f) PROVE IInv'
  <2> DEFINE pc == IF f \in Session THEN "ready" ELSE "idle"
  <2>1. /\ fib[f].pc = "set" /\ fib[f].agent \in Agent /\ fib[f].user \in User
        /\ pc \in Pcs \ {"set", "kick"} /\ Goto(f, pc)
        /\ UNCHANGED <<users, connections, database>>
    BY <1>22 DEF PublishFails, Publishing, Pcs
  <2>2. /\ fib' \in [Thread -> FiberState] /\ fib'[f].pc = pc
        /\ \A g \in Thread \ {f} : fib'[g] = fib[g]
        /\ \A g \in Thread : fib'[g].pc = "kick" => fib'[g].old \in Agent
    <3> HIDE DEF pc
    <3>1. QED
      BY <2>1, GotoFact
  <2>3. /\ sess' \in [Session -> Sess]
        /\ \A t \in Session :
              /\ sess'[t].agent = sess[t].agent /\ sess'[t].user = sess[t].user
              /\ sess'[t].state \in {"new", "gone"} <=> sess[t].state \in {"new", "gone"}
              /\ sess'[t].state = "gone" <=> sess[t].state = "gone"
    BY <1>22, ShutDownFact DEF PublishFails
  <2>4. /\ redis' \in [User -> Agent \cup {None}]
        /\ todo' \in [Agent -> SUBSET User] /\ faults' \in Nat
    BY <1>22, <2>1 DEF PublishFails, TypeOK
  <2>5. TypeOK'
    BY <1>u, <2>1, <2>2, <2>3, <2>4 DEF TypeOK
  <2>6. Stages'
    BY <2>1, <2>2, <2>3 DEF Stages
  <2>7. Publishing'
    BY <2>2 DEF Publishing
  <2>8. Held'
    BY <1>c, <2>1, <2>2, <2>3 DEF Held
  <2>9. Late' /\ BannedStaysOut'
    <3>1. f \notin late
      BY <2>1 DEF Late
    <3>2. QED
      BY <1>c, <2>1, <2>2, <2>3, <3>1, Stay DEF TypeOK
  <2>10. QED
    BY <2>5, <2>6, <2>7, <2>8, <2>9 DEF IInv
<1>23. ASSUME NEW f \in Thread, KickLost(f) PROVE IInv'
  <2>1. /\ fib[f].pc = "kick" /\ Goto(f, "insert")
        /\ "insert" \in Pcs \ {"set", "kick"}
        /\ UNCHANGED <<users, connections, sess, todo, redis, database>>
    BY <1>23 DEF KickLost, Pcs
  <2>2. /\ fib' \in [Thread -> FiberState] /\ fib'[f].pc = "insert"
        /\ \A g \in Thread \ {f} : fib'[g] = fib[g]
        /\ \A g \in Thread : fib'[g].pc = "kick" => fib'[g].old \in Agent
    BY <2>1, GotoFact
  <2>3. TypeOK'
    BY <1>u, <1>23, <2>1, <2>2 DEF KickLost, TypeOK
  <2>4. Stages'
    BY <2>1, <2>2 DEF Stages
  <2>5. Publishing'
    BY <2>2 DEF Publishing
  <2>6. Held'
    BY <1>c, <2>1, <2>2 DEF Held
  <2>7. Late' /\ BannedStaysOut'
    <3>1. f \notin late
      BY <2>1 DEF Late
    <3>2. QED
      BY <1>c, <2>1, <2>2, <3>1, Stay DEF TypeOK
  <2>8. QED
    BY <2>3, <2>4, <2>5, <2>6, <2>7 DEF IInv
<1>24. QED
  BY <1>1, <1>2, <1>3, <1>4, <1>5, <1>6, <1>7, <1>8, <1>9, <1>10, <1>11, <1>12,
     <1>13, <1>14, <1>15, <1>16, <1>17, <1>18, <1>19, <1>20, <1>21, <1>22, <1>23
  DEF Next, Handler, Timer, Connect, CheckNext

(***************************************************************************)
(* The theorems.                                                           *)
(***************************************************************************)
THEOREM InvAlways == Spec => []IInv
<1>1. Init => IInv
  BY InitIInv
<1>2. IInv /\ [Next]_vars => IInv'
  BY StepIInv
<1>3. QED
  BY <1>1, <1>2, PTL DEF Spec

(* The type invariant of UserLogin, for every instance.                    *)
THEOREM TypeAlways == Spec => []TypeOK
<1>1. IInv => TypeOK
  BY DEF IInv
<1>2. QED
  BY <1>1, InvAlways, PTL

(* do_get_username finds a connection only by the session that it is of,   *)
(* so whatever session replaces it or ends, an agent never keeps a         *)
(* connection whose session has gone or is of somebody else.               *)
THEOREM NoDeadConnectionAlways == Spec => []NoDeadConnection
<1>1. IInv => NoDeadConnection
  <2> SUFFICES ASSUME IInv, NEW a \in Agent, NEW u \in User, connections[a][u] # None
               PROVE  LET s == connections[a][u] IN
                      sess[s].state # "gone" /\ sess[s].agent = a /\ sess[s].user = u
    BY DEF NoDeadConnection
  <2>1. connections[a][u] \in Session
    BY DEF IInv, TypeOK
  <2>2. QED
    BY <2>1 DEF IInv, Held, Stages
<1>2. QED
  BY <1>1, InvAlways, PTL

(* The ban is read from MySQL after the row has been upserted, which       *)
(* leaves it alone, and before anything else is done for the session: no   *)
(* interleaving with other logins, kicks or timers lets in a session that  *)
(* was opened under a ban.                                                 *)
THEOREM BannedStaysOutAlways == Spec => []BannedStaysOut
<1>1. IInv => BannedStaysOut
  BY DEF IInv
<1>2. QED
  BY <1>1, InvAlways, PTL

(* Every statement of open, close and the ping timer that takes a          *)
(* connection from an agent shuts its session down as well.                *)
THEOREM NeverDroppedSilentlyAlways == Spec => NeverDroppedSilently
<1> DEFINE Dropped ==
      \A a \in Agent, u \in User :
        connections[a][u] # None /\ connections'[a][u] # connections[a][u] =>
          sess'[connections[a][u]].state # "open"
<1>1. IInv /\ [Next]_vars => [Dropped]_connections
  <2> SUFFICES ASSUME IInv, [Next]_vars, NEW a \in Agent, NEW u \in User,
                      connections[a][u] # None,
                      connections'[a][u] # connections[a][u]
               PROVE  sess'[connections[a][u]].state # "open"
    OBVIOUS
  <2> DEFINE c == connections[a][u]
  <2>1. TypeOK /\ c \in Session
    BY DEF IInv, TypeOK
  <2>2. ASSUME NEW s \in Session, Connect(s) PROVE sess'[c].state # "open"
    <3>1. /\ connections' = [connections EXCEPT ![sess[s].agent][sess[s].user] = s]
          /\ ShutDown(Locked(connections[sess[s].agent][sess[s].user]))
      BY <2>2 DEF Connect
    <3>2. sess[s].agent = a /\ sess[s].user = u
      BY <3>1 DEF IInv, TypeOK
    <3>3. sess[c].state # "gone" => c \in Locked(c)
      BY DEF Locked
    <3>4. QED
      BY <2>1, <3>1, <3>2, <3>3, ShutDownFact
  <2>3. ASSUME NEW s \in Session, Close(s) PROVE sess'[c].state # "open"
    <3>1. c = s
      BY <2>3 DEF Close, IsMine, IInv, TypeOK
    <3>2. QED
      BY <2>3, <3>1 DEF Close
  <2>4. ASSUME NEW b \in Agent, PingTimer(b) PROVE sess'[c].state # "open"
    <3>1. PICK silent \in SUBSET {v \in User : Locked(connections[b][v]) # {}} :
            LET expired == silent \cup {v \in User : NoSession(b, v)} IN
            /\ ShutDown({connections[b][v] : v \in silent})
            /\ connections' = [connections EXCEPT ![b] =
                                 [v \in User |-> IF v \in expired THEN None ELSE @[v]]]
      BY <2>4 DEF PingTimer
    <3>2. b = a /\ (u \in silent \/ NoSession(a, u))
      BY <3>1 DEF IInv, TypeOK
    <3>3. CASE u \in silent
      BY <2>1, <3>1, <3>2, <3>3, ShutDownFact
    <3>4. CASE NoSession(a, u)
      BY <2>1, <3>1, <3>4, ShutDownFact DEF NoSession, Locked
    <3>5. QED
      BY <3>2, <3>3, <3>4
  <2>5. QED
    BY <2>2, <2>3, <2>4 DEF Next, Handler, Timer, vars, Open, Refused, RowInserted,
       Selected, Connect, Welcomed, Closed, ClientCloses, Published, Kick, PublishFails, KickLost, CheckStart,
       CheckUser, CheckNext, CheckEnd, Expire, BanSet, BanKick, BanEnds
<1>2. QED
  BY <1>1, InvAlways, PTL DEF Spec, NeverDroppedSilently

=============================================================================
