--------------------------- MODULE MonitorRowProofs ---------------------------
(* How the versions of a role in Redis, in its rows and in the fibers      *)
(* relate, and what follows for what a row can lose.                       *)
EXTENDS MonitorRoleProofs

(***************************************************************************)
(* The steps, as far as versions are concerned.                            *)
(***************************************************************************)
(* A fiber goes on.  The record it carries into its next command is the    *)
(* one it had or the answer it got, or that of a role to be created.       *)
Carried(f) ==
  \/ /\ fib[f].pc = "insert" /\ fib'[f].rec = fib[f].rec
     /\ \/ fib'[f].pc = "setnx" /\ fib[f].res # Nil
        \/ fib'[f].pc = "select_owner"
  \/ /\ fib[f].pc \in {"select_owner", "select"} /\ fib[f].res # Nil
     /\ fib'[f].pc = "setnx" /\ fib'[f].rec = fib[f].res
  \/ /\ fib[f].pc \in {"get", "del"} /\ fib[f].res # Nil
     /\ fib'[f].pc = "update" /\ fib'[f].rec = fib[f].res
     /\ fib'[f].done = FALSE
     /\ f \in Fiber => fib[f].res.home = HomeOfFiber(f)
  \/ /\ fib[f].pc = "update" /\ fib[f].done
     /\ fib'[f].pc = "del" /\ fib'[f].rec = fib[f].rec

Moves(f) ==
  /\ PlaceInv(f)' /\ fib'[f].res = Nil
  /\ \/ fib'[f].pc \notin CarriesRecord
     \/ fib'[f].pc = "insert"
     \/ SameRequest(f) /\ Carried(f)

Quiet == UNCHANGED <<redis, mysql, online, clock>>

FibersMove == \A g \in Thread : fib'[g] = fib[g] \/ Moves(g)

(* The server has executed the command of the fiber.                       *)
Answered(f) ==
  /\ OthersSame(f) /\ SameRequest(f)
  /\ fib[f].done = FALSE /\ fib'[f].done = TRUE
  /\ fib'[f].mon = fib[f].mon
  /\ fib'[f].pc = fib[f].pc /\ fib'[f].rec = fib[f].rec

RedisEffect(f, r) ==
  /\ UNCHANGED <<mysql, online, clock>>
  /\ \A q \in Roid \ {r} : redis'[q] = redis[q]
  /\ \/ /\ fib[f].pc = "get"
        /\ fib'[f].res = redis[r] /\ redis'[r] = redis[r]
     \/ /\ fib[f].pc = "setnx" /\ fib'[f].res = redis[r]
        /\ redis'[r] = IF redis[r] = Nil THEN fib[f].rec ELSE redis[r]
     \/ /\ fib[f].pc = "del" /\ redis[r] = fib[f].rec
        /\ fib'[f].res = Nil /\ redis'[r] = Nil
     \/ /\ fib[f].pc = "del" /\ redis[r] # fib[f].rec
        /\ fib'[f].res = redis[r] /\ redis'[r] = redis[r]

MySQLEffect(f, h, r) ==
  /\ UNCHANGED <<redis, online, clock>>
  /\ \A g \in Home, q \in Roid :
       g # h \/ q # r => mysql'[g][q] = mysql[g][q]
  /\ \/ /\ fib[f].pc = "insert" /\ mysql[h][r] = Nil
        /\ mysql'[h][r] # Nil /\ mysql'[h][r].ver = fib[f].rec.ver
        /\ fib'[f].res = fib[f].rec
     \/ /\ fib[f].pc = "update" /\ mysql[h][r] # Nil
        /\ mysql'[h][r] # Nil /\ mysql'[h][r].ver = fib[f].rec.ver
        /\ fib'[f].res = Nil
     \/ /\ fib[f].pc \in MySQLPc /\ mysql'[h][r] = mysql[h][r]
        /\ fib[f].pc = "update" => mysql[h][r] = Nil
        /\ fib'[f].res = Nil
     \/ /\ fib[f].pc \in {"select", "select_owner"}
        /\ mysql[h][r] # Nil /\ mysql'[h][r] = mysql[h][r]
        /\ fib'[f].res = RecordOf(mysql[h][r], h)

LEMMA AnswerFacts ==
  ASSUME TypeOK, NEW f \in Thread, NEW res, Answer(f, res), ~fib[f].done
  PROVE  Answered(f) /\ fib'[f].res = res
<1>1. /\ fib'[f].mon = fib[f].mon /\ fib'[f].done = TRUE
      /\ fib[f].done = FALSE
  BY DEF TypeOK, FiberState, Answer
<1> QED
  BY <1>1, AnswerEffect DEF Answered

LEMMA RedisStep ==
  ASSUME RecordsKnown, NEW f \in Thread, RedisExec(f)
  PROVE  Answered(f) /\ RedisEffect(f, fib[f].roid)
<1> DEFINE r == fib[f].roid
<1>1. TypeOK /\ r \in Roid /\ ~fib[f].done /\ redis \in [Roid -> Records]
  BY FiberFacts DEF RecordsKnown, RedisExec, TypeOK
<1>2. PICK res : Answer(f, res)
  BY DEF RedisExec
<1>3. Answered(f)
  BY <1>1, <1>2, AnswerFacts
<1>4. UNCHANGED <<mysql, online, clock>>
  BY DEF RedisExec, logic
<1>5. CASE fib[f].pc = "get" /\ Answer(f, redis[r]) /\ UNCHANGED redis
  BY <1>1, <1>3, <1>4, <1>5, AnswerFacts DEF RedisEffect
<1>6. CASE /\ fib[f].pc = "setnx" /\ Answer(f, redis[r])
           /\ redis' = [redis EXCEPT
                          ![r] = IF MaySet(f) THEN fib[f].rec ELSE @]
  <2>1. /\ fib'[f].res = redis[r]
        /\ redis'[r] = IF redis[r] = Nil THEN fib[f].rec ELSE redis[r]
        /\ \A q \in Roid \ {r} : redis'[q] = redis[q]
    BY <1>1, <1>6, AnswerFacts DEF MaySet
  <2> QED
    BY <1>3, <1>4, <1>6, <2>1 DEF RedisEffect
<1>7. CASE /\ fib[f].pc = "del" /\ IsUnchanged(f) /\ Answer(f, Nil)
           /\ redis' = [redis EXCEPT ![r] = Nil]
  <2>1. /\ fib'[f].res = Nil /\ redis[r] = fib[f].rec
        /\ redis'[r] = Nil /\ \A q \in Roid \ {r} : redis'[q] = redis[q]
    BY <1>1, <1>7, AnswerFacts DEF IsUnchanged
  <2> QED
    BY <1>3, <1>4, <1>7, <2>1 DEF RedisEffect
<1>8. CASE /\ fib[f].pc = "del" /\ ~IsUnchanged(f) /\ Answer(f, redis[r])
           /\ UNCHANGED redis
  BY <1>1, <1>3, <1>4, <1>8, AnswerFacts DEF RedisEffect, IsUnchanged
<1> QED
  BY <1>5, <1>6, <1>7, <1>8 DEF RedisExec

LEMMA WriteRowEffect ==
  ASSUME TypeOK, NEW h \in Home, NEW r \in Roid, NEW rec \in Record,
         WriteRow(h, r, rec)
  PROVE  /\ mysql'[h][r] # Nil /\ mysql'[h][r].ver = rec.ver
         /\ \A g \in Home, q \in Roid :
              g # h \/ q # r => mysql'[g][q] = mysql[g][q]
<1>1. RowOf(rec) # Nil /\ RowOf(rec).ver = rec.ver
  BY NilAssumption DEF RowOf, Row, Record
<1>2. mysql \in [Home -> [Roid -> Rows]]
  BY DEF TypeOK
<1> QED
  BY <1>1, <1>2 DEF WriteRow

LEMMA MySQLStep ==
  ASSUME RecordsKnown, NEW f \in Thread, MySQLExec(f)
  PROVE  Answered(f) /\ MySQLEffect(f, HomeOfFiber(f), fib[f].roid)
<1> DEFINE h == HomeOfFiber(f)
           r == fib[f].roid
           row == mysql[h][r]
<1>1. /\ TypeOK /\ r \in Roid /\ h \in Home /\ ~fib[f].done /\ FiberInv(f)
  BY FiberFacts DEF RecordsKnown, MySQLExec
<1>2. PICK res : Answer(f, res)
  BY DEF MySQLExec
<1>3. Answered(f)
  BY <1>1, <1>2, AnswerFacts
<1>4. UNCHANGED <<redis, online, clock>>
  BY DEF MySQLExec, logic
<1>5. fib[f].pc \in {"insert", "update"} => fib[f].rec \in Record
  BY <1>1 DEF FiberInv, Known
<1>6. CASE /\ fib[f].pc = "insert" /\ MayInsert(f)
           /\ WriteRow(h, r, fib[f].rec) /\ Answer(f, fib[f].rec)
  <2>1. fib'[f].res = fib[f].rec /\ row = Nil
    BY <1>1, <1>6, AnswerFacts DEF MayInsert
  <2> QED
    BY <1>1, <1>3, <1>4, <1>5, <1>6, <2>1, WriteRowEffect DEF MySQLEffect
<1>7. CASE /\ fib[f].pc = "update" /\ row # Nil
           /\ WriteRow(h, r, fib[f].rec) /\ Answer(f, Nil)
  <2>1. fib'[f].res = Nil
    BY <1>1, <1>7, AnswerFacts
  <2> QED
    BY <1>1, <1>3, <1>4, <1>5, <1>7, <2>1, WriteRowEffect DEF MySQLEffect
<1>8. CASE /\ fib[f].pc \in MySQLPc
           /\ fib[f].pc = "update" => row = Nil
           /\ Answer(f, Nil) /\ UNCHANGED mysql
  BY <1>1, <1>3, <1>4, <1>8, AnswerFacts DEF MySQLEffect
<1>9. CASE /\ fib[f].pc \in {"select", "select_owner"} /\ row # Nil
           /\ Answer(f, RecordOf(row, h)) /\ UNCHANGED mysql
  BY <1>1, <1>3, <1>4, <1>9, AnswerFacts DEF MySQLEffect
<1> QED
  BY <1>6, <1>7, <1>8, <1>9 DEF MySQLExec, MySQLPc

(***************************************************************************)
(* The steps of the fibers themselves.                                     *)
(***************************************************************************)
LEMMA ApartFacts ==
  /\ \A f \in Fiber : f \in Thread /\ f \notin Monitor
  /\ \A m \in Monitor : m \in Thread /\ m \notin Fiber
BY MonitorAssumption DEF Thread

(* A fiber that is thrown away or has finished.                            *)
LEMMA IdleMoves ==
  /\ \A f \in Fiber, n \in Monitor : fib'[f] = Idle(n) => Moves(f)
  /\ \A m \in Monitor : fib'[m] = Idle(m) => Moves(m)
BY ApartFacts DEF Idle, Moves, PlaceInv, CarriesRecord

LEMMA ReplyMoves ==
  ASSUME TypeOK, NEW f \in Fiber, NEW status, Reply(f, status)
  PROVE  FibersMove
<1>1. f \in Thread /\ f \notin Monitor
  BY ApartFacts
<1>2. OthersSame(f) /\ fib'[f].pc = "replied" /\ fib'[f].res = Nil
  BY <1>1, ReplyEffect
<1>3. Moves(f)
  BY <1>1, <1>2 DEF Moves, PlaceInv, CarriesRecord
<1> QED
  BY <1>2, <1>3 DEF FibersMove, OthersSame

LEMMA SendMoves ==
  ASSUME TypeOK, NEW f \in Fiber,
         NEW pc \in {"setnx", "select_owner", "update", "del"}, NEW rec,
         Send(f, pc, rec),
         pc \in {"update", "del"} =>
            fib[f].op \in Ops \cap {"unload", "flush"},
         \/ /\ fib[f].pc = "insert" /\ rec = fib[f].rec
            /\ pc = "select_owner" \/ (pc = "setnx" /\ fib[f].res # Nil)
         \/ /\ fib[f].pc \in {"select_owner", "select"} /\ fib[f].res # Nil
            /\ pc = "setnx" /\ rec = fib[f].res
         \/ /\ fib[f].pc \in {"get", "del"} /\ fib[f].res # Nil
            /\ pc = "update" /\ rec = fib[f].res
            /\ fib[f].res.home = HomeOfFiber(f)
         \/ /\ fib[f].pc = "update" /\ fib[f].done
            /\ pc = "del" /\ rec = fib[f].rec
  PROVE  FibersMove
<1>1. f \in Thread /\ f \notin Monitor
  BY ApartFacts
<1>2. /\ OthersSame(f) /\ SameRequest(f)
      /\ fib'[f].pc = pc /\ fib'[f].rec = rec /\ fib'[f].res = Nil
      /\ fib'[f].done = FALSE
  BY <1>1, SendEffect
<1>3. PlaceInv(f)'
  BY <1>1, <1>2 DEF PlaceInv, SameRequest
<1>4. Carried(f)
  BY <1>2 DEF Carried
<1>5. Moves(f)
  BY <1>2, <1>3, <1>4 DEF Moves
<1> QED
  BY <1>2, <1>5 DEF FibersMove, OthersSame

LEMMA StartMoves ==
  ASSUME TypeOK, NEW f \in Fiber, NEW m \in Monitor, NEW r \in Roid,
         NEW op, NEW u, NEW pc, NEW rec, Start(f, m, op, r, u, pc, rec),
         \/ pc = "insert" /\ rec.ver = 0
         \/ pc = "select"
         \/ pc = "get" /\ op \in {"unload", "flush"}
  PROVE  FibersMove /\ Quiet
<1> DEFINE G == [op |-> op, mon |-> m, roid |-> r, user |-> u, pc |-> pc,
                 done |-> FALSE, rec |-> rec, res |-> Nil, status |-> "none"]
<1>1. f \in Thread /\ f \notin Monitor
  BY ApartFacts
<1>2. fib' = [fib EXCEPT ![f] = G] /\ op \in Ops /\ Quiet
  BY DEF Start, Quiet, logic
<1>3. fib'[f] = G /\ OthersSame(f)
  BY <1>1, <1>2 DEF TypeOK, OthersSame
<1>4. Moves(f)
  BY <1>1, <1>2, <1>3 DEF Moves, PlaceInv, CarriesRecord
<1> QED
  BY <1>2, <1>3, <1>4 DEF FibersMove, OthersSame

LEMMA RequestMoves ==
  ASSUME TypeOK, Request PROVE FibersMove /\ Quiet
<1> PICK f \in Fiber, m \in Monitor, r \in Roid :
      \/ \E u \in User : CreateRequest(f, m, r, u)
      \/ LoadRequest(f, m, r)
      \/ UnloadRequest(f, m, r)
      \/ FlushRequest(f, m, r)
  BY DEF Request
<1>1. CASE \E u \in User : CreateRequest(f, m, r, u)
  <2> PICK u \in User : CreateRequest(f, m, r, u)
    BY <1>1
  <2> DEFINE rec == [ver |-> 0, owner |-> u, home |-> HomeOf[m]]
  <2>1. Start(f, m, "create", r, u, "insert", rec) /\ rec.ver = 0
    BY DEF CreateRequest
  <2> HIDE DEF rec
  <2> QED
    BY <2>1, StartMoves
<1>2. CASE LoadRequest(f, m, r)
  BY <1>2, StartMoves DEF LoadRequest
<1>3. CASE UnloadRequest(f, m, r)
  BY <1>3, StartMoves DEF UnloadRequest
<1>4. CASE FlushRequest(f, m, r)
  BY <1>4, StartMoves DEF FlushRequest
<1> QED
  BY <1>1, <1>2, <1>3, <1>4

LEMMA HandlerMoves ==
  ASSUME RecordsKnown, NEW f \in Fiber, PlaceInv(f), Handler(f)
  PROVE  FibersMove /\ Quiet
<1>1. TypeOK /\ f \in Thread /\ FiberInv(f)
  BY ApartFacts DEF RecordsKnown
<1>2. fib[f].pc \in {"get", "update", "del"} =>
        fib[f].op \in Ops \cap {"unload", "flush"}
  BY DEF PlaceInv
<1>3. fib[f].pc = "del" => fib[f].op = "unload"
  BY <1>1 DEF FiberInv
<1>4. CASE CreateInserted(f)
  BY <1>1, <1>4, SendMoves DEF CreateInserted, Resumed, Quiet, logic
<1>5. CASE CreateSelected(f)
  BY <1>1, <1>5, SendMoves, ReplyMoves
     DEF CreateSelected, Selected, Resumed, Quiet, logic
<1>6. CASE LoadSelected(f)
  BY <1>1, <1>6, SendMoves, ReplyMoves
     DEF LoadSelected, Selected, Resumed, Quiet, logic
<1>7. CASE StoredIntoRedis(f)
  BY <1>1, <1>7, ReplyMoves DEF StoredIntoRedis, Quiet, logic
<1>8. CASE NotLoaded(f)
  BY <1>1, <1>8, ReplyMoves DEF NotLoaded, Quiet, logic
<1>9. CASE RefuseForeign(f)
  BY <1>1, <1>9, ReplyMoves DEF RefuseForeign, Quiet, logic
<1>10. CASE UnloadWrite(f)
  BY <1>1, <1>2, <1>10, SendMoves
     DEF UnloadWrite, IsForeign, Resumed, Quiet, logic
<1>11. CASE UnloadWritten(f)
  BY <1>1, <1>2, <1>11, SendMoves
     DEF UnloadWritten, Resumed, Quiet, logic
<1>12. CASE UnloadDeleted(f)
  BY <1>1, <1>12, ReplyMoves DEF UnloadDeleted, Quiet, logic
<1>13. CASE FlushWrite(f)
  BY <1>1, <1>2, <1>13, SendMoves
     DEF FlushWrite, IsForeign, Resumed, Quiet, logic
<1>14. CASE FlushWritten(f)
  BY <1>1, <1>14, ReplyMoves DEF FlushWritten, Quiet, logic
<1>15. CASE Finish(f)
  <2>1. fib'[f] = Idle(SomeMonitor) /\ OthersSame(f)
    BY <1>1, <1>15 DEF Finish, TypeOK, OthersSame
  <2>2. Moves(f)
    BY <2>1, IdleMoves, SomeMonitorType
  <2> QED
    BY <1>15, <2>1, <2>2 DEF Finish, Quiet, logic, FibersMove, OthersSame
<1> QED
  BY <1>4, <1>5, <1>6, <1>7, <1>8, <1>9, <1>10, <1>11, <1>12, <1>13, <1>14,
     <1>15 DEF Handler

LEMMA TimerMoves ==
  ASSUME RecordsKnown, NEW m \in Monitor, PlaceInv(m), Timer(m)
  PROVE  FibersMove /\ Quiet
<1>1. TypeOK /\ m \in Thread /\ m \notin Fiber /\ FiberInv(m)
  BY ApartFacts DEF RecordsKnown
<1>2. /\ fib \in [Thread -> FiberState] /\ fib[m] \in FiberState
      /\ fib[m].mon = m /\ (~SaveTimer => fib[m].pc = "idle")
  BY <1>1 DEF TypeOK, PlaceInv
<1>3. fib[m].pc \in {"idle", "next"} => fib[m].res = Nil
  BY <1>1 DEF FiberInv, Busy, RedisPc, MySQLPc
<1>4. Quiet
  BY DEF Timer, Tick, SaveNext, SaveEnd, SaveGone, SaveWrite, SaveWritten,
         Quiet, logic
<1>5. CASE Tick(m)
  <2>1. /\ OthersSame(m) /\ fib'[m].pc = "next" /\ fib'[m].mon = m
        /\ fib'[m].res = fib[m].res /\ fib[m].pc = "idle" /\ SaveTimer
    BY <1>1, <1>2, <1>5 DEF Tick, OthersSame, FiberState
  <2>2. Moves(m)
    BY <1>1, <1>3, <2>1 DEF Moves, PlaceInv, CarriesRecord
  <2> QED
    BY <1>4, <2>1, <2>2 DEF FibersMove, OthersSame
<1>6. CASE SaveNext(m)
  <2>1. /\ OthersSame(m) /\ fib'[m].pc = "get" /\ fib'[m].mon = m
        /\ fib'[m].res = fib[m].res /\ fib[m].pc = "next"
    BY <1>1, <1>2, <1>6 DEF SaveNext, OthersSame, FiberState
  <2>2. Moves(m)
    BY <1>1, <1>2, <1>3, <2>1 DEF Moves, PlaceInv, CarriesRecord
  <2> QED
    BY <1>4, <2>1, <2>2 DEF FibersMove, OthersSame
<1>7. CASE SaveEnd(m)
  <2>1. fib'[m] = Idle(m) /\ OthersSame(m)
    BY <1>1, <1>2, <1>7 DEF SaveEnd, OthersSame
  <2>2. Moves(m)
    BY <2>1, IdleMoves
  <2> QED
    BY <1>4, <2>1, <2>2 DEF FibersMove, OthersSame
<1>8. CASE SaveGone(m) \/ SaveWritten(m)
  <2>1. SaveReady(m) /\ fib[m].pc # "idle"
    BY <1>8 DEF SaveGone, SaveWritten, Resumed
  <2>2. /\ OthersSame(m) /\ fib'[m].pc = "next" /\ fib'[m].res = Nil
        /\ fib'[m].mon = m
    BY <1>1, <1>2, <2>1, SaveReadyEffect DEF SaveReady, FiberState
  <2>3. Moves(m)
    BY <1>1, <1>2, <2>1, <2>2 DEF Moves, PlaceInv, CarriesRecord
  <2> QED
    BY <1>4, <2>2, <2>3 DEF FibersMove, OthersSame
<1>9. CASE SaveWrite(m)
  <2>1. Send(m, "update", fib[m].res) /\ fib[m].pc = "get" /\ fib[m].res # Nil
    BY <1>9 DEF SaveWrite, Resumed
  <2>2. /\ OthersSame(m) /\ SameRequest(m) /\ fib'[m].pc = "update"
        /\ fib'[m].rec = fib[m].res /\ fib'[m].res = Nil
        /\ fib'[m].done = FALSE
    BY <1>1, <2>1, SendEffect
  <2>3. fib'[m].mon = m
    BY <1>1, <1>2, <2>1 DEF Send, FiberState
  <2>4. PlaceInv(m)'
    BY <1>1, <1>2, <2>1, <2>2, <2>3 DEF PlaceInv
  <2>5. Carried(m)
    BY <1>1, <2>1, <2>2 DEF Carried
  <2>6. Moves(m)
    BY <2>2, <2>4, <2>5 DEF Moves
  <2> QED
    BY <1>4, <2>2, <2>6 DEF FibersMove, OthersSame
<1> QED
  BY <1>5, <1>6, <1>7, <1>8, <1>9 DEF Timer

LEMMA DbErrorMoves ==
  ASSUME TypeOK, NEW f \in Thread, DbError(f) PROVE FibersMove /\ Quiet
<1>1. Quiet
  BY DEF DbError, Quiet, logic
<1>2. CASE f \in Monitor
  <2>1. fib'[f] = Idle(f) /\ OthersSame(f)
    BY <1>2 DEF DbError, TypeOK, OthersSame
  <2> QED
    BY <1>1, <1>2, <2>1, IdleMoves DEF FibersMove, OthersSame
<1>3. CASE f \notin Monitor
  <2>1. f \in Fiber /\ Reply(f, "exception")
    BY <1>3 DEF DbError, Thread
  <2> QED
    BY <1>1, <2>1, ReplyMoves
<1> QED
  BY <1>2, <1>3

LEMMA CrashMoves ==
  ASSUME TypeOK, NEW m \in Monitor, Crash(m) PROVE FibersMove /\ Quiet
<1>1. Quiet
  BY DEF Crash, Quiet, logic
<1>2. ASSUME NEW f \in Thread PROVE fib'[f] = fib[f] \/ Moves(f)
  <2>1. \/ fib'[f] = fib[f]
        \/ f \in Monitor /\ fib'[f] = Idle(f)
        \/ f \in Fiber /\ fib'[f] = Idle(SomeMonitor)
    BY <1>2 DEF Crash
  <2> QED
    BY <2>1, IdleMoves, SomeMonitorType
<1> QED
  BY <1>1, <1>2 DEF FibersMove

(* Every step of the system is of one of these kinds.                      *)
LEMMA StepKinds ==
  ASSUME RecordsKnown, VersionInv, [Next]_vars
  PROVE  \/ FibersMove /\ Quiet
         \/ \E f \in Thread : Answered(f) /\ RedisEffect(f, fib[f].roid)
         \/ \E f \in Thread :
              Answered(f) /\ MySQLEffect(f, HomeOfFiber(f), fib[f].roid)
         \/ \E r \in Roid : Expire(r) \/ LogicLogin(r)
         \/ \E r \in Roid, logout \in BOOLEAN : LogicSave(r, logout)
<1>1. TypeOK /\ \A f \in Thread : PlaceInv(f)
  BY DEF RecordsKnown, VersionInv
<1>2. CASE Request
  BY <1>1, <1>2, RequestMoves
<1>3. CASE \E f \in Thread : Server(f)
  BY <1>3, RedisStep, MySQLStep DEF Server
<1>4. CASE \E f \in Thread : DbError(f)
  BY <1>1, <1>4, DbErrorMoves
<1>5. CASE \E f \in Fiber : Handler(f)
  BY <1>1, <1>5, HandlerMoves, ApartFacts
<1>6. CASE \E m \in Monitor : DbReady(m)
  BY <1>6 DEF DbReady, FibersMove, Quiet, logic
<1>7. CASE \E m \in Monitor : Timer(m)
  BY <1>1, <1>7, TimerMoves, ApartFacts
<1>8. CASE \E m \in Monitor : Crash(m)
  BY <1>1, <1>8, CrashMoves
<1>9. CASE UNCHANGED vars
  BY <1>9 DEF vars, logic, FibersMove, Quiet
<1> QED
  BY <1>2, <1>3, <1>4, <1>5, <1>6, <1>7, <1>8, <1>9 DEF Next

(***************************************************************************)
(* No version is newer than the last save.                                 *)
(***************************************************************************)
LEMMA VersionFacts ==
  ASSUME TypeOK
  PROVE  /\ \A r \in Roid : clock[r] \in Nat /\ redis[r] \in Records
         /\ \A h \in Home, r \in Roid : mysql[h][r] \in Rows
         /\ \A f \in Thread :
              /\ fib[f].roid \in Roid /\ HomeOfFiber(f) \in Home
              /\ fib[f].rec \in Records /\ fib[f].res \in Records
BY FiberFacts DEF TypeOK

LEMMA LocalVersion ==
  ASSUME RecordsKnown, VersionInv, TypeOK', FibersMove, Quiet
  PROVE  VersionInv'
<1>1. ASSUME NEW g \in Thread PROVE PlaceInv(g)' /\ CarriesSaved(g)'
  <2>1. PlaceInv(g) /\ CarriesSaved(g) /\ UNCHANGED clock
    BY DEF VersionInv, Quiet
  <2>2. CASE fib'[g] = fib[g]
    BY <2>1, <2>2 DEF PlaceInv, CarriesSaved, IsSaved
  <2>3. CASE Moves(g)
    <3>1. PlaceInv(g)' /\ fib'[g].res = Nil
      BY <2>3 DEF Moves
    <3>2. CASE fib'[g].pc = "insert"
      <4>1. fib'[g].rec.ver = 0 /\ fib'[g].roid \in Roid
        BY <3>1, <3>2 DEF PlaceInv, TypeOK, FiberState
      <4>2. 0 <= clock[fib'[g].roid]
        BY <4>1, VersionFacts DEF RecordsKnown
      <4> QED
        BY <2>1, <3>1, <4>1, <4>2 DEF CarriesSaved, IsSaved
    <3>3. CASE SameRequest(g) /\ Carried(g)
      BY <2>1, <3>1, <3>3
         DEF Carried, SameRequest, CarriesSaved, IsSaved, CarriesRecord
    <3> QED
      BY <2>3, <3>1, <3>2, <3>3 DEF Moves, CarriesSaved, IsSaved
  <2> QED
    BY <2>2, <2>3 DEF FibersMove
<1>2. /\ \A r \in Roid : IsSaved(r, redis[r])'
      /\ \A h \in Home, r \in Roid : IsSaved(r, mysql[h][r])'
  BY DEF VersionInv, Quiet, IsSaved
<1> QED
  BY <1>1, <1>2 DEF VersionInv

(* A fiber whose command is not answered does not change.                  *)
LEMMA OthersVersion ==
  ASSUME VersionInv, NEW f \in Thread, Answered(f), UNCHANGED clock,
         IsSaved(fib[f].roid, fib'[f].res)
  PROVE  \A g \in Thread : PlaceInv(g)' /\ CarriesSaved(g)'
<1>1. SUFFICES ASSUME NEW g \in Thread
               PROVE  PlaceInv(g)' /\ CarriesSaved(g)'
  OBVIOUS
<1>2. PlaceInv(g) /\ CarriesSaved(g)
  BY DEF VersionInv
<1>3. CASE g = f
  BY <1>2, <1>3
     DEF Answered, SameRequest, PlaceInv, CarriesSaved, IsSaved
<1>4. CASE g # f
  BY <1>2, <1>4 DEF Answered, OthersSame, PlaceInv, CarriesSaved, IsSaved
<1> QED
  BY <1>3, <1>4

LEMMA RedisVersion ==
  ASSUME RecordsKnown, VersionInv, NEW f \in Thread,
         Answered(f), RedisEffect(f, fib[f].roid)
  PROVE  VersionInv'
<1> DEFINE r == fib[f].roid
<1>1. r \in Roid
  BY VersionFacts DEF RecordsKnown
<1>2. IsSaved(r, redis[r]) /\ CarriesSaved(f)
  BY <1>1 DEF VersionInv
<1>3. IsSaved(r, fib'[f].res)
  BY <1>2 DEF RedisEffect, IsSaved
<1>4. \A g \in Thread : PlaceInv(g)' /\ CarriesSaved(g)'
  BY <1>3, OthersVersion DEF RedisEffect
<1>5. IsSaved(r, redis'[r])
  BY <1>2 DEF RedisEffect, CarriesSaved, CarriesRecord, IsSaved
<1>6. \A q \in Roid : IsSaved(q, redis'[q])
  BY <1>5 DEF VersionInv, RedisEffect
<1>7. /\ \A q \in Roid : IsSaved(q, redis[q])'
      /\ \A h \in Home, q \in Roid : IsSaved(q, mysql[h][q])'
  BY <1>6 DEF VersionInv, RedisEffect, IsSaved
<1> QED
  BY <1>4, <1>7 DEF VersionInv

LEMMA MySQLVersion ==
  ASSUME RecordsKnown, VersionInv, NEW f \in Thread,
         Answered(f), MySQLEffect(f, HomeOfFiber(f), fib[f].roid)
  PROVE  VersionInv'
<1> DEFINE r == fib[f].roid
           h == HomeOfFiber(f)
<1>1. r \in Roid /\ h \in Home /\ FiberInv(f)
  BY VersionFacts DEF RecordsKnown
<1>2. IsSaved(r, mysql[h][r]) /\ CarriesSaved(f)
  BY <1>1 DEF VersionInv
<1>3. fib[f].pc \in {"insert", "update"} => fib[f].rec # Nil
  BY <1>1, NilAssumption DEF FiberInv, Known
<1>4. IsSaved(r, fib'[f].res)
  BY <1>2 DEF MySQLEffect, CarriesSaved, CarriesRecord, IsSaved, RecordOf
<1>5. \A g \in Thread : PlaceInv(g)' /\ CarriesSaved(g)'
  BY <1>4, OthersVersion DEF MySQLEffect
<1>6. IsSaved(r, mysql'[h][r])
  BY <1>2, <1>3 DEF MySQLEffect, CarriesSaved, CarriesRecord, IsSaved
<1>7. \A g \in Home, q \in Roid : IsSaved(q, mysql'[g][q])
  BY <1>6 DEF VersionInv, MySQLEffect
<1>8. /\ \A q \in Roid : IsSaved(q, redis[q])'
      /\ \A g \in Home, q \in Roid : IsSaved(q, mysql[g][q])'
  BY <1>7 DEF VersionInv, MySQLEffect, IsSaved
<1> QED
  BY <1>5, <1>8 DEF VersionInv

(* The effect of a save.                                                   *)
LEMMA SaveStep ==
  ASSUME RecordsKnown, NEW r \in Roid, NEW logout \in BOOLEAN,
         LogicSave(r, logout)
  PROVE  /\ UNCHANGED <<mysql, fib>>
         /\ \A q \in Roid \ {r} : /\ clock'[q] = clock[q]
                                 /\ redis'[q] = redis[q]
                                 /\ online'[q] = online[q]
         /\ clock[r] \in Nat /\ clock'[r] = clock[r] + 1
         /\ online[r] \in Record
         /\ redis'[r] \in Record /\ redis'[r] # Nil
         /\ redis'[r].ver = clock[r] + 1 /\ redis'[r].home = online[r].home
<1> DEFINE rec == [online[r] EXCEPT !.ver = clock[r] + 1]
<1>1. online[r] \in Record /\ clock[r] \in Nat
  BY DEF LogicSave, RecordsKnown, Known, TypeOK
<1>2. /\ rec \in Record /\ rec # Nil /\ rec.ver = clock[r] + 1
      /\ rec.home = online[r].home
  BY <1>1, NilAssumption DEF Record
<1>3. /\ redis' = [redis EXCEPT ![r] = rec]
      /\ online' = [online EXCEPT ![r] = IF logout THEN Nil ELSE rec]
      /\ clock' = [clock EXCEPT ![r] = @ + 1] /\ UNCHANGED <<mysql, fib>>
  BY DEF LogicSave, service
<1> HIDE DEF rec
<1> QED
  BY <1>1, <1>2, <1>3 DEF RecordsKnown, TypeOK

LEMMA OutsideVersion ==
  ASSUME RecordsKnown, VersionInv,
         \/ \E r \in Roid : Expire(r) \/ LogicLogin(r)
         \/ \E r \in Roid, logout \in BOOLEAN : LogicSave(r, logout)
  PROVE  VersionInv'
<1>1. CASE \E r \in Roid : Expire(r) \/ LogicLogin(r)
  <2>1. /\ UNCHANGED <<mysql, fib, clock>>
        /\ \A q \in Roid : redis'[q] \in {redis[q], Nil}
    BY <1>1 DEF Expire, LogicLogin, logic, RecordsKnown, TypeOK
  <2>2. \A g \in Thread : PlaceInv(g)' /\ CarriesSaved(g)'
    BY <2>1 DEF VersionInv, PlaceInv, CarriesSaved, IsSaved
  <2>3. /\ \A q \in Roid : IsSaved(q, redis[q])'
        /\ \A g \in Home, q \in Roid : IsSaved(q, mysql[g][q])'
    BY <2>1 DEF VersionInv, IsSaved
  <2> QED
    BY <2>2, <2>3 DEF VersionInv
<1>2. CASE \E r \in Roid, logout \in BOOLEAN : LogicSave(r, logout)
  <2> PICK r \in Roid, logout \in BOOLEAN : LogicSave(r, logout)
    BY <1>2
  <2>1. /\ UNCHANGED <<mysql, fib>>
        /\ \A q \in Roid : clock[q] \in Nat /\ clock'[q] \in Nat
                            /\ clock[q] <= clock'[q]
        /\ \A q \in Roid \ {r} : redis'[q] = redis[q]
        /\ redis'[r].ver = clock'[r]
    BY SaveStep, VersionFacts DEF RecordsKnown
  <2>2. ASSUME NEW q \in Roid, NEW rec \in Records \cup Rows, IsSaved(q, rec)
        PROVE  rec # Nil => rec.ver <= clock'[q]
    <3>1. rec # Nil => rec.ver \in Nat
      BY DEF Records, Rows, Record, Row
    <3> QED
      BY <2>1, <2>2, <3>1 DEF IsSaved
  <2>3. ASSUME NEW g \in Thread PROVE PlaceInv(g)' /\ CarriesSaved(g)'
    <3>1. /\ fib[g].roid \in Roid /\ fib[g].rec \in Records
          /\ fib[g].res \in Records /\ PlaceInv(g) /\ CarriesSaved(g)
      BY VersionFacts DEF RecordsKnown, VersionInv
    <3>2. CarriesSaved(g)'
      BY <2>1, <2>2, <3>1 DEF CarriesSaved, IsSaved
    <3> QED
      BY <2>1, <3>1, <3>2 DEF PlaceInv
  <2>4. ASSUME NEW q \in Roid PROVE IsSaved(q, redis[q])'
    <3>1. q # r => redis[q] \in Records /\ IsSaved(q, redis[q])
      BY VersionFacts DEF RecordsKnown, VersionInv
    <3> QED
      BY <2>1, <2>2, <3>1 DEF IsSaved
  <2>5. ASSUME NEW h \in Home, NEW q \in Roid PROVE IsSaved(q, mysql[h][q])'
    <3>1. mysql[h][q] \in Rows /\ IsSaved(q, mysql[h][q])
      BY VersionFacts DEF RecordsKnown, VersionInv
    <3> QED
      BY <2>1, <2>2, <3>1 DEF IsSaved
  <2> QED
    BY <2>3, <2>4, <2>5 DEF VersionInv
<1> QED
  BY <1>1, <1>2

LEMMA NextVersion ==
  RecordsKnown /\ VersionInv /\ [Next]_vars => VersionInv'
<1> SUFFICES ASSUME RecordsKnown, VersionInv, [Next]_vars PROVE VersionInv'
  OBVIOUS
<1>1. TypeOK'
  BY NextKnown DEF RecordsKnown
<1> QED
  BY <1>1, StepKinds, LocalVersion, RedisVersion, MySQLVersion, OutsideVersion

LEMMA InitVersion == Init => VersionInv
<1> SUFFICES ASSUME Init PROVE VersionInv
  OBVIOUS
<1>1. ASSUME NEW f \in Thread PROVE PlaceInv(f) /\ CarriesSaved(f)
  <2>1. /\ fib[f].pc = "idle" /\ fib[f].res = Nil
        /\ f \in Monitor => fib[f].mon = f
    BY DEF Init, Idle
  <2> QED
    BY <2>1, ApartFacts DEF PlaceInv, CarriesSaved, CarriesRecord, IsSaved
<1> QED
  BY <1>1 DEF Init, VersionInv, IsSaved

(* No copy of a role, in Redis, in a table or in a fiber, has a version    *)
(* that the logic service has not saved yet.                               *)
THEOREM VersionAlways == Spec => []VersionInv
BY InitKnown, NextKnown, InitVersion, NextVersion, PTL DEF Spec

(***************************************************************************)
(* A row never goes back while roles stay in Redis.                        *)
(***************************************************************************)
LEMMA NobodyDeletes ==
  ASSUME StaysInRedis, VersionInv, NEW f \in Fiber
  PROVE  fib[f].pc \notin {"get", "update", "del"}
<1>1. PlaceInv(f)
  BY ApartFacts DEF VersionInv
<1> QED
  BY <1>1 DEF PlaceInv, StaysInRedis

LEMMA TimerFacts ==
  ASSUME RecordsKnown, VersionInv, NEW m \in Monitor
  PROVE  /\ m \in Thread /\ HomeOfFiber(m) = HomeOf[m]
         /\ HomeOf[m] \in Home /\ fib[m].roid \in Roid
         /\ fib[m].pc \in {"idle", "next", "get", "update"}
         /\ PlaceInv(m) /\ FiberInv(m) /\ CarriesSaved(m)
<1>1. m \in Thread
  BY ApartFacts
<1>2. PlaceInv(m) /\ FiberInv(m) /\ CarriesSaved(m)
  BY <1>1 DEF VersionInv, RecordsKnown
<1> QED
  BY <1>1, <1>2, VersionFacts DEF RecordsKnown, PlaceInv, HomeOfFiber

LEMMA LocalRow ==
  ASSUME RecordsKnown, VersionInv, RowInv, FibersMove, Quiet
  PROVE  RowInv'
<1>1. \A r \in Roid : HasLastSave(r)'
  BY DEF RowInv, HasLastSave, Quiet
<1>2. ASSUME NEW m \in Monitor PROVE TimerInv(m)'
  <2>1. TimerInv(m) /\ m \in Thread /\ m \notin Fiber /\ mysql' = mysql
    BY ApartFacts DEF RowInv, Quiet
  <2>2. CASE fib'[m] = fib[m]
    BY <2>1, <2>2 DEF TimerInv
  <2>3. CASE Moves(m) /\ fib'[m].pc # "update"
    BY <2>3 DEF Moves, TimerInv
  <2>4. CASE Moves(m) /\ fib'[m].pc = "update"
    <3>1. /\ fib'[m].roid = fib[m].roid /\ fib'[m].rec = fib[m].res
          /\ fib[m].res # Nil /\ fib'[m].res = Nil
      BY <2>4 DEF Moves, Carried, SameRequest, CarriesRecord
    <3> QED
      BY <2>1, <3>1 DEF TimerInv
  <2> QED
    BY <2>1, <2>2, <2>3, <2>4 DEF FibersMove
<1> QED
  BY <1>1, <1>2 DEF RowInv

LEMMA RedisRow ==
  ASSUME StaysInRedis, RecordsKnown, VersionInv, RowInv, NEW f \in Thread,
         Answered(f), RedisEffect(f, fib[f].roid)
  PROVE  RowInv'
<1> PICK r \in Roid : r = fib[f].roid
  BY VersionFacts DEF RecordsKnown
<1>1. /\ RedisEffect(f, r) /\ HasLastSave(r) /\ clock[r] \in Nat
      /\ CarriesSaved(f) /\ FiberInv(f)
  BY VersionFacts DEF RecordsKnown, VersionInv, RowInv
<1>2. fib[f].pc # "del"
  BY NobodyDeletes, TimerFacts DEF Thread
<1>3. HasLastSave(r)'
  <2>1. CASE redis'[r] = redis[r]
    BY <1>1, <2>1 DEF RedisEffect, HasLastSave
  <2>2. CASE fib[f].pc = "setnx" /\ redis[r] = Nil /\ redis'[r] = fib[f].rec
    <3>1. fib[f].rec \in Record
      BY <1>1, <2>2 DEF FiberInv, Known
    <3>2. fib[f].rec # Nil /\ fib[f].rec.ver \in Nat
      BY <3>1, NilAssumption DEF Record
    <3>3. fib[f].rec.ver <= clock[r] /\ clock[r] = 0
      BY <1>1, <2>2, <3>2 DEF CarriesSaved, CarriesRecord, IsSaved, HasLastSave
    <3>4. fib[f].rec.ver = clock[r]
      BY <3>2, <3>3
    <3> QED
      BY <2>2, <3>2, <3>4 DEF HasLastSave, RedisEffect
  <2> QED
    BY <1>2, <2>1, <2>2 DEF RedisEffect
<1>4. \A q \in Roid : HasLastSave(q)'
  <2>1. SUFFICES ASSUME NEW q \in Roid, q # r PROVE HasLastSave(q)'
    BY <1>3
  <2>2. HasLastSave(q) /\ redis'[q] = redis[q] /\ UNCHANGED <<online, clock>>
    BY <2>1 DEF RowInv, RedisEffect
  <2> QED
    BY <2>2 DEF HasLastSave
<1>5. ASSUME NEW m \in Monitor PROVE TimerInv(m)'
  <2>1. TimerInv(m) /\ m \in Thread /\ mysql' = mysql
    BY ApartFacts DEF RowInv, RedisEffect
  <2>2. CASE m # f
    BY <2>1, <2>2 DEF Answered, OthersSame, TimerInv
  <2>3. CASE m = f
    <3>1. /\ fib[f].pc = "get" /\ fib'[f].res = redis[r]
          /\ fib'[f].pc = "get" /\ fib'[f].roid = r
      BY <2>3, TimerFacts DEF RedisEffect, Answered, SameRequest
    <3>2. HomeOf[m] \in Home /\ IsSaved(r, mysql[HomeOf[m]][r])
      BY <1>1, TimerFacts DEF VersionInv
    <3>3. redis[r] # Nil => redis[r].ver = clock[r]
      BY <1>1 DEF HasLastSave
    <3> QED
      BY <2>1, <2>3, <3>1, <3>2, <3>3 DEF TimerInv, IsSaved
  <2> QED
    BY <2>2, <2>3
<1> QED
  BY <1>4, <1>5 DEF RowInv

LEMMA MySQLRow ==
  ASSUME StaysInRedis, RecordsKnown, VersionInv, RowInv, NEW f \in Thread,
         Answered(f), MySQLEffect(f, HomeOfFiber(f), fib[f].roid)
  PROVE  RowInv'
<1> DEFINE r == fib[f].roid
           h == HomeOfFiber(f)
<1>1. /\ r \in Roid /\ h \in Home /\ FiberInv(f) /\ PlaceInv(f)
  BY VersionFacts DEF RecordsKnown, VersionInv
<1>2. \A q \in Roid : HasLastSave(q)'
  BY DEF RowInv, HasLastSave, MySQLEffect
<1>3. ASSUME NEW m \in Monitor PROVE TimerInv(m)'
  <2> DEFINE q == fib[m].roid
             g == HomeOf[m]
  <2>1. /\ TimerInv(m) /\ m \in Thread /\ q \in Roid /\ g \in Home
        /\ fib[m].res \in Records /\ fib[m].rec \in Records /\ FiberInv(m)
    BY TimerFacts, VersionFacts DEF RowInv, RecordsKnown
  <2>2. CASE m = f
    <3>1. /\ fib'[m].roid = q /\ fib'[m].rec = fib[m].rec /\ h = g
          /\ fib[m].pc = "update" /\ fib'[m].res = Nil
      BY <2>2, TimerFacts DEF Answered, SameRequest, MySQLEffect, MySQLPc
    <3>2. fib[m].rec.ver \in Nat
      BY <2>1, <3>1 DEF FiberInv, Known, Record
    <3>3. mysql'[g][q] = mysql[g][q] \/ mysql'[g][q].ver = fib[m].rec.ver
      BY <2>2, <3>1 DEF MySQLEffect
    <3>4. TimerInv(m) /\ fib[m].pc = "update" /\ mysql[g][q] # Nil
             => mysql[g][q].ver <= fib[m].rec.ver
      BY DEF TimerInv
    <3>5. mysql'[g][q] # Nil => mysql'[g][q].ver <= fib[m].rec.ver
      BY <2>1, <3>1, <3>2, <3>3, <3>4
    <3> QED
      BY <3>1, <3>5 DEF TimerInv
  <2>3. CASE m # f
    <3>1. fib'[m] = fib[m]
      BY <2>1, <2>3 DEF Answered, OthersSame
    <3>2. CASE mysql'[g][q] = mysql[g][q]
      BY <2>1, <3>1, <3>2 DEF TimerInv
    <3>3. CASE /\ h = g /\ r = q
               /\ fib[f].pc = "insert" /\ mysql'[h][r].ver = fib[f].rec.ver
      <4>1. mysql'[g][q].ver = 0
        BY <1>1, <3>3 DEF PlaceInv
      <4>2. /\ fib[m].res # Nil => fib[m].res.ver \in Nat
            /\ fib[m].pc = "update" => fib[m].rec.ver \in Nat
        BY <2>1 DEF FiberInv, Known, Record
      <4>3. /\ fib[m].res # Nil => mysql'[g][q].ver <= fib[m].res.ver
            /\ fib[m].pc = "update" => mysql'[g][q].ver <= fib[m].rec.ver
        BY <4>1, <4>2
      <4> QED
        BY <3>1, <4>3 DEF TimerInv
    <3>4. ASSUME h = g, fib[f].pc = "update" PROVE FALSE
      <4>1. f \in Monitor
        BY <3>4, NobodyDeletes DEF Thread
      <4>2. HomeOf[f] = HomeOf[m]
        BY <3>4, <4>1, TimerFacts
      <4> QED
        BY <2>3, <4>1, <4>2 DEF StaysInRedis
    <3> QED
      BY <2>1, <3>2, <3>3, <3>4 DEF MySQLEffect
  <2> QED
    BY <2>2, <2>3
<1> QED
  BY <1>2, <1>3 DEF RowInv

LEMMA OutsideRow ==
  ASSUME StaysInRedis, RecordsKnown, RowInv,
         \/ \E r \in Roid : Expire(r) \/ LogicLogin(r)
         \/ \E r \in Roid, logout \in BOOLEAN : LogicSave(r, logout)
  PROVE  RowInv'
<1>1. CASE \E r \in Roid : Expire(r) \/ LogicLogin(r)
  <2>1. /\ UNCHANGED <<redis, mysql, fib, clock>>
        /\ \A q \in Roid : redis[q] = Nil => online'[q] = online[q]
    BY <1>1
       DEF StaysInRedis, Expire, LogicLogin, logic, RecordsKnown, TypeOK
  <2> QED
    BY <2>1 DEF RowInv, HasLastSave, TimerInv
<1>2. CASE \E r \in Roid, logout \in BOOLEAN : LogicSave(r, logout)
  <2> PICK r \in Roid, logout \in BOOLEAN : LogicSave(r, logout)
    BY <1>2
  <2>1. UNCHANGED <<mysql, fib>>
    BY SaveStep
  <2>2. HasLastSave(r)'
    BY SaveStep DEF HasLastSave
  <2>3. \A q \in Roid \ {r} : HasLastSave(q)'
    BY SaveStep DEF RowInv, HasLastSave
  <2>4. \A m \in Monitor : TimerInv(m)'
    BY <2>1 DEF RowInv, TimerInv
  <2> QED
    BY <2>2, <2>3, <2>4 DEF RowInv
<1> QED
  BY <1>1, <1>2

LEMMA NextRow ==
  ASSUME StaysInRedis
  PROVE  RecordsKnown /\ VersionInv /\ RowInv /\ [Next]_vars => RowInv'
BY StepKinds, LocalRow, RedisRow, MySQLRow, OutsideRow

LEMMA InitRow == Init => RowInv
<1> SUFFICES ASSUME Init PROVE RowInv
  OBVIOUS
<1>1. \A r \in Roid : HasLastSave(r)
  BY DEF Init, HasLastSave
<1>2. ASSUME NEW m \in Monitor PROVE TimerInv(m)
  <2>1. HomeOf[m] \in Home /\ fib[m] = Idle(m)
    BY MonitorAssumption, ApartFacts DEF Init
  <2>2. fib[m].roid \in Roid
    BY <2>1, IdleType DEF FiberState
  <2>3. mysql[HomeOf[m]][fib[m].roid] = Nil
    BY <2>1, <2>2 DEF Init
  <2> QED
    BY <2>3 DEF TimerInv
<1> QED
  BY <1>1, <1>2 DEF RowInv

(* As long as no request takes a role out of Redis, and one timer writes   *)
(* to each table, no row is ever overwritten with an older version: create *)
(* and load leave alone what is in Redis, and what the timer has read      *)
(* cannot have become older than the row while it was waiting.             *)
THEOREM RowNeverGoesBackAlways ==
  ASSUME StaysInRedis PROVE Spec => RowNeverGoesBack
<1> DEFINE KeepsRows ==
      \A h \in Home, r \in Roid :
        mysql[h][r] # Nil =>
          mysql'[h][r] # Nil /\ mysql'[h][r].ver >= mysql[h][r].ver
<1>1. RecordsKnown /\ VersionInv /\ RowInv /\ [Next]_vars
        => [KeepsRows]_mysql
  <2>1. SUFFICES ASSUME RecordsKnown, VersionInv, RowInv, [Next]_vars,
                        mysql' # mysql
                 PROVE  KeepsRows
    OBVIOUS
  <2>2. PICK f \in Thread :
               Answered(f) /\ MySQLEffect(f, HomeOfFiber(f), fib[f].roid)
    BY <2>1, StepKinds, SaveStep
       DEF Quiet, RedisEffect, Expire, LogicLogin
  <2>3. SUFFICES ASSUME NEW h \in Home, NEW r \in Roid, mysql[h][r] # Nil
                 PROVE  /\ mysql'[h][r] # Nil
                        /\ mysql'[h][r].ver >= mysql[h][r].ver
    OBVIOUS
  <2>4. mysql[h][r].ver \in Nat
    BY <2>1, <2>3, VersionFacts DEF RecordsKnown, Rows, Row
  <2>5. CASE mysql'[h][r] = mysql[h][r]
    BY <2>3, <2>4, <2>5
  <2>6. CASE /\ h = HomeOfFiber(f) /\ r = fib[f].roid
             /\ fib[f].pc = "update" /\ mysql'[h][r] # Nil
             /\ mysql'[h][r].ver = fib[f].rec.ver
    <3>1. f \in Monitor
      BY <2>1, <2>6, NobodyDeletes DEF Thread
    <3>2. TimerInv(f) /\ HomeOfFiber(f) = HomeOf[f]
      BY <2>1, <3>1, TimerFacts DEF RowInv
    <3>3. mysql[h][r].ver <= fib[f].rec.ver
      BY <2>3, <2>6, <3>2 DEF TimerInv
    <3>4. fib[f].rec.ver \in Nat
      BY <2>1, <2>6, <3>1, TimerFacts DEF FiberInv, Known, Record
    <3> QED
      BY <2>4, <2>6, <3>3, <3>4
  <2> QED
    BY <2>2, <2>3, <2>5, <2>6 DEF MySQLEffect
<1>2. Init => RecordsKnown /\ VersionInv /\ RowInv
  BY InitKnown, InitVersion, InitRow
<1>3. RecordsKnown /\ VersionInv /\ RowInv /\ [Next]_vars
        => (RecordsKnown /\ VersionInv /\ RowInv)'
  BY NextKnown, NextVersion, NextRow
<1> QED
  BY <1>1, <1>2, <1>3, PTL DEF Spec, RowNeverGoesBack

(* A role that is never taken out of Redis is there with its last save.    *)
THEOREM FreshInRedisAlways ==
  ASSUME StaysInRedis PROVE Spec => []FreshInRedis
<1>1. Init => RecordsKnown /\ VersionInv /\ RowInv
  BY InitKnown, InitVersion, InitRow
<1>2. RecordsKnown /\ VersionInv /\ RowInv /\ [Next]_vars
        => (RecordsKnown /\ VersionInv /\ RowInv)'
  BY NextKnown, NextVersion, NextRow
<1>3. RowInv => FreshInRedis
  BY DEF RowInv, HasLastSave, FreshInRedis
<1> QED
  BY <1>1, <1>2, <1>3, PTL DEF Spec

(***************************************************************************)
(* No save is lost while requests come one at a time.                      *)
(***************************************************************************)
(* What a fiber that waits for a command is known to hold.                 *)
LEMMA WriterFacts ==
  ASSUME OneWriter, RecordsKnown, VersionInv, RecoverInv, NEW f \in Thread,
         fib[f].pc # "idle"
  PROVE  /\ f \in Fiber /\ \A g \in Fiber : g = f
         /\ fib[f].roid \in Roid /\ HomeOfFiber(f) \in Home
         /\ WriteBackInv(f) /\ FiberInv(f) /\ CarriesSaved(f)
<1>1. f \in Fiber
  BY DEF VersionInv, PlaceInv, OneWriter, Thread
<1> QED
  BY <1>1, VersionFacts DEF RecordsKnown, VersionInv, RecoverInv, OneWriter

LEMMA RecordFacts ==
  ASSUME RecordsKnown, NEW r \in Roid, NEW rec, Known(r, rec)
  PROVE  /\ rec # Nil /\ rec.ver \in Nat /\ rec.home \in Home
         /\ mysql[rec.home][r] # Nil /\ mysql[rec.home][r].ver \in Nat
<1>1. rec \in Record /\ mysql[rec.home][r] # Nil
  BY DEF Known
<1>2. rec # Nil /\ rec.ver \in Nat /\ rec.home \in Home
  BY <1>1, NilAssumption DEF Record
<1>3. mysql[rec.home][r] \in Rows
  BY <1>2, VersionFacts DEF RecordsKnown
<1> QED
  BY <1>1, <1>2, <1>3 DEF Rows, Row

LEMMA LocalRecover ==
  ASSUME OneWriter, RecordsKnown, VersionInv, RecoverInv, FibersMove, Quiet
  PROVE  RecoverInv'
<1>1. UNCHANGED <<redis, mysql, clock>>
  BY DEF Quiet
<1>2. /\ Recoverable'
      /\ \A r \in Roid : redis'[r] # Nil => IsUpToDate(r, redis[r])'
  BY <1>1 DEF RecoverInv, Recoverable, IsUpToDate
<1>3. ASSUME NEW f \in Fiber PROVE WriteBackInv(f)'
  <2>1. f \in Thread /\ WriteBackInv(f) /\ FiberInv(f)
    BY ApartFacts DEF RecoverInv, RecordsKnown
  <2>2. CASE fib'[f] = fib[f]
    BY <1>1, <2>1, <2>2 DEF WriteBackInv, IsUpToDate, HomeOfFiber
  <2>3. CASE /\ Moves(f)
             /\ fib'[f].pc \notin CarriesRecord \/ fib'[f].pc = "insert"
    <3>1. fib'[f].res = Nil /\ fib'[f].pc \notin {"setnx", "update", "del"}
      BY <2>3 DEF Moves, CarriesRecord
    <3> QED
      BY <3>1 DEF WriteBackInv
  <2>4. CASE Moves(f) /\ SameRequest(f) /\ Carried(f)
    <3>1. /\ fib'[f].res = Nil /\ fib'[f].roid = fib[f].roid
          /\ HomeOfFiber(f)' = HomeOfFiber(f)
      BY <2>4 DEF Moves, SameRequest
    <3>2. CASE fib'[f].pc = "select_owner"
      BY <3>1, <3>2 DEF WriteBackInv
    <3>3. CASE fib'[f].pc = "setnx"
      <4>1. IsUpToDate(fib[f].roid, fib'[f].rec)
        BY <2>1, <2>4, <3>3 DEF Carried, FiberInv, WriteBackInv
      <4> QED
        BY <1>1, <3>1, <3>3, <4>1 DEF WriteBackInv, IsUpToDate
    <3>4. CASE fib'[f].pc = "update"
      <4>1. /\ fib[f].pc \in {"get", "del"} /\ fib[f].res # Nil
            /\ fib'[f].rec = fib[f].res /\ fib'[f].done = FALSE
            /\ fib[f].res.home = HomeOfFiber(f)
        BY <2>4, <3>4 DEF Carried
      <4> QED
        BY <1>1, <2>1, <3>1, <3>4, <4>1 DEF WriteBackInv, IsUpToDate
    <3>5. CASE fib'[f].pc = "del"
      <4>1. /\ fib[f].pc = "update" /\ fib[f].done
            /\ fib'[f].rec = fib[f].rec
        BY <2>4, <3>5 DEF Carried
      <4> QED
        BY <1>1, <2>1, <3>1, <3>5, <4>1 DEF WriteBackInv, IsUpToDate
    <3> QED
      BY <2>4, <3>2, <3>3, <3>4, <3>5 DEF Carried
  <2> QED
    BY <2>1, <2>2, <2>3, <2>4 DEF FibersMove, Moves
<1> QED
  BY <1>2, <1>3 DEF RecoverInv

LEMMA RedisRecover ==
  ASSUME OneWriter, RecordsKnown, VersionInv, RecoverInv, NEW f \in Thread,
         Answered(f), RedisEffect(f, fib[f].roid)
  PROVE  RecoverInv'
<1> PICK r \in Roid : r = fib[f].roid
  BY VersionFacts DEF RecordsKnown
<1> PICK h \in Home : h = HomeOfFiber(f)
  BY VersionFacts DEF RecordsKnown
<1>1. /\ f \in Fiber /\ \A g \in Fiber : g = f
      /\ WriteBackInv(f) /\ FiberInv(f) /\ RedisEffect(f, r)
  BY WriterFacts DEF RedisEffect
<1>2. redis[r] # Nil =>
        Known(r, redis[r]) /\ IsUpToDate(r, redis[r]) /\ redis[r].ver \in Nat
  BY RecordFacts DEF RecordsKnown, RecoverInv
<1>3. UNCHANGED <<mysql, clock>>
  BY DEF RedisEffect
<1>4. \A q \in Roid : redis'[q] # Nil => IsUpToDate(q, redis[q])'
  <2>1. redis'[r] # Nil => IsUpToDate(r, redis[r])'
    BY <1>1, <1>2, <1>3 DEF RedisEffect, WriteBackInv, IsUpToDate
  <2>2. ASSUME NEW q \in Roid \ {r}, redis'[q] # Nil
        PROVE  IsUpToDate(q, redis[q])'
    BY <1>1, <1>3, <2>2 DEF RecoverInv, RedisEffect, IsUpToDate
  <2> QED
    BY <2>1, <2>2
<1>5. WriteBackInv(f)'
  <2>1. /\ fib'[f].roid = r /\ HomeOfFiber(f)' = h
        /\ fib'[f].pc = fib[f].pc /\ fib'[f].rec = fib[f].rec
    BY DEF Answered, SameRequest
  <2>2. CASE fib[f].pc = "get"
    <3>1. fib'[f].res = redis[r] /\ redis'[r] = redis[r]
      BY <1>1, <2>2 DEF RedisEffect
    <3> QED
      BY <1>2, <1>3, <2>1, <2>2, <3>1 DEF WriteBackInv, IsUpToDate
  <2>3. CASE fib[f].pc = "setnx"
    <3>1. fib'[f].res = redis[r] /\ IsUpToDate(r, fib[f].rec)
      BY <1>1, <2>3 DEF RedisEffect, WriteBackInv
    <3> QED
      BY <1>2, <1>3, <2>1, <2>3, <3>1 DEF WriteBackInv, IsUpToDate
  <2>4. CASE fib[f].pc = "del"
    <3>1. /\ IsUpToDate(r, fib[f].rec) /\ mysql[h][r].ver = fib[f].rec.ver
          /\ \/ fib'[f].res = Nil
             \/ fib'[f].res = redis[r] /\ redis'[r] = redis[r]
      BY <1>1, <2>4 DEF RedisEffect, WriteBackInv
    <3> QED
      BY <1>2, <1>3, <2>1, <2>4, <3>1 DEF WriteBackInv, IsUpToDate
  <2> QED
    BY <1>1, <2>2, <2>3, <2>4 DEF RedisEffect
<1>6. Recoverable'
  <2>1. SUFFICES ASSUME NEW q \in Roid, clock[q] > 0
        PROVE  \/ redis'[q] # Nil /\ redis'[q].ver = clock[q]
               \/ \E g \in Home :
                    mysql[g][q] # Nil /\ mysql[g][q].ver = clock[q]
    BY <1>3 DEF Recoverable
  <2>2. \/ redis[q] # Nil /\ redis[q].ver = clock[q]
        \/ \E g \in Home : mysql[g][q] # Nil /\ mysql[g][q].ver = clock[q]
    BY <2>1 DEF RecoverInv, Recoverable
  <2>3. CASE redis'[q] = redis[q] \/ redis[q] = Nil
    BY <2>2, <2>3
  <2>4. CASE q = r /\ fib[f].pc = "del" /\ redis[r] = fib[f].rec
    <3>1. mysql[h][r].ver = fib[f].rec.ver /\ mysql[h][r] # Nil
      BY <1>1, <2>4 DEF WriteBackInv, FiberInv, Known
    <3> QED
      BY <2>2, <2>4, <3>1
  <2> QED
    BY <1>1, <2>3, <2>4 DEF RedisEffect
<1> QED
  BY <1>1, <1>4, <1>5, <1>6 DEF RecoverInv

LEMMA MySQLRecover ==
  ASSUME OneWriter, RecordsKnown, VersionInv, RecoverInv, NEW f \in Thread,
         Answered(f), MySQLEffect(f, HomeOfFiber(f), fib[f].roid)
  PROVE  RecoverInv'
<1> PICK r \in Roid : r = fib[f].roid
  BY VersionFacts DEF RecordsKnown
<1> PICK h \in Home : h = HomeOfFiber(f)
  BY VersionFacts DEF RecordsKnown
<1>1. /\ f \in Fiber /\ \A g \in Fiber : g = f
      /\ WriteBackInv(f) /\ FiberInv(f) /\ CarriesSaved(f)
      /\ MySQLEffect(f, h, r)
  BY WriterFacts DEF MySQLEffect, MySQLPc
<1>2. UNCHANGED <<redis, clock>>
  BY DEF MySQLEffect
(* An UPDATE finds a row, and what it writes is between it and Redis.      *)
<1>3. fib[f].pc = "update" =>
        /\ mysql[h][r] # Nil /\ fib[f].rec.home = h
        /\ fib[f].rec.ver \in Nat /\ mysql[h][r].ver \in Nat
        /\ mysql[h][r].ver <= fib[f].rec.ver
        /\ fib[f].rec.ver <= clock[r]
        /\ redis[r] # Nil => fib[f].rec.ver <= redis[r].ver
  <2>1. SUFFICES ASSUME fib[f].pc = "update"
                 PROVE  /\ mysql[h][r] # Nil /\ fib[f].rec.home = h
                        /\ fib[f].rec.ver \in Nat /\ mysql[h][r].ver \in Nat
                        /\ mysql[h][r].ver <= fib[f].rec.ver
                        /\ fib[f].rec.ver <= clock[r]
                        /\ redis[r] # Nil => fib[f].rec.ver <= redis[r].ver
    OBVIOUS
  <2>2. Known(r, fib[f].rec) /\ fib[f].rec.home = h
    BY <1>1, <2>1 DEF FiberInv, WriteBackInv
  <2> QED
    BY <1>1, <2>1, <2>2, RecordFacts
       DEF WriteBackInv, IsUpToDate, CarriesSaved, CarriesRecord, IsSaved
<1>4. fib[f].pc = "insert" => fib[f].rec.home = h /\ fib[f].rec.ver \in Nat
  BY <1>1 DEF FiberInv, Record
<1>5. \A q \in Roid : redis'[q] # Nil => IsUpToDate(q, redis[q])'
  <2>1. SUFFICES ASSUME NEW q \in Roid, redis[q] # Nil
                 PROVE  mysql'[redis[q].home][q].ver <= redis[q].ver
    BY <1>2 DEF IsUpToDate
  <2>2. /\ redis[q].home \in Home /\ mysql[redis[q].home][q] # Nil
        /\ mysql[redis[q].home][q].ver <= redis[q].ver
    BY <2>1, RecordFacts DEF RecordsKnown, RecoverInv, IsUpToDate
  <2>3. CASE mysql'[redis[q].home][q] = mysql[redis[q].home][q]
    BY <2>2, <2>3
  <2>4. CASE redis[q].home = h /\ q = r
    BY <1>1, <1>3, <2>1, <2>2, <2>4 DEF MySQLEffect
  <2> QED
    BY <1>1, <2>2, <2>3, <2>4 DEF MySQLEffect
<1>6. WriteBackInv(f)'
  <2>1. /\ fib'[f].roid = r /\ HomeOfFiber(f)' = h
        /\ fib'[f].pc = fib[f].pc /\ fib'[f].rec = fib[f].rec
    BY DEF Answered, SameRequest
  <2>2. CASE fib[f].pc = "update"
    <3>1. mysql'[h][r].ver = fib[f].rec.ver /\ fib'[f].res = Nil
      BY <1>1, <1>3, <2>2 DEF MySQLEffect
    <3> QED
      BY <1>2, <1>3, <2>1, <2>2, <3>1 DEF WriteBackInv, IsUpToDate
  <2>3. CASE fib'[f].res = Nil /\ fib[f].pc \in MySQLPc \ {"update"}
    BY <2>1, <2>3 DEF WriteBackInv, MySQLPc
  <2>4. CASE /\ fib[f].pc = "insert" /\ fib'[f].res = fib[f].rec
             /\ mysql'[h][r].ver = fib[f].rec.ver
    BY <1>4, <2>1, <2>4 DEF WriteBackInv, IsUpToDate
  <2>5. CASE /\ fib[f].pc \in {"select", "select_owner"}
             /\ mysql[h][r] # Nil /\ mysql'[h][r] = mysql[h][r]
             /\ fib'[f].res = RecordOf(mysql[h][r], h)
    <3>1. mysql[h][r].ver \in Nat
      BY <2>5, VersionFacts DEF RecordsKnown, Rows, Row
    <3>2. fib'[f].res.home = h /\ fib'[f].res.ver = mysql[h][r].ver
      BY <2>5 DEF RecordOf
    <3> QED
      BY <2>1, <2>5, <3>1, <3>2 DEF WriteBackInv, IsUpToDate
  <2> QED
    BY <1>1, <2>2, <2>3, <2>4, <2>5 DEF MySQLEffect, MySQLPc
<1>7. Recoverable'
  <2>1. SUFFICES ASSUME NEW q \in Roid, clock[q] > 0,
                        ~(redis[q] # Nil /\ redis[q].ver = clock[q])
                 PROVE  \E g \in Home : /\ mysql'[g][q] # Nil
                                        /\ mysql'[g][q].ver = clock[q]
    BY <1>2 DEF Recoverable
  <2>2. PICK g \in Home : mysql[g][q] # Nil /\ mysql[g][q].ver = clock[q]
    BY <2>1 DEF RecoverInv, Recoverable
  <2>3. CASE mysql'[g][q] = mysql[g][q]
    BY <2>2, <2>3
  <2>4. CASE /\ g = h /\ q = r /\ fib[f].pc = "update"
             /\ mysql'[h][r] # Nil /\ mysql'[h][r].ver = fib[f].rec.ver
    <3>1. fib[f].rec.ver = clock[r]
      BY <1>3, <2>2, <2>4
    <3> QED
      BY <2>4, <3>1
  <2> QED
    BY <1>1, <2>2, <2>3, <2>4 DEF MySQLEffect
<1> QED
  BY <1>1, <1>5, <1>6, <1>7 DEF RecoverInv

LEMMA OutsideRecover ==
  ASSUME OneWriter, RecordsKnown, VersionInv, RecoverInv,
         \/ \E r \in Roid : Expire(r) \/ LogicLogin(r)
         \/ \E r \in Roid, logout \in BOOLEAN : LogicSave(r, logout)
  PROVE  RecoverInv'
<1>1. CASE \E r \in Roid : Expire(r) \/ LogicLogin(r)
  <2>1. UNCHANGED <<redis, mysql, fib, clock>>
    BY <1>1 DEF OneWriter, Expire, LogicLogin, logic
  <2> QED
    BY <2>1
       DEF RecoverInv, WriteBackInv, Recoverable, IsUpToDate, HomeOfFiber
<1>2. CASE \E r \in Roid, logout \in BOOLEAN : LogicSave(r, logout)
  <2> PICK r \in Roid, logout \in BOOLEAN : LogicSave(r, logout)
    BY <1>2
  <2>1. /\ UNCHANGED <<mysql, fib>>
        /\ \A q \in Roid \ {r} : clock'[q] = clock[q] /\ redis'[q] = redis[q]
        /\ clock[r] \in Nat /\ clock'[r] = clock[r] + 1
        /\ redis'[r] # Nil /\ redis'[r].ver = clock[r] + 1
        /\ redis'[r].home = online[r].home
    BY SaveStep
  <2>2. IsUpToDate(r, redis[r])'
    <3>1. Known(r, online[r])
      BY DEF LogicSave, RecordsKnown
    <3>2. /\ online[r].home \in Home /\ mysql[online[r].home][r] # Nil
          /\ mysql[online[r].home][r].ver \in Nat
      BY <3>1, RecordFacts
    <3>3. mysql[online[r].home][r].ver <= clock[r]
      BY <3>2 DEF VersionInv, IsSaved
    <3>4. mysql[online[r].home][r].ver <= clock[r] + 1
      BY <2>1, <3>2, <3>3
    <3> QED
      BY <2>1, <3>4 DEF IsUpToDate
  <2>3. ASSUME NEW q \in Roid, redis'[q] # Nil PROVE IsUpToDate(q, redis[q])'
    BY <2>1, <2>2, <2>3 DEF RecoverInv, IsUpToDate
  <2>4. ASSUME NEW f \in Fiber PROVE WriteBackInv(f)'
    <3>1. /\ f \in Thread /\ WriteBackInv(f) /\ CarriesSaved(f)
          /\ FiberInv(f) /\ fib[f].roid \in Roid /\ fib[f].res \in Records
      BY ApartFacts, VersionFacts DEF RecoverInv, VersionInv, RecordsKnown
    <3>2. CASE fib[f].roid # r
      BY <2>1, <3>1, <3>2 DEF WriteBackInv, IsUpToDate, HomeOfFiber
    <3>3. CASE fib[f].roid = r
      <4>1. fib[f].res # Nil => fib[f].res.ver <= clock[r] + 1
        <5>1. fib[f].res # Nil =>
                fib[f].res.ver \in Nat /\ fib[f].res.ver <= clock[r]
          BY <3>1, <3>3 DEF Records, Record, CarriesSaved, IsSaved
        <5> QED
          BY <2>1, <5>1
      <4>2. fib[f].pc = "update" => fib[f].rec.ver <= clock[r] + 1
        <5>1. fib[f].pc = "update" =>
                fib[f].rec.ver \in Nat /\ fib[f].rec # Nil
          BY <3>1, <3>3, RecordFacts DEF FiberInv
        <5>2. fib[f].pc = "update" => fib[f].rec.ver <= clock[r]
          BY <3>1, <3>3, <5>1 DEF CarriesSaved, CarriesRecord, IsSaved
        <5> QED
          BY <2>1, <5>1, <5>2
      <4> QED
        BY <2>1, <3>1, <3>3, <4>1, <4>2
           DEF WriteBackInv, IsUpToDate, HomeOfFiber
    <3> QED
      BY <3>2, <3>3
  <2>5. Recoverable'
    BY <2>1 DEF RecoverInv, Recoverable
  <2> QED
    BY <2>3, <2>4, <2>5 DEF RecoverInv
<1> QED
  BY <1>1, <1>2

LEMMA NextRecover ==
  ASSUME OneWriter
  PROVE  RecordsKnown /\ VersionInv /\ RecoverInv /\ [Next]_vars
           => RecoverInv'
BY StepKinds, LocalRecover, RedisRecover, MySQLRecover, OutsideRecover

LEMMA InitRecover == Init => RecoverInv
<1> SUFFICES ASSUME Init PROVE RecoverInv
  OBVIOUS
<1>1. ASSUME NEW f \in Fiber PROVE WriteBackInv(f)
  <2>1. fib[f].pc = "idle" /\ fib[f].res = Nil
    BY ApartFacts DEF Init, Idle
  <2> QED
    BY <2>1 DEF WriteBackInv
<1>2. Recoverable /\ \A r \in Roid : redis[r] = Nil
  BY DEF Init, Recoverable
<1> QED
  BY <1>1, <1>2 DEF RecoverInv

(* While requests come one at a time and nothing else writes rows or       *)
(* deletes keys, no save is lost: neither an unload that meets a save, nor *)
(* a failed command, nor a crash between the UPDATE and the deletion takes *)
(* away the last copy of the newest version.                               *)
THEOREM RecoverableAlways == ASSUME OneWriter PROVE Spec => []Recoverable
<1>1. Init => RecordsKnown /\ VersionInv /\ RecoverInv
  BY InitKnown, InitVersion, InitRecover
<1>2. RecordsKnown /\ VersionInv /\ RecoverInv /\ [Next]_vars
        => (RecordsKnown /\ VersionInv /\ RecoverInv)'
  BY NextKnown, NextVersion, NextRecover
<1>3. RecoverInv => Recoverable
  BY DEF RecoverInv
<1> QED
  BY <1>1, <1>2, <1>3, PTL DEF Spec

(* The same with unload and flush, for one home: a role that was taken out *)
(* of Redis comes back with its last save.                                 *)
THEOREM ReloadedIsFreshAlways ==
  ASSUME OneWriter, SingleHome PROVE Spec => []FreshInRedis
<1>1. Init => RecordsKnown /\ VersionInv /\ RecoverInv
  BY InitKnown, InitVersion, InitRecover
<1>2. RecordsKnown /\ VersionInv /\ RecoverInv /\ [Next]_vars
        => (RecordsKnown /\ VersionInv /\ RecoverInv)'
  BY NextKnown, NextVersion, NextRecover
<1>3. RecordsKnown /\ VersionInv /\ RecoverInv => FreshInRedis
  <2>1. SUFFICES ASSUME RecordsKnown, VersionInv, RecoverInv,
                        NEW r \in Roid, redis[r] # Nil
                 PROVE  redis[r].ver = clock[r]
    BY DEF FreshInRedis
  <2>2. Known(r, redis[r]) /\ IsUpToDate(r, redis[r])
    BY <2>1 DEF RecordsKnown, RecoverInv
  <2>3. /\ redis[r].ver \in Nat /\ redis[r].home \in Home
        /\ mysql[redis[r].home][r].ver \in Nat
    BY <2>1, <2>2, RecordFacts
  <2>4. clock[r] \in Nat /\ redis[r].ver <= clock[r]
    BY <2>1, VersionFacts DEF RecordsKnown, VersionInv, IsSaved
  <2>5. CASE clock[r] = 0
    BY <2>3, <2>4, <2>5
  <2>6. CASE clock[r] > 0
    <3>1. \/ redis[r].ver = clock[r]
          \/ \E h \in Home : mysql[h][r].ver = clock[r]
      BY <2>1, <2>6 DEF RecoverInv, Recoverable
    <3>2. ASSUME NEW h \in Home, mysql[h][r].ver = clock[r]
          PROVE  redis[r].ver = clock[r]
      <4>1. h = redis[r].home
        BY <2>3 DEF SingleHome
      <4> QED
        BY <2>2, <2>3, <2>4, <3>2, <4>1 DEF IsUpToDate
    <3> QED
      BY <3>1, <3>2
  <2> QED
    BY <2>4, <2>5, <2>6
<1> QED
  BY <1>1, <1>2, <1>3, PTL DEF Spec

=============================================================================
