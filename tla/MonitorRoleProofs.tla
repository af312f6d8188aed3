-------------------------- MODULE MonitorRoleProofs --------------------------
(* What holds of MonitorRole for every set of roles, monitors, homes and   *)
(* fibers, and for every bound.                                            *)
EXTENDS MonitorRole, TLAPS

(***************************************************************************)
(* How one fiber's state changes while all others stay as they are.        *)
(***************************************************************************)
LEMMA IdleType == \A m \in Monitor : Idle(m) \in FiberState
<1> TAKE m \in Monitor
<1>1. SomeRoid \in Roid /\ SomeUser \in User
  BY MonitorAssumption DEF SomeRoid, SomeUser
<1>2. Nil \in Records
  BY DEF Records
<1> QED
  BY <1>1, <1>2 DEF Idle, FiberState, Pcs, Status

LEMMA SomeMonitorType == SomeMonitor \in Monitor
BY MonitorAssumption DEF SomeMonitor

LEMMA NilType == Nil \in Records /\ Nil \in Rows
BY DEF Records, Rows

LEMMA SendType ==
  ASSUME fib \in [Thread -> FiberState],
         NEW f \in Thread, NEW pc \in Pcs, NEW rec \in Records,
         Send(f, pc, rec)
  PROVE  fib' \in [Thread -> FiberState]
<1>1. [fib[f] EXCEPT !.pc = pc, !.rec = rec, !.done = FALSE, !.res = Nil]
        \in FiberState
  BY NilType DEF FiberState
<1> QED
  BY <1>1 DEF Send

LEMMA ReplyType ==
  ASSUME fib \in [Thread -> FiberState],
         NEW f \in Thread, NEW status \in Status, Reply(f, status)
  PROVE  fib' \in [Thread -> FiberState]
<1>1. [fib[f] EXCEPT !.pc = "replied", !.status = status, !.done = FALSE,
                     !.res = Nil] \in FiberState
  BY NilType DEF FiberState, Pcs
<1> QED
  BY <1>1 DEF Reply

LEMMA AnswerType ==
  ASSUME fib \in [Thread -> FiberState],
         NEW f \in Thread, NEW res \in Records, Answer(f, res)
  PROVE  fib' \in [Thread -> FiberState]
<1>1. [fib[f] EXCEPT !.done = TRUE, !.res = res] \in FiberState
  BY DEF FiberState
<1> QED
  BY <1>1 DEF Answer

LEMMA SaveReadyType ==
  ASSUME fib \in [Thread -> FiberState], NEW m \in Thread, SaveReady(m)
  PROVE  fib' \in [Thread -> FiberState]
<1>1. [fib[m] EXCEPT !.pc = "next", !.rec = Nil, !.done = FALSE, !.res = Nil]
        \in FiberState
  BY NilType DEF FiberState, Pcs
<1> QED
  BY <1>1 DEF SaveReady

LEMMA TrackType ==
  ASSUME role_records \in [Monitor -> SUBSET Roid],
         NEW m \in Monitor, NEW r \in Roid, Track(m, r) \/ Untrack(m, r)
  PROVE  role_records' \in [Monitor -> SUBSET Roid]
BY DEF Track, Untrack

LEMMA FiberFacts ==
  ASSUME TypeOK, NEW f \in Thread
  PROVE  /\ fib[f] \in FiberState
         /\ fib[f].mon \in Monitor /\ fib[f].roid \in Roid
         /\ fib[f].user \in User /\ fib[f].rec \in Records
         /\ fib[f].res \in Records /\ HomeOfFiber(f) \in Home
BY MonitorAssumption DEF TypeOK, FiberState, HomeOfFiber

(***************************************************************************)
(* Type correctness.                                                       *)
(***************************************************************************)
LEMMA InitType == Init => TypeOK
<1> SUFFICES ASSUME Init PROVE TypeOK
  OBVIOUS
<1>1. \A f \in Thread : fib[f] \in FiberState
  BY IdleType, SomeMonitorType DEF Init, Thread
<1>2. fib \in [Thread -> FiberState]
  BY <1>1 DEF Init
<1> QED
  BY <1>2, NilType DEF Init, TypeOK

LEMMA RedisExecType ==
  ASSUME TypeOK, NEW f \in Thread, RedisExec(f) PROVE TypeOK'
<1> DEFINE r == fib[f].roid
<1>1. fib[f].rec \in Records /\ r \in Roid /\ redis[r] \in Records
  BY FiberFacts DEF TypeOK
<1>2. fib' \in [Thread -> FiberState]
  <2>1. PICK res \in Records : Answer(f, res)
    BY <1>1, NilType DEF RedisExec
  <2> QED
    BY <2>1, AnswerType DEF TypeOK
<1>3. redis' \in [Roid -> Records]
  BY <1>1, NilType DEF RedisExec, TypeOK
<1> QED
  BY <1>2, <1>3 DEF RedisExec, TypeOK, service, logic

LEMMA WriteRowType ==
  ASSUME TypeOK, NEW h \in Home, NEW r \in Roid, NEW rec \in Record,
         WriteRow(h, r, rec)
  PROVE  /\ mysql' \in [Home -> [Roid -> Rows]]
         /\ stored' \in [Home -> [Roid -> SUBSET Nat]]
<1>1. RowOf(rec) \in Rows /\ rec.ver \in Nat
  BY DEF RowOf, Rows, Row, Record
<1>2. mysql[h] \in [Roid -> Rows] /\ stored[h] \in [Roid -> SUBSET Nat]
  BY DEF TypeOK
<1> QED
  BY <1>1, <1>2 DEF WriteRow, TypeOK

LEMMA MySQLExecType ==
  ASSUME RecordsKnown, NEW f \in Thread, MySQLExec(f) PROVE TypeOK'
<1> DEFINE h == HomeOfFiber(f)
           r == fib[f].roid
<1>1. TypeOK /\ h \in Home /\ r \in Roid /\ mysql[h][r] \in Rows
      /\ fib[f].rec \in Records
  BY FiberFacts DEF RecordsKnown, TypeOK
<1>2. mysql[h][r] # Nil => RecordOf(mysql[h][r], h) \in Records
  BY <1>1 DEF RecordOf, Records, Record, Rows, Row
<1>3. fib' \in [Thread -> FiberState]
  <2>1. PICK res \in Records : Answer(f, res)
    BY <1>1, <1>2, NilType DEF MySQLExec
  <2> QED
    BY <2>1, <1>1, AnswerType DEF TypeOK
<1>4. /\ mysql' \in [Home -> [Roid -> Rows]]
      /\ stored' \in [Home -> [Roid -> SUBSET Nat]]
  <2>1. CASE UNCHANGED <<mysql, stored>>
    BY <2>1, <1>1 DEF TypeOK
  <2>2. CASE /\ WriteRow(h, r, fib[f].rec)
             /\ fib[f].pc \in {"insert", "update"}
    <3>1. fib[f].rec \in Record
      BY <2>2 DEF RecordsKnown, FiberInv, Known
    <3> QED
      BY <3>1, <2>2, <1>1, WriteRowType
  <2> QED
    BY <2>1, <2>2 DEF MySQLExec
<1> QED
  BY <1>1, <1>3, <1>4 DEF MySQLExec, TypeOK, service, logic

(***************************************************************************)
(* No step forgets a row, a version a row has held or, with one home, the  *)
(* owner of a row.                                                         *)
(***************************************************************************)
Kept ==
  \A h \in Home, r \in Roid :
    /\ stored[h][r] \subseteq stored'[h][r]
    /\ mysql[h][r] # Nil =>
         /\ mysql'[h][r] # Nil
         /\ SingleHome => mysql'[h][r].owner = mysql[h][r].owner

LEMMA UnchangedKept == UNCHANGED <<mysql, stored>> => Kept
BY DEF Kept

LEMMA WriteRowKept ==
  ASSUME TypeOK, NEW h \in Home, NEW r \in Roid, NEW rec \in Record,
         WriteRow(h, r, rec),
         mysql[h][r] # Nil /\ SingleHome => rec.owner = mysql[h][r].owner
  PROVE  Kept
<1>1. /\ RowOf(rec) # Nil /\ RowOf(rec).owner = rec.owner
  BY NilAssumption DEF RowOf, Row, Record
<1>2. /\ mysql \in [Home -> [Roid -> Rows]]
      /\ stored \in [Home -> [Roid -> SUBSET Nat]]
  BY DEF TypeOK
<1>3. ASSUME NEW g \in Home, NEW q \in Roid
      PROVE  /\ mysql'[g][q] = IF g = h /\ q = r THEN RowOf(rec)
                                                 ELSE mysql[g][q]
             /\ stored'[g][q] = IF g = h /\ q = r
                                THEN stored[g][q] \cup {rec.ver}
                                ELSE stored[g][q]
  BY <1>2, <1>3 DEF WriteRow
<1> QED
  BY <1>1, <1>3 DEF Kept

LEMMA MySQLExecKept ==
  ASSUME RecordsKnown, NEW f \in Thread, MySQLExec(f) PROVE Kept
<1> DEFINE h == HomeOfFiber(f)
           r == fib[f].roid
<1>1. TypeOK /\ h \in Home /\ r \in Roid
  BY FiberFacts DEF RecordsKnown
<1>2. CASE UNCHANGED <<mysql, stored>>
  BY <1>2, UnchangedKept
<1>3. CASE /\ WriteRow(h, r, fib[f].rec)
           /\ fib[f].pc = "insert" /\ MayInsert(f)
  <2>1. fib[f].rec \in Record /\ mysql[h][r] = Nil
    BY <1>3 DEF RecordsKnown, FiberInv, MayInsert
  <2> QED
    BY <2>1, <1>1, <1>3, WriteRowKept
<1>4. CASE WriteRow(h, r, fib[f].rec) /\ fib[f].pc = "update"
  <2>1. Known(r, fib[f].rec)
    BY <1>4 DEF RecordsKnown, FiberInv
  <2>2. SingleHome => fib[f].rec.home = h
    BY <2>1, <1>1 DEF SingleHome, Known, Record
  <2> QED
    BY <2>1, <2>2, <1>1, <1>4, WriteRowKept DEF Known
<1> QED
  BY <1>2, <1>3, <1>4 DEF MySQLExec

LEMMA KnownKept ==
  ASSUME TypeOK, Kept, NEW r \in Roid, NEW rec, Known(r, rec)
  PROVE  Known(r, rec)'
<1>1. rec.home \in Home
  BY DEF Known, Record
<1> QED
  BY <1>1 DEF Known, Kept, SingleHome

LEMMA FiberKept ==
  ASSUME RecordsKnown, Kept, NEW g \in Thread, fib'[g] = fib[g]
  PROVE  FiberInv(g)'
<1> DEFINE F == fib[g]
<1>1. /\ F \in FiberState /\ F.roid \in Roid /\ F.rec \in Records
      /\ F.res \in Records /\ HomeOfFiber(g) \in Home /\ FiberInv(g)
  BY FiberFacts DEF RecordsKnown
<1>2. \A rec : Known(F.roid, rec) =>
         /\ mysql'[rec.home][F.roid] # Nil
         /\ SingleHome => mysql'[rec.home][F.roid].owner = rec.owner
  BY <1>1 DEF Known, Kept, Record
<1>3. /\ HomeOfFiber(g)' = HomeOfFiber(g)
      /\ IsStored(g) => IsStored(g)'
  BY <1>1 DEF HomeOfFiber, IsStored, Kept
<1>4. /\ Known(F.roid, F.rec) => Known(fib[g].roid, fib[g].rec)'
      /\ Known(F.roid, F.res) => Known(fib[g].roid, fib[g].res)'
  BY <1>2 DEF Known, SingleHome
<1> QED
  BY <1>1, <1>3, <1>4 DEF FiberInv

LEMMA RecordsKept ==
  ASSUME RecordsKnown, Kept, NEW r \in Roid, NEW rec \in Record, Known(r, rec)
  PROVE  Known(r, rec)'
BY KnownKept DEF RecordsKnown

(***************************************************************************)
(* What Send, Reply and Answer leave of a fiber's state.                   *)
(***************************************************************************)
SameRequest(f) ==
  /\ fib'[f].op = fib[f].op /\ fib'[f].roid = fib[f].roid
  /\ fib'[f].user = fib[f].user /\ HomeOfFiber(f)' = HomeOfFiber(f)

OthersSame(f) == \A g \in Thread \ {f} : fib'[g] = fib[g]

LEMMA SendEffect ==
  ASSUME TypeOK, NEW f \in Thread, NEW pc, NEW rec, Send(f, pc, rec)
  PROVE  /\ OthersSame(f) /\ SameRequest(f)
         /\ fib'[f].pc = pc /\ fib'[f].rec = rec /\ fib'[f].res = Nil
         /\ fib'[f].done = FALSE /\ fib'[f].status = fib[f].status
BY DEF TypeOK, FiberState, Send, OthersSame, SameRequest, HomeOfFiber

LEMMA ReplyEffect ==
  ASSUME TypeOK, NEW f \in Thread, NEW status, Reply(f, status)
  PROVE  /\ OthersSame(f) /\ SameRequest(f)
         /\ fib'[f].pc = "replied" /\ fib'[f].rec = fib[f].rec
         /\ fib'[f].res = Nil /\ fib'[f].status = status
BY DEF TypeOK, FiberState, Reply, OthersSame, SameRequest, HomeOfFiber

LEMMA AnswerEffect ==
  ASSUME TypeOK, NEW f \in Thread, NEW res, Answer(f, res)
  PROVE  /\ OthersSame(f) /\ SameRequest(f)
         /\ fib'[f].pc = fib[f].pc /\ fib'[f].rec = fib[f].rec
         /\ fib'[f].res = res /\ fib'[f].status = fib[f].status
BY DEF TypeOK, FiberState, Answer, OthersSame, SameRequest, HomeOfFiber

LEMMA SaveReadyEffect ==
  ASSUME TypeOK, NEW m \in Thread, SaveReady(m)
  PROVE  /\ OthersSame(m) /\ SameRequest(m)
         /\ fib'[m].pc = "next" /\ fib'[m].rec = Nil
         /\ fib'[m].res = Nil /\ fib'[m].status = fib[m].status
BY DEF TypeOK, FiberState, SaveReady, OthersSame, SameRequest, HomeOfFiber

(* A fiber that has nothing under way satisfies its invariant.             *)
LEMMA QuietInv ==
  ASSUME NEW f \in Thread, fib'[f].res = Nil, fib'[f].status # "gs_ok",
         fib'[f].pc \in {"idle", "next", "replied", "get"}
  PROVE  FiberInv(f)'
BY DEF FiberInv

(* It is enough to look at the fiber that moves, and at what a step puts   *)
(* into Redis or into a logic process.                                     *)
LEMMA StepKnown ==
  ASSUME RecordsKnown, Kept, TypeOK', NEW f \in Thread, OthersSame(f),
         FiberInv(f)',
         \A r \in Roid : redis'[r] \notin {Nil, redis[r]} =>
            Known(r, redis[r])',
         \A r \in Roid : online'[r] \notin {Nil, online[r]} =>
            Known(r, online[r])'
  PROVE  RecordsKnown'
<1>1. \A g \in Thread : FiberInv(g)'
  BY FiberKept DEF OthersSame
<1>2. ASSUME NEW r \in Roid
      PROVE  /\ redis'[r] # Nil => Known(r, redis[r])'
             /\ online'[r] # Nil => Known(r, online[r])'
  <2>1. ASSUME NEW rec \in Record, Known(r, rec)
        PROVE  /\ mysql'[rec.home][r] # Nil
               /\ SingleHome => mysql'[rec.home][r].owner = rec.owner
    BY <2>1, RecordsKept DEF Known, SingleHome
  <2>2. ASSUME NEW db \in {redis[r], online[r]}, db # Nil
        PROVE  db \in Record /\ Known(r, db)
    BY <2>2 DEF RecordsKnown, Known
  <2>3. ASSUME NEW db \in {redis[r], online[r]}, db # Nil
        PROVE  /\ db \in Record /\ mysql'[db.home][r] # Nil
               /\ SingleHome => mysql'[db.home][r].owner = db.owner
    BY <2>1, <2>2, <2>3
  <2>4. redis'[r] = redis[r] /\ redis'[r] # Nil => Known(r, redis[r])'
    BY <2>3 DEF Known, SingleHome
  <2>5. online'[r] = online[r] /\ online'[r] # Nil => Known(r, online[r])'
    BY <2>3 DEF Known, SingleHome
  <2> QED
    BY <2>4, <2>5
<1> QED
  BY <1>1, <1>2 DEF RecordsKnown

(***************************************************************************)
(* Every step preserves RecordsKnown.                                      *)
(***************************************************************************)
LEMMA RedisExecKnown ==
  ASSUME RecordsKnown, NEW f \in Thread, RedisExec(f) PROVE RecordsKnown'
<1> DEFINE r == fib[f].roid
<1>1. TypeOK /\ r \in Roid /\ FiberInv(f)
  BY FiberFacts DEF RecordsKnown
<1>2. Kept
  BY UnchangedKept DEF RedisExec
<1>3. TypeOK'
  BY <1>1, RedisExecType
<1>4. /\ fib[f].pc \in RedisPc
      /\ Answer(f, redis[r]) \/ Answer(f, Nil)
      /\ \A q \in Roid :
           \/ redis'[q] \in {redis[q], Nil}
           \/ q = r /\ fib[f].pc = "setnx" /\ redis'[q] = fib[f].rec
      /\ UNCHANGED <<mysql, stored, online>>
  BY <1>1 DEF RedisExec, RedisPc, TypeOK, logic
<1>5. redis[r] # Nil => Known(r, redis[r])
  BY <1>1 DEF RecordsKnown
<1>6. \A rec : Known(r, rec) => /\ mysql'[rec.home][r] # Nil
                                /\ SingleHome =>
                                     mysql'[rec.home][r].owner = rec.owner
  BY <1>4 DEF Known
<1>7. /\ OthersSame(f) /\ SameRequest(f)
      /\ fib'[f].pc = fib[f].pc /\ fib'[f].rec = fib[f].rec
      /\ fib'[f].res # Nil => fib'[f].res = redis[r]
      /\ fib'[f].status = fib[f].status
  <2>1. CASE Answer(f, redis[r])
    BY <2>1, <1>1, AnswerEffect
  <2>2. CASE Answer(f, Nil)
    BY <2>2, <1>1, AnswerEffect
  <2> QED
    BY <2>1, <2>2, <1>4
<1>8. FiberInv(f)'
  <2>1. fib'[f].res # Nil => Known(fib[f].roid, fib[f].res)'
    BY <1>5, <1>6, <1>7 DEF Known, SingleHome, SameRequest
  <2>2. fib[f].pc \in {"setnx", "del"} => Known(fib[f].roid, fib[f].rec)'
    BY <1>1, <1>4, <1>6, <1>7 DEF Known, SingleHome, SameRequest, FiberInv
  <2>3. IsStored(f)' <=> IsStored(f)
    BY <1>4, <1>7 DEF IsStored, SameRequest
  <2> QED
    BY <1>1, <1>4, <1>7, <2>1, <2>2, <2>3
       DEF FiberInv, Busy, RedisPc, SameRequest
<1>9. \A q \in Roid : redis'[q] \notin {Nil, redis[q]} => Known(q, redis[q])'
  <2>1. SUFFICES ASSUME NEW q \in Roid, redis'[q] \notin {Nil, redis[q]}
                 PROVE  Known(q, redis[q])'
    OBVIOUS
  <2>2. q = r /\ redis'[q] = fib[f].rec /\ Known(r, fib[f].rec)
    BY <1>1, <1>4, <2>1 DEF FiberInv, TypeOK
  <2> QED
    BY <2>2, <1>6 DEF Known, SingleHome
<1> QED
  BY <1>2, <1>3, <1>4, <1>7, <1>8, <1>9, StepKnown

LEMMA MySQLExecKnown ==
  ASSUME RecordsKnown, NEW f \in Thread, MySQLExec(f) PROVE RecordsKnown'
<1> DEFINE h == HomeOfFiber(f)
           r == fib[f].roid
           row == mysql[h][r]
<1>1. /\ TypeOK /\ r \in Roid /\ h \in Home /\ FiberInv(f) /\ row \in Rows
      /\ fib[f].rec \in Records
  BY FiberFacts DEF RecordsKnown, TypeOK
<1>2. Kept /\ TypeOK'
  BY MySQLExecKept, MySQLExecType
<1>3. /\ fib[f].pc \in MySQLPc
      /\ \/ fib[f].pc \in {"insert", "update"} /\ WriteRow(h, r, fib[f].rec)
         \/ fib[f].pc = "update" /\ row = Nil
         \/ fib[f].pc \notin {"update"} /\ UNCHANGED <<mysql, stored>>
      /\ \/ Answer(f, Nil)
         \/ /\ Answer(f, fib[f].rec) /\ fib[f].pc = "insert"
            /\ WriteRow(h, r, fib[f].rec)
         \/ /\ Answer(f, RecordOf(row, h)) /\ row # Nil
            /\ fib[f].pc \in {"select", "select_owner"}
            /\ fib[f].pc = "select_owner" => row.owner = fib[f].user
      /\ UNCHANGED <<redis, online>>
  BY DEF MySQLExec, MySQLPc, logic, BelongsTo
<1>4. PICK res \in Records : Answer(f, res)
  <2>1. row # Nil => RecordOf(row, h) \in Records
    BY <1>1 DEF RecordOf, Records, Record, Rows, Row
  <2> QED
    BY <2>1, <1>1, <1>3, NilType
<1>5. /\ OthersSame(f) /\ SameRequest(f)
      /\ fib'[f].pc = fib[f].pc /\ fib'[f].rec = fib[f].rec
      /\ fib'[f].res = res /\ fib'[f].status = fib[f].status
  BY <1>1, <1>4, AnswerEffect
<1>6. WriteRow(h, r, fib[f].rec) /\ fib[f].rec \in Record =>
        /\ mysql'[h][r] # Nil /\ mysql'[h][r].owner = fib[f].rec.owner
        /\ fib[f].rec.ver \in stored'[h][r]
  <2>1. fib[f].rec \in Record => RowOf(fib[f].rec) # Nil
                                 /\ RowOf(fib[f].rec).owner = fib[f].rec.owner
    BY NilAssumption DEF RowOf, Row, Record
  <2>2. /\ mysql \in [Home -> [Roid -> Rows]]
        /\ stored \in [Home -> [Roid -> SUBSET Nat]]
    BY <1>1 DEF TypeOK
  <2> QED
    BY <2>1, <2>2, <1>1 DEF WriteRow

<1>7. res # Nil => Known(fib[f].roid, fib[f].res)'
  <2>1. CASE /\ Answer(f, fib[f].rec) /\ fib[f].pc = "insert"
             /\ WriteRow(h, r, fib[f].rec)
    <3>1. /\ fib'[f].res = fib[f].rec
          /\ fib[f].rec \in Record /\ fib[f].rec.home = h
      BY <2>1, <1>1, AnswerEffect DEF FiberInv
    <3> QED
      BY <3>1, <2>1, <1>5, <1>6 DEF Known, SingleHome, SameRequest
  <2>2. CASE /\ Answer(f, RecordOf(row, h)) /\ row # Nil
             /\ fib[f].pc \in {"select", "select_owner"}
    <3>1. /\ fib'[f].res = RecordOf(row, h)
          /\ RecordOf(row, h) \in Record
          /\ RecordOf(row, h).home = h /\ RecordOf(row, h).owner = row.owner
      BY <2>2, <1>1, AnswerEffect DEF RecordOf, Record, Rows, Row
    <3>2. mysql' = mysql
      BY <2>2, <1>3
    <3> QED
      BY <3>1, <3>2, <2>2, <1>5 DEF Known, SingleHome, SameRequest
  <2>3. CASE Answer(f, Nil)
    BY <2>3, <1>1, <1>5, AnswerEffect
  <2> QED
    BY <2>1, <2>2, <2>3, <1>3
<1>8. fib[f].pc = "update" =>
        /\ Known(fib[f].roid, fib[f].rec)'
        /\ fib[f].op = "unload" => IsStored(f)'
  <2>1. SUFFICES ASSUME fib[f].pc = "update"
                 PROVE  /\ Known(fib[f].roid, fib[f].rec)'
                        /\ fib[f].op = "unload" => IsStored(f)'
    OBVIOUS
  <2>2. Known(r, fib[f].rec) /\ fib[f].rec.home \in Home
    BY <2>1, <1>1 DEF FiberInv, Known, Record
  <2>3. Known(fib[f].roid, fib[f].rec)'
    BY <2>2, <1>1, <1>2, <1>5 DEF Known, Kept, SingleHome, SameRequest
  <2>4. ASSUME fib[f].op = "unload" PROVE IsStored(f)'
    <3>1. fib[f].rec.home = h /\ row # Nil
      BY <2>1, <2>2, <2>4, <1>1 DEF FiberInv, Known
    <3>2. WriteRow(h, r, fib[f].rec)
      BY <3>1, <2>1, <1>3
    <3> QED
      BY <3>2, <2>2, <1>5, <1>6 DEF IsStored, SameRequest, Known
  <2> QED
    BY <2>3, <2>4
<1>9. /\ fib[f].pc = "insert" /\ res # Nil => res = fib[f].rec
      /\ fib[f].pc = "select_owner" /\ res # Nil =>
           res.owner = fib[f].user /\ res.home = h
  <2>1. CASE Answer(f, fib[f].rec) /\ fib[f].pc = "insert"
    BY <2>1, <1>1, <1>5, AnswerEffect
  <2>2. CASE /\ Answer(f, RecordOf(row, h))
             /\ fib[f].pc \in {"select", "select_owner"}
             /\ fib[f].pc = "select_owner" => row.owner = fib[f].user
    BY <2>2, <1>1, <1>5, AnswerEffect DEF RecordOf
  <2>3. CASE Answer(f, Nil)
    BY <2>3, <1>1, <1>5, AnswerEffect
  <2> QED
    BY <2>1, <2>2, <2>3, <1>3
<1>10. FiberInv(f)'
  BY <1>1, <1>3, <1>5, <1>7, <1>8, <1>9 DEF FiberInv, Busy, MySQLPc, SameRequest
<1> QED
  BY <1>2, <1>3, <1>5, <1>10, StepKnown

(* Steps that touch neither the databases nor the logic service.           *)
Local == UNCHANGED <<redis, mysql, stored, online>>

LEMMA LocalKnown ==
  ASSUME RecordsKnown, NEW f \in Thread, Local, OthersSame(f),
         TypeOK', FiberInv(f)'
  PROVE  RecordsKnown'
BY StepKnown, UnchangedKept DEF Local

(* Sending a command whose record is Known, or is about to be inserted.    *)
LEMMA SendKnown ==
  ASSUME RecordsKnown, NEW f \in Thread, NEW pc \in Pcs, NEW rec \in Records,
         Send(f, pc, rec), Local, TypeOK', fib[f].status # "gs_ok",
         \/ /\ pc = "select_owner" /\ rec \in Record
            /\ rec.home = HomeOfFiber(f)
         \/ /\ pc \in {"setnx", "update", "del"} /\ Known(fib[f].roid, rec)
            /\ fib[f].op = "create" /\ pc = "setnx" =>
                 rec.owner = fib[f].user /\ rec.home = HomeOfFiber(f)
            /\ fib[f].op = "unload" \/ pc = "del" =>
                 rec.home = HomeOfFiber(f)
            /\ pc = "del" =>
                 fib[f].op = "unload" /\ rec.ver \in stored[HomeOfFiber(f)][fib[f].roid]
  PROVE  RecordsKnown'
<1>1. /\ OthersSame(f) /\ SameRequest(f)
      /\ fib'[f].pc = pc /\ fib'[f].rec = rec /\ fib'[f].res = Nil
      /\ fib'[f].done = FALSE /\ fib'[f].status = fib[f].status
  BY SendEffect DEF RecordsKnown
<1>2. FiberInv(f)'
  BY <1>1 DEF FiberInv, Known, SingleHome, IsStored, SameRequest, Local
<1> QED
  BY <1>1, <1>2, LocalKnown

(* A reply that is not the good news of a create.                          *)
LEMMA ReplyKnown ==
  ASSUME RecordsKnown, NEW f \in Thread, NEW status \in Status,
         Reply(f, status), Local, TypeOK',
         fib[f].op = "create" => status # "gs_ok"
  PROVE  RecordsKnown'
<1>1. /\ OthersSame(f) /\ SameRequest(f)
      /\ fib'[f].pc = "replied" /\ fib'[f].res = Nil
      /\ fib'[f].status = status
  BY ReplyEffect DEF RecordsKnown
<1>2. FiberInv(f)'
  BY <1>1 DEF FiberInv, SameRequest
<1> QED
  BY <1>1, <1>2, LocalKnown

LEMMA StartKnown ==
  ASSUME RecordsKnown, NEW f \in Fiber, NEW m \in Monitor, NEW op,
         NEW r \in Roid, NEW u \in User, NEW pc \in Pcs, NEW rec \in Records,
         Start(f, m, op, r, u, pc, rec),
         pc \in {"get", "select", "insert"}, pc = "select" => op = "load",
         pc = "insert" => rec \in Record /\ rec.home = HomeOf[m]
                            /\ rec.owner = u
  PROVE  RecordsKnown'
<1>1. f \in Thread /\ TypeOK /\ op \in AllOps /\ Local
  BY MonitorAssumption
     DEF Thread, RecordsKnown, Start, logic, Local
<1> DEFINE G == [op |-> op, mon |-> m, roid |-> r, user |-> u, pc |-> pc,
                 done |-> FALSE, rec |-> rec, res |-> Nil, status |-> "none"]
<1>2. G \in FiberState
  BY <1>1, NilType DEF FiberState, Status
<1>3. fib' = [fib EXCEPT ![f] = G]
  BY DEF Start
<1>4. TypeOK'
  BY <1>1, <1>2, <1>3 DEF Start, TypeOK, service, logic
<1>5. fib'[f] = G /\ OthersSame(f)
  BY <1>1, <1>3 DEF TypeOK, OthersSame
<1>6. FiberInv(f)'
  BY <1>5 DEF FiberInv, HomeOfFiber
<1> QED
  BY <1>1, <1>4, <1>5, <1>6, LocalKnown

LEMMA RequestKnown == ASSUME RecordsKnown, Request PROVE RecordsKnown'
<1> PICK f \in Fiber, m \in Monitor, r \in Roid :
      \/ \E u \in User : CreateRequest(f, m, r, u)
      \/ LoadRequest(f, m, r)
      \/ UnloadRequest(f, m, r)
      \/ FlushRequest(f, m, r)
  BY DEF Request
<1>1. SomeUser \in User /\ Nil \in Records /\ {"get", "select", "insert"} \subseteq Pcs
  BY MonitorAssumption, NilType DEF SomeUser, Pcs, Busy, RedisPc, MySQLPc
<1>2. CASE \E u \in User : CreateRequest(f, m, r, u)
  <2> PICK u \in User : CreateRequest(f, m, r, u)
    BY <1>2
  <2> DEFINE rec == [ver |-> 0, owner |-> u, home |-> HomeOf[m]]
  <2>1. rec \in Record
    BY MonitorAssumption DEF Record
  <2>2. rec \in Records /\ rec.home = HomeOf[m] /\ rec.owner = u
    BY <2>1 DEF Records
  <2>3. Start(f, m, "create", r, u, "insert", rec)
    BY DEF CreateRequest
  <2> QED
    BY <2>1, <2>2, <2>3, <1>1, StartKnown
<1>3. CASE LoadRequest(f, m, r)
  <2>1. Start(f, m, "load", r, SomeUser, "select", Nil)
    BY <1>3 DEF LoadRequest
  <2> QED
    BY <2>1, <1>1, StartKnown
<1>4. CASE UnloadRequest(f, m, r)
  <2>1. Start(f, m, "unload", r, SomeUser, "get", Nil)
    BY <1>4 DEF UnloadRequest
  <2> QED
    BY <2>1, <1>1, StartKnown
<1>5. CASE FlushRequest(f, m, r)
  <2>1. Start(f, m, "flush", r, SomeUser, "get", Nil)
    BY <1>5 DEF FlushRequest
  <2> QED
    BY <2>1, <1>1, StartKnown
<1> QED
  BY <1>2, <1>3, <1>4, <1>5

LEMMA HandlerKnown ==
  ASSUME RecordsKnown, NEW f \in Fiber, Handler(f) PROVE RecordsKnown'
<1> DEFINE r == fib[f].roid
           h == HomeOfFiber(f)
<1>1. /\ TypeOK /\ f \in Thread /\ FiberInv(f) /\ fib[f].mon \in Monitor
      /\ fib[f].roid \in Roid /\ h \in Home
      /\ fib[f].rec \in Records /\ fib[f].res \in Records
      /\ fib \in [Thread -> FiberState]
  <2>1. f \in Thread
    BY DEF Thread
  <2> QED
    BY <2>1, FiberFacts DEF RecordsKnown, TypeOK
<1>2. /\ {"setnx", "select_owner", "update", "del"} \subseteq Pcs
      /\ {"gs_ok", "gs_roid_conflict", "gs_roid_not_found", "gs_role_foreign",
          "gs_role_not_loaded"} \subseteq Status
  BY DEF Pcs, Busy, RedisPc, MySQLPc, Status
<1>3. fib[f].pc # "replied" => fib[f].status # "gs_ok"
  BY <1>1 DEF FiberInv
<1>4. CASE CreateInserted(f)
  <2>1. Local
    BY <1>4 DEF CreateInserted, Local, logic
  <2>2. TypeOK'
    BY <1>1, <1>2, <1>4, SendType
       DEF CreateInserted, TypeOK, service, logic
  <2>3. fib[f].rec \in Record /\ fib[f].rec.home = h
    BY <1>1, <1>4 DEF CreateInserted, Resumed, FiberInv
  <2>4. CASE fib[f].res # Nil
    <3>1. Known(r, fib[f].rec)
      BY <1>1, <1>4, <2>4 DEF CreateInserted, Resumed, FiberInv
    <3>2. fib[f].op = "create" => fib[f].rec.owner = fib[f].user
      BY <1>1, <1>4 DEF CreateInserted, Resumed, FiberInv
    <3> QED
      BY <1>1, <1>2, <1>3, <1>4, <2>1, <2>2, <2>3, <2>4, <3>1, <3>2, SendKnown
         DEF CreateInserted, Resumed
  <2>5. CASE fib[f].res = Nil
    BY <1>1, <1>2, <1>3, <1>4, <2>1, <2>2, <2>3, <2>5, SendKnown
       DEF CreateInserted, Resumed
  <2> QED
    BY <2>4, <2>5
<1>5. CASE CreateSelected(f) \/ LoadSelected(f)
  <2>1. PICK pc \in {"select_owner", "select"},
             missing \in {"gs_roid_conflict", "gs_roid_not_found"} :
               Selected(f, pc, missing)
    BY <1>5 DEF CreateSelected, LoadSelected
  <2>2. Local
    BY <2>1 DEF Selected, Local, logic
  <2>3. TypeOK'
    BY <1>1, <1>2, <2>1, SendType, ReplyType
       DEF Selected, TypeOK, service, logic
  <2>4. CASE fib[f].res = Nil
    BY <1>1, <1>2, <2>1, <2>2, <2>3, <2>4, ReplyKnown DEF Selected
  <2>5. CASE fib[f].res # Nil
    BY <1>1, <1>2, <1>3, <2>1, <2>2, <2>3, <2>5, SendKnown
       DEF Selected, Resumed, FiberInv
  <2> QED
    BY <2>4, <2>5
<1>6. CASE StoredIntoRedis(f)
  <2>1. Local
    BY <1>6 DEF StoredIntoRedis, Local, logic
  <2>2. TypeOK'
    BY <1>1, <1>2, <1>6, ReplyType, TrackType
       DEF StoredIntoRedis, TypeOK, logic
  <2>3. /\ OthersSame(f) /\ SameRequest(f)
        /\ fib'[f].pc = "replied" /\ fib'[f].res = Nil
        /\ fib'[f].rec = fib[f].rec
    BY <1>1, <1>6, ReplyEffect DEF StoredIntoRedis
  <2>4. FiberInv(f)'
    BY <1>1, <1>6, <2>1, <2>3
       DEF FiberInv, StoredIntoRedis, Resumed, SameRequest, Known, SingleHome,
           Local
  <2> QED
    BY <1>1, <2>1, <2>2, <2>3, <2>4, LocalKnown
<1>7. CASE NotLoaded(f)
  <2>1. Local
    BY <1>7 DEF NotLoaded, Local, logic
  <2>2. TypeOK'
    BY <1>1, <1>2, <1>7, ReplyType, TrackType DEF NotLoaded, TypeOK, logic
  <2> QED
    BY <1>1, <1>2, <1>7, <2>1, <2>2, ReplyKnown DEF NotLoaded
<1>8. CASE RefuseForeign(f)
  <2>1. Local
    BY <1>8 DEF RefuseForeign, Local, logic
  <2>2. TypeOK'
    BY <1>1, <1>2, <1>8, ReplyType DEF RefuseForeign, TypeOK, service, logic
  <2> QED
    BY <1>1, <1>2, <1>8, <2>1, <2>2, ReplyKnown DEF RefuseForeign
<1>9. CASE UnloadWrite(f)
  <2>1. Local
    BY <1>9 DEF UnloadWrite, Local, logic
  <2>2. TypeOK'
    BY <1>1, <1>2, <1>9, SendType DEF UnloadWrite, TypeOK, service, logic
  <2>3. Known(r, fib[f].res) /\ fib[f].res.home = h
    BY <1>1, <1>9 DEF UnloadWrite, FiberInv, IsForeign
  <2>4. fib[f].status # "gs_ok" /\ fib[f].op = "unload"
    BY <1>3, <1>9 DEF UnloadWrite, Resumed
  <2> QED
    BY <1>1, <1>2, <1>9, <2>1, <2>2, <2>3, <2>4, SendKnown DEF UnloadWrite
<1>10. CASE UnloadWritten(f)
  <2>1. Local
    BY <1>10 DEF UnloadWritten, Local, logic
  <2>2. TypeOK'
    BY <1>1, <1>2, <1>10, SendType DEF UnloadWritten, TypeOK, service, logic
  <2>3. /\ Known(r, fib[f].rec) /\ fib[f].rec.home = h
        /\ fib[f].rec.ver \in stored[h][r]
    BY <1>1, <1>10 DEF UnloadWritten, Resumed, FiberInv, IsStored
  <2>4. fib[f].status # "gs_ok" /\ fib[f].op = "unload"
    BY <1>3, <1>10 DEF UnloadWritten, Resumed
  <2> QED
    BY <1>1, <1>2, <1>10, <2>1, <2>2, <2>3, <2>4, SendKnown
       DEF UnloadWritten
<1>11. CASE UnloadDeleted(f)
  <2>1. Local
    BY <1>11 DEF UnloadDeleted, Local, logic
  <2>2. TypeOK'
    BY <1>1, <1>2, <1>11, ReplyType, TrackType
       DEF UnloadDeleted, TypeOK, logic
  <2>3. fib[f].op # "create"
    BY <1>1, <1>11 DEF UnloadDeleted, Resumed, FiberInv
  <2> QED
    BY <1>1, <1>2, <1>11, <2>1, <2>2, <2>3, ReplyKnown DEF UnloadDeleted
<1>12. CASE FlushWrite(f)
  <2>1. Local
    BY <1>12 DEF FlushWrite, Local, logic
  <2>2. TypeOK'
    BY <1>1, <1>2, <1>12, SendType, TrackType DEF FlushWrite, TypeOK, logic
  <2>3. Known(r, fib[f].res)
    BY <1>1, <1>12 DEF FlushWrite, FiberInv
  <2>4. fib[f].status # "gs_ok" /\ fib[f].op = "flush"
    BY <1>3, <1>12 DEF FlushWrite, Resumed
  <2> QED
    BY <1>1, <1>2, <1>12, <2>1, <2>2, <2>3, <2>4, SendKnown DEF FlushWrite
<1>13. CASE FlushWritten(f)
  <2>1. Local
    BY <1>13 DEF FlushWritten, Local, logic
  <2>2. TypeOK'
    BY <1>1, <1>2, <1>13, ReplyType DEF FlushWritten, TypeOK, service, logic
  <2> QED
    BY <1>1, <1>2, <1>13, <2>1, <2>2, ReplyKnown DEF FlushWritten
<1>14. CASE Finish(f)
  <2>1. Local
    BY <1>14 DEF Finish, Local, logic
  <2>2. fib' \in [Thread -> FiberState]
    BY <1>1, <1>14, IdleType, SomeMonitorType DEF Finish
  <2>3. fib'[f] = Idle(SomeMonitor) /\ OthersSame(f)
    BY <1>1, <1>14 DEF Finish, OthersSame
  <2>4. FiberInv(f)'
    BY <1>1, <2>3, QuietInv DEF Idle
  <2>5. TypeOK'
    BY <1>1, <1>14, <2>2 DEF Finish, TypeOK, service, logic
  <2> QED
    BY <1>1, <2>1, <2>3, <2>4, <2>5, LocalKnown
<1> QED
  BY <1>4, <1>5, <1>6, <1>7, <1>8, <1>9, <1>10, <1>11, <1>12, <1>13, <1>14
     DEF Handler

LEMMA TimerKnown ==
  ASSUME RecordsKnown, NEW m \in Monitor, Timer(m) PROVE RecordsKnown'
<1> DEFINE r == fib[m].roid
<1>1. /\ TypeOK /\ m \in Thread /\ FiberInv(m) /\ fib[m] \in FiberState
      /\ fib[m].roid \in Roid /\ fib[m].res \in Records
      /\ fib \in [Thread -> FiberState]
  <2>1. m \in Thread
    BY DEF Thread
  <2> QED
    BY <2>1, FiberFacts DEF RecordsKnown, TypeOK
<1>2. {"next", "get", "update"} \subseteq Pcs
  BY DEF Pcs, Busy, RedisPc, MySQLPc
<1>3. fib[m].pc # "replied" => fib[m].status # "gs_ok"
  BY <1>1 DEF FiberInv
<1>4. fib[m].pc \in {"idle", "next"} => fib[m].res = Nil
  BY <1>1 DEF FiberInv, Busy, RedisPc, MySQLPc
<1>5. CASE Tick(m)
  <2>1. Local /\ fib[m].pc = "idle"
    BY <1>5 DEF Tick, Local, logic
  <2>2. PICK b \in SUBSET Round(m) :
          /\ bucket' = [bucket EXCEPT ![m] = b]
          /\ save_buckets' = [save_buckets EXCEPT ![m] = Round(m) \ b]
    BY <1>5 DEF Tick
  <2>3. Round(m) \subseteq Roid
    BY <1>1 DEF Round, TypeOK
  <2> DEFINE G == [fib[m] EXCEPT !.op = "save", !.pc = "next"]
  <2>4. G \in FiberState /\ fib' = [fib EXCEPT ![m] = G]
    BY <1>1, <1>2, <1>5 DEF Tick, FiberState
  <2>5. TypeOK'
    BY <1>1, <1>5, <2>2, <2>3, <2>4 DEF Tick, TypeOK, logic
  <2>6. /\ OthersSame(m) /\ fib'[m].pc = "next"
        /\ fib'[m].res = fib[m].res /\ fib'[m].status = fib[m].status
    BY <1>1, <2>4 DEF OthersSame, FiberState
  <2>7. FiberInv(m)'
    BY <1>1, <1>3, <2>1, <2>6, <1>4, QuietInv DEF FiberInv
  <2> QED
    BY <1>1, <2>1, <2>5, <2>6, <2>7, LocalKnown
<1>6. CASE SaveNext(m)
  <2>1. Local /\ fib[m].pc = "next"
    BY <1>6 DEF SaveNext, Local, logic
  <2>2. PICK q \in bucket[m] :
          /\ bucket' = [bucket EXCEPT ![m] = @ \ {q}]
          /\ fib' = [fib EXCEPT ![m] = [@ EXCEPT !.pc = "get", !.roid = q]]
    BY <1>6 DEF SaveNext
  <2> DEFINE G == [fib[m] EXCEPT !.pc = "get", !.roid = q]
  <2>3. G \in FiberState /\ fib' = [fib EXCEPT ![m] = G]
    BY <1>1, <1>2, <2>2 DEF FiberState, TypeOK
  <2>4. TypeOK'
    BY <1>1, <1>6, <2>2, <2>3 DEF SaveNext, TypeOK, logic
  <2>5. /\ OthersSame(m) /\ fib'[m].pc = "get"
        /\ fib'[m].res = fib[m].res /\ fib'[m].status = fib[m].status
    BY <1>1, <2>3 DEF OthersSame, FiberState
  <2>6. FiberInv(m)'
    BY <1>1, <1>3, <2>1, <2>5, <1>4, QuietInv DEF FiberInv
  <2> QED
    BY <1>1, <2>1, <2>4, <2>5, <2>6, LocalKnown
<1>7. CASE SaveEnd(m)
  <2>1. Local
    BY <1>7 DEF SaveEnd, Local, logic
  <2>2. fib' \in [Thread -> FiberState]
    BY <1>1, <1>7, IdleType DEF SaveEnd
  <2>3. fib'[m] = Idle(m) /\ OthersSame(m)
    BY <1>1, <1>7 DEF SaveEnd, OthersSame
  <2>4. FiberInv(m)'
    BY <1>1, <2>3, QuietInv DEF Idle
  <2>5. TypeOK'
    BY <1>1, <1>7, <2>2 DEF SaveEnd, TypeOK, service, logic
  <2> QED
    BY <1>1, <2>1, <2>3, <2>4, <2>5, LocalKnown
<1>8. CASE SaveGone(m) \/ SaveWritten(m)
  <2>1. Local /\ SaveReady(m) /\ fib[m].pc # "replied"
    BY <1>8 DEF SaveGone, SaveWritten, Resumed, Local, logic
  <2>2. /\ OthersSame(m) /\ fib'[m].pc = "next" /\ fib'[m].res = Nil
        /\ fib'[m].status = fib[m].status
    BY <1>1, <2>1, SaveReadyEffect
  <2>3. FiberInv(m)'
    BY <1>1, <1>3, <2>1, <2>2, QuietInv
  <2>4. TypeOK'
    BY <1>1, <1>8, <2>1, SaveReadyType, TrackType
       DEF SaveGone, SaveWritten, TypeOK, service, logic
  <2> QED
    BY <1>1, <2>1, <2>2, <2>3, <2>4, LocalKnown
<1>9. CASE SaveWrite(m)
  <2>1. Local
    BY <1>9 DEF SaveWrite, Local, logic
  <2>2. TypeOK'
    BY <1>1, <1>2, <1>9, SendType, TrackType DEF SaveWrite, TypeOK, logic
  <2>3. Known(r, fib[m].res)
    BY <1>1, <1>9 DEF SaveWrite, FiberInv
  <2>4. fib[m].status # "gs_ok" /\ fib[m].op = "save"
    BY <1>3, <1>9 DEF SaveWrite, Resumed
  <2> QED
    BY <1>1, <1>2, <1>9, <2>1, <2>2, <2>3, <2>4, SendKnown DEF SaveWrite
<1> QED
  BY <1>5, <1>6, <1>7, <1>8, <1>9 DEF Timer

LEMMA DbErrorKnown ==
  ASSUME RecordsKnown, NEW f \in Thread, DbError(f) PROVE RecordsKnown'
<1>1. TypeOK /\ fib \in [Thread -> FiberState] /\ "exception" \in Status
  BY DEF RecordsKnown, TypeOK, Status
<1>2. Local
  BY DEF DbError, Local, logic
<1>3. CASE f \in Monitor
  <2>1. Idle(f) \in FiberState
    BY <1>3, IdleType
  <2>2. /\ fib' \in [Thread -> FiberState]
        /\ fib'[f] = Idle(f) /\ OthersSame(f)
    BY <2>1, <1>1, <1>3 DEF DbError, OthersSame
  <2>3. FiberInv(f)'
    BY <2>2, QuietInv DEF Idle
  <2>4. TypeOK'
    BY <2>2, <1>1, <1>3 DEF DbError, TypeOK, logic
  <2> QED
    BY <2>2, <2>3, <2>4, <1>2, LocalKnown
<1>4. CASE f \notin Monitor
  <2>1. Reply(f, "exception")
    BY <1>4 DEF DbError
  <2>2. TypeOK'
    BY <2>1, <1>1, <1>4, ReplyType DEF DbError, TypeOK, logic
  <2> QED
    BY <2>1, <2>2, <1>1, <1>2, ReplyKnown
<1> QED
  BY <1>3, <1>4

LEMMA CrashKnown ==
  ASSUME RecordsKnown, NEW m \in Monitor, Crash(m) PROVE RecordsKnown'
<1>1. TypeOK /\ SomeMonitor \in Monitor
  BY SomeMonitorType DEF RecordsKnown
<1>2. Local /\ Kept
  BY UnchangedKept DEF Crash, Local, logic
<1>3. \A f \in Thread : \/ fib'[f] = fib[f]
                        \/ \E n \in Monitor : fib'[f] = Idle(n)
  BY <1>1 DEF Crash
<1>4. fib' \in [Thread -> FiberState]
  <2>1. \A f \in Thread : fib'[f] \in FiberState
    BY <1>1, <1>3, IdleType DEF TypeOK
  <2> QED
    BY <2>1 DEF Crash
<1>5. TypeOK'
  BY <1>1, <1>4 DEF Crash, TypeOK, logic
<1>6. \A f \in Thread : FiberInv(f)'
  <2>1. SUFFICES ASSUME NEW f \in Thread PROVE FiberInv(f)'
    OBVIOUS
  <2>2. CASE fib'[f] = fib[f]
    BY <2>2, <1>2, FiberKept
  <2>3. CASE \E n \in Monitor : fib'[f] = Idle(n)
    BY <2>3, QuietInv DEF Idle
  <2> QED
    BY <2>2, <2>3, <1>3
<1> QED
  BY <1>2, <1>5, <1>6
     DEF RecordsKnown, Local, Known, SingleHome

(* Steps of the logic service, of Redis itself and of the table check.     *)
LEMMA OutsideKnown ==
  ASSUME RecordsKnown,
         UNCHANGED <<mysql, stored, fib, role_records, save_buckets, bucket,
                     faults>>,
         \/ \E m \in Monitor : DbReady(m)
         \/ \E r \in Roid : Expire(r) \/ LogicLogin(r)
         \/ \E r \in Roid, logout \in BOOLEAN : LogicSave(r, logout)
  PROVE  RecordsKnown'
<1>1. TypeOK /\ Kept
  BY UnchangedKept DEF RecordsKnown
<1>2. ASSUME NEW f \in Thread PROVE FiberInv(f)'
  BY <1>1, FiberKept
<1>3. CASE \E m \in Monitor : DbReady(m)
  BY <1>1, <1>2, <1>3
     DEF DbReady, TypeOK, logic, RecordsKnown, Known, SingleHome
<1>4. CASE \E r \in Roid : Expire(r) \/ LogicLogin(r)
  <2>1. TypeOK'
    BY <1>1, <1>4, NilType DEF Expire, LogicLogin, TypeOK, service, logic
  <2>2. \A q \in Roid : /\ redis'[q] \in {redis[q], Nil}
                       /\ online'[q] \in {online[q], redis[q]}
    BY <1>1, <1>4 DEF Expire, LogicLogin, TypeOK, logic
  <2>3. ASSUME NEW q \in Roid
        PROVE  /\ redis'[q] # Nil => Known(q, redis'[q])
               /\ online'[q] # Nil => Known(q, online'[q])
    BY <2>2, <2>3 DEF RecordsKnown
  <2>4. ASSUME NEW q \in Roid
        PROVE  /\ redis'[q] # Nil => Known(q, redis[q])'
               /\ online'[q] # Nil => Known(q, online[q])'
    BY <2>3, <2>4 DEF Known, SingleHome
  <2> QED
    BY <1>2, <2>1, <2>4 DEF RecordsKnown
<1>5. CASE \E r \in Roid, logout \in BOOLEAN : LogicSave(r, logout)
  <2> PICK r \in Roid, logout \in BOOLEAN : LogicSave(r, logout)
    BY <1>5
  <2> DEFINE rec == [online[r] EXCEPT !.ver = clock[r] + 1]
  <2>1. Known(r, online[r]) /\ online[r] \in Record /\ clock[r] \in Nat
    BY <1>1 DEF LogicSave, RecordsKnown, Known, TypeOK
  <2>2. /\ rec \in Record /\ rec.home = online[r].home
        /\ rec.owner = online[r].owner
    BY <2>1 DEF Record
  <2>3. Known(r, rec)
    BY <2>1, <2>2 DEF Known
  <2>4. /\ redis' = [redis EXCEPT ![r] = rec]
        /\ online' = [online EXCEPT ![r] = IF logout THEN Nil ELSE rec]
        /\ clock' = [clock EXCEPT ![r] = @ + 1] /\ UNCHANGED db_ready
    BY DEF LogicSave, service
  <2>5. TypeOK'
    BY <1>1, <2>1, <2>2, <2>4, NilType DEF TypeOK, Records
  <2> QED
    BY <1>1, <1>2, <2>3, <2>4, <2>5
       DEF RecordsKnown, TypeOK, Known, SingleHome
<1> QED
  BY <1>3, <1>4, <1>5

(***************************************************************************)
(* The theorems.                                                           *)
(***************************************************************************)
LEMMA InitKnown == Init => RecordsKnown
<1> SUFFICES ASSUME Init PROVE RecordsKnown
  OBVIOUS
<1>1. TypeOK
  BY InitType
<1>2. \A f \in Thread : FiberInv(f)
  <2> SUFFICES ASSUME NEW f \in Thread PROVE FiberInv(f)
    OBVIOUS
  <2>1. PICK m \in Monitor : fib[f] = Idle(m)
    BY SomeMonitorType DEF Init, Thread
  <2>2. fib[f].pc = "idle" /\ fib[f].res = Nil /\ fib[f].status = "none"
    BY <2>1 DEF Idle
  <2> QED
    BY <2>2 DEF FiberInv
<1> QED
  BY <1>1, <1>2 DEF RecordsKnown, Init

LEMMA NextKnown == RecordsKnown /\ [Next]_vars => RecordsKnown'
<1> SUFFICES ASSUME RecordsKnown, [Next]_vars PROVE RecordsKnown'
  OBVIOUS
<1>1. CASE Request
  BY <1>1, RequestKnown
<1>2. CASE \E f \in Thread : Server(f) \/ DbError(f)
  BY <1>2, RedisExecKnown, MySQLExecKnown, DbErrorKnown DEF Server
<1>3. CASE \E f \in Fiber : Handler(f)
  BY <1>3, HandlerKnown
<1>4. CASE \E m \in Monitor : DbReady(m)
  BY <1>4, OutsideKnown DEF DbReady
<1>5. CASE \E m \in Monitor : Timer(m)
  BY <1>5, TimerKnown
<1>6. CASE \E m \in Monitor : Crash(m)
  BY <1>6, CrashKnown
<1>7. CASE \E r \in Roid : Expire(r) \/ LogicLogin(r)
  BY <1>7, OutsideKnown DEF Expire, LogicLogin, service
<1>8. CASE \E r \in Roid, logout \in BOOLEAN : LogicSave(r, logout)
  BY <1>8, OutsideKnown DEF LogicSave, service
<1>9. CASE UNCHANGED vars
  <2>1. /\ UNCHANGED <<redis, mysql, db_ready, role_records, save_buckets>>
        /\ UNCHANGED <<bucket, fib, online, clock, stored, faults>>
    BY <1>9 DEF vars, service, logic
  <2>2. TypeOK'
    BY <2>1 DEF RecordsKnown, TypeOK
  <2>3. \A f \in Thread : FiberInv(f)'
    BY <2>1, UnchangedKept, FiberKept
  <2> QED
    BY <2>1, <2>2, <2>3 DEF RecordsKnown, Known, SingleHome
<1> QED
  BY <1>1, <1>2, <1>3, <1>4, <1>5, <1>6, <1>7, <1>8, <1>9 DEF Next

(* Every record there is has a row in the table of its home, and a fiber   *)
(* of unload that deletes has written the very version it deletes.         *)
THEOREM KnownAlways == Spec => []RecordsKnown
BY InitKnown, NextKnown, PTL DEF Spec

(* Every variable keeps its type, through failures and restarts.           *)
THEOREM TypeAlways == Spec => []TypeOK
<1>1. RecordsKnown => TypeOK
  BY DEF RecordsKnown
<1> QED
  BY <1>1, KnownAlways, PTL

(* Unload deletes from Redis only what its own table has held.             *)
THEOREM DeletedWasStoredAlways == Spec => []DeletedWasStored
<1>1. RecordsKnown => DeletedWasStored
  <2> SUFFICES ASSUME RecordsKnown, NEW f \in Fiber, fib[f].pc = "del"
               PROVE  /\ fib[f].rec.home = HomeOfFiber(f)
                      /\ fib[f].rec.ver \in stored[HomeOfFiber(f)][fib[f].roid]
    BY DEF DeletedWasStored
  <2>1. FiberInv(f)
    BY DEF RecordsKnown, Thread
  <2> QED
    BY <2>1 DEF FiberInv, IsStored
<1> QED
  BY <1>1, KnownAlways, PTL

(* With one home, a role whose creation was acknowledged belongs to the    *)
(* user who asked for it.                                                  *)
THEOREM CreatedIsOwnedAlways ==
  ASSUME SingleHome PROVE Spec => []CreatedIsOwned
<1>1. RecordsKnown => CreatedIsOwned
  <2> SUFFICES ASSUME RecordsKnown, NEW f \in Fiber, fib[f].op = "create",
                      fib[f].status = "gs_ok"
               PROVE  LET row == mysql[HomeOfFiber(f)][fib[f].roid]
                      IN  row # Nil /\ row.owner = fib[f].user
    BY DEF CreatedIsOwned
  <2>1. FiberInv(f)
    BY DEF RecordsKnown, Thread
  <2> QED
    BY <2>1 DEF FiberInv, Known
<1> QED
  BY <1>1, KnownAlways, PTL

=============================================================================
