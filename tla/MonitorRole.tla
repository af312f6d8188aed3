----------------------------- MODULE MonitorRole -----------------------------
(***************************************************************************)
(* The role service of the monitor processes (k32/monitor/static): it      *)
(* moves role records between the `role` table of a MySQL database and     *)
(* Redis, on request (create, load, unload, flush) and from a timer that   *)
(* periodically writes the roles it tracks back.                           *)
(*                                                                         *)
(* Every request runs in a fiber of its own and the timer callback in      *)
(* another.  Fibers are cooperative: a fiber runs alone until it yields on *)
(* a database command, so the code between two yields is one action here.  *)
(* The command itself is executed by the server at some moment of the      *)
(* yield (RedisExec, MySQLExec) and the fiber goes on later (the Resume    *)
(* actions): anything may happen before, between and after the two.        *)
(*                                                                         *)
(* A record's contents are a version: 0 for a role that was created and    *)
(* never saved, then one number per save by the logic service, so that two *)
(* different contents never have the same version.                         *)
(***************************************************************************)
EXTENDS Naturals, FiniteSets

CONSTANTS
  Roid,        \* role identifiers
  User,        \* users who own roles
  Home,        \* (host name, MySQL URI) pairs: one `role` table each
  Monitor,     \* monitor processes; each also names its timer fiber
  Fiber,       \* fibers that handle requests
  HomeOf,      \* the home of each monitor
  Ops,         \* the requests that clients send in this instance
  SaveTimer,   \* whether the save timer runs in this instance
  MaxVersion,  \* bound: saves of one role by the logic service
  MaxFault,    \* bound: crashes of monitor processes and failed commands
  Expiry,      \* whether a key's time to live may run out
  Nil          \* no record, no row

AllOps == {"create", "load", "unload", "flush"}

ASSUME MonitorAssumption ==
  /\ Roid # {} /\ User # {} /\ Monitor # {}
  /\ HomeOf \in [Monitor -> Home]
  /\ Fiber \cap Monitor = {}
  /\ Ops \subseteq AllOps
  /\ SaveTimer \in BOOLEAN
  /\ Expiry \in BOOLEAN
  /\ MaxVersion \in Nat /\ MaxFault \in Nat

(* A row of the `role` table, and a Role_Record as serialized into Redis.  *)
Row    == [ver : Nat, owner : User]
Rows   == Row \cup {Nil}
Record == [ver : Nat, owner : User, home : Home]
Records == Record \cup {Nil}

ASSUME NilAssumption == Nil \notin Row /\ Nil \notin Record

VARIABLES
  redis,        \* the key "<app>/role/<roid>" of each role
  mysql,        \* the `role` table of each home
  db_ready,     \* Implementation::db_ready of each monitor
  role_records, \* the keys of Implementation::role_records
  save_buckets, \* roles still to be written in this round of save_buckets
  bucket,       \* the rest of the bucket the timer callback is working on
  fib,          \* the state of every fiber
  online,       \* the record a logic process holds of each role, or Nil
  clock,        \* the number of saves of each role so far
  stored,       \* history: the versions each table row has ever held
  faults        \* the number of crashes and failed commands so far

service == <<db_ready, role_records, save_buckets, bucket>>
logic   == <<online, clock>>
vars    == <<redis, mysql, service, fib, logic, stored, faults>>

Thread == Fiber \cup Monitor

RedisPc == {"get", "setnx", "del"}
MySQLPc == {"insert", "select_owner", "select", "update"}
Status  == {"none", "gs_ok", "gs_roid_conflict", "gs_roid_not_found",
            "gs_role_not_loaded", "gs_role_foreign", "exception"}

Busy == RedisPc \cup MySQLPc
Pcs  == Busy \cup {"idle", "next", "replied"}

(* op, mon, roid and user are the request; pc names the command the fiber  *)
(* waits for, or where it is; done says that the server has executed the   *)
(* command, with the result res; rec is the local `roinfo`.                *)
FiberState ==
  [op : AllOps \cup {"none", "save"}, mon : Monitor, roid : Roid,
   user : User, pc : Pcs, done : BOOLEAN,
   rec : Records, res : Records, status : Status]

TypeOK ==
  /\ redis \in [Roid -> Records]
  /\ mysql \in [Home -> [Roid -> Rows]]
  /\ db_ready \in [Monitor -> BOOLEAN]
  /\ role_records \in [Monitor -> SUBSET Roid]
  /\ save_buckets \in [Monitor -> SUBSET Roid]
  /\ bucket \in [Monitor -> SUBSET Roid]
  /\ fib \in [Thread -> FiberState]
  /\ online \in [Roid -> Records]
  /\ clock \in [Roid -> Nat]
  /\ stored \in [Home -> [Roid -> SUBSET Nat]]
  /\ faults \in Nat

(* Mutant: the home columns are written too. *)
RowWithHome(rec)  == rec
RowOf(rec)        == [ver |-> rec.ver, owner |-> rec.owner]
RecordOf(row, h)  == [ver |-> row.ver, owner |-> row.owner, home |-> h]
HomeOfFiber(f)    == HomeOf[fib[f].mon]
SomeMonitor       == CHOOSE m \in Monitor : TRUE
SomeRoid          == CHOOSE r \in Roid : TRUE
SomeUser          == CHOOSE u \in User : TRUE
Idle(m) ==
  [op |-> "none", mon |-> m, roid |-> SomeRoid, user |-> SomeUser,
   pc |-> "idle", done |-> FALSE, rec |-> Nil, res |-> Nil,
   status |-> "none"]

Init ==
  /\ redis = [r \in Roid |-> Nil]
  /\ mysql = [h \in Home |-> [r \in Roid |-> Nil]]
  /\ db_ready = [m \in Monitor |-> FALSE]
  /\ role_records = [m \in Monitor |-> {}]
  /\ save_buckets = [m \in Monitor |-> {}]
  /\ bucket = [m \in Monitor |-> {}]
  /\ fib = [f \in Thread |-> IF f \in Monitor THEN Idle(f)
                                              ELSE Idle(SomeMonitor)]
  /\ online = [r \in Roid |-> Nil]
  /\ clock = [r \in Roid |-> 0]
  /\ stored = [h \in Home |-> [r \in Roid |-> {}]]
  /\ faults = 0

(***************************************************************************)
(* How a fiber moves.                                                      *)
(***************************************************************************)
(* The fiber sends the command of `pc` with `rec` and yields.              *)
Send(f, pc, rec) ==
  fib' = [fib EXCEPT ![f] = [@ EXCEPT !.pc = pc, !.rec = rec,
                                      !.done = FALSE, !.res = Nil]]

Reply(f, status) ==
  fib' = [fib EXCEPT ![f] = [@ EXCEPT !.pc = "replied", !.status = status,
                                      !.done = FALSE, !.res = Nil]]

(* The fiber has been resumed with the result of the command of `pc`.      *)
Resumed(f, pc) == fib[f].pc = pc /\ fib[f].done

Track(m, r)   == role_records' = [role_records EXCEPT ![m] = @ \cup {r}]
Untrack(m, r) == role_records' = [role_records EXCEPT ![m] = @ \ {r}]

(***************************************************************************)
(* The database servers.                                                   *)
(***************************************************************************)
Answer(f, res) ==
  fib' = [fib EXCEPT ![f] = [@ EXCEPT !.done = TRUE, !.res = res]]

(* Mutants: SET without NX; DEL without comparing; a comparison that never *)
(* succeeds.                                                               *)
SetAlways(f)      == TRUE
DeleteAlways(f)   == TRUE
DeleteNever(f)    == FALSE

(* What SET .. NX and the script redis_delete_if_unchanged look at.        *)
MaySet(f)      == redis[fib[f].roid] = Nil
IsUnchanged(f) == redis[fib[f].roid] = fib[f].rec

(* GET; SET .. NX GET, which answers the old value; the EVAL script, which *)
(* answers nil when it has deleted the key (or found none).                *)
RedisExec(f) ==
  LET r == fib[f].roid IN
  /\ ~fib[f].done
  /\ \/ /\ fib[f].pc = "get"
        /\ Answer(f, redis[r])
        /\ UNCHANGED redis
     \/ /\ fib[f].pc = "setnx"
        /\ Answer(f, redis[r])
        /\ redis' = [redis EXCEPT ![r] = IF MaySet(f) THEN fib[f].rec ELSE @]
     \/ /\ fib[f].pc = "del" /\ IsUnchanged(f)
        /\ Answer(f, Nil)
        /\ redis' = [redis EXCEPT ![r] = Nil]
     \/ /\ fib[f].pc = "del" /\ ~IsUnchanged(f)
        /\ Answer(f, redis[r])
        /\ UNCHANGED redis
  /\ UNCHANGED <<mysql, service, logic, stored, faults>>

WriteRow(h, r, rec) ==
  /\ mysql' = [mysql EXCEPT ![h][r] = RowOf(rec)]
  /\ stored' = [stored EXCEPT ![h][r] = @ \cup {rec.ver}]

(* Mutants: REPLACE instead of INSERT IGNORE; SELECT without the username. *)
ReplaceRow(f)         == TRUE
BelongsToAny(f, u)    == TRUE

(* INSERT IGNORE answers a record when it has inserted the row.            *)
MayInsert(f)    == mysql[HomeOfFiber(f)][fib[f].roid] = Nil
BelongsTo(f, u) == mysql[HomeOfFiber(f)][fib[f].roid].owner = u

(* INSERT IGNORE, the two SELECTs by primary key, and UPDATE, which writes *)
(* an existing row only.                                                   *)
MySQLExec(f) ==
  LET h   == HomeOfFiber(f)
      r   == fib[f].roid
      row == mysql[h][r]
  IN
  /\ ~fib[f].done
  /\ \/ /\ fib[f].pc = "insert" /\ MayInsert(f)
        /\ WriteRow(h, r, fib[f].rec)
        /\ Answer(f, fib[f].rec)
     \/ /\ fib[f].pc = "insert" /\ ~MayInsert(f)
        /\ Answer(f, Nil)
        /\ UNCHANGED <<mysql, stored>>
     \/ /\ fib[f].pc = "select_owner"
        /\ Answer(f, IF row # Nil /\ BelongsTo(f, fib[f].user)
                     THEN RecordOf(row, h) ELSE Nil)
        /\ UNCHANGED <<mysql, stored>>
     \/ /\ fib[f].pc = "select"
        /\ Answer(f, IF row # Nil THEN RecordOf(row, h) ELSE Nil)
        /\ UNCHANGED <<mysql, stored>>
     \/ /\ fib[f].pc = "update" /\ row # Nil
        /\ WriteRow(h, r, fib[f].rec)
        /\ Answer(f, Nil)
     \/ /\ fib[f].pc = "update" /\ row = Nil
        /\ Answer(f, Nil)
        /\ UNCHANGED <<mysql, stored>>
  /\ UNCHANGED <<redis, service, logic, faults>>

(* A key that no logic process refreshes expires.                          *)
Expire(r) ==
  /\ Expiry /\ redis[r] # Nil /\ online[r] = Nil
  /\ redis' = [redis EXCEPT ![r] = Nil]
  /\ UNCHANGED <<mysql, service, fib, logic, stored, faults>>

(***************************************************************************)
(* monitor/role/create and monitor/role/load.                              *)
(***************************************************************************)
(* Requests are refused before the tables have been checked.  The command  *)
(* a request begins with, and the record it begins with.                   *)
Start(f, m, op, r, u, pc, rec) ==
  /\ op \in Ops /\ db_ready[m] /\ fib[f].pc = "idle"
  /\ fib' = [fib EXCEPT ![f] =
               [op |-> op, mon |-> m, roid |-> r, user |-> u, pc |-> pc,
                done |-> FALSE, rec |-> rec, res |-> Nil, status |-> "none"]]
  /\ UNCHANGED <<redis, mysql, service, logic, stored, faults>>

CreateRequest(f, m, r, u) ==
  Start(f, m, "create", r, u, "insert",
        [ver |-> 0, owner |-> u, home |-> HomeOf[m]])

LoadRequest(f, m, r) == Start(f, m, "load", r, SomeUser, "select", Nil)

(* A create whose row already exists still loads the role when it belongs  *)
(* to the same user, which makes the request retryable.                    *)
CreateInserted(f) ==
  /\ Resumed(f, "insert")
  /\ IF fib[f].res # Nil THEN Send(f, "setnx", fib[f].rec)
                         ELSE Send(f, "select_owner", fib[f].rec)
  /\ UNCHANGED <<redis, mysql, service, logic, stored, faults>>

Selected(f, pc, missing) ==
  /\ Resumed(f, pc)
  /\ IF fib[f].res = Nil THEN Reply(f, missing)
                         ELSE Send(f, "setnx", fib[f].res)
  /\ UNCHANGED <<redis, mysql, service, logic, stored, faults>>

CreateSelected(f) == Selected(f, "select_owner", "gs_roid_conflict")
LoadSelected(f)   == Selected(f, "select", "gs_roid_not_found")

(* The record that Redis already had, if any, is the one that counts.      *)
StoredIntoRedis(f) ==
  /\ Resumed(f, "setnx")
  /\ Reply(f, "gs_ok")
  /\ Track(fib[f].mon, fib[f].roid)
  /\ UNCHANGED <<redis, mysql, db_ready, save_buckets, bucket, logic,
                 stored, faults>>

(***************************************************************************)
(* monitor/role/unload and monitor/role/flush.                             *)
(***************************************************************************)
UnloadRequest(f, m, r) == Start(f, m, "unload", r, SomeUser, "get", Nil)
FlushRequest(f, m, r)  == Start(f, m, "flush", r, SomeUser, "get", Nil)

(* Mutant: the home of a record is not looked at. *)
NeverForeign(f) == FALSE
IsForeign(f) == fib[f].res.home # HomeOfFiber(f)

NotLoaded(f) ==
  /\ Resumed(f, "get") /\ fib[f].op \in {"unload", "flush"}
  /\ fib[f].res = Nil
  /\ Untrack(fib[f].mon, fib[f].roid)
  /\ Reply(f, "gs_role_not_loaded")
  /\ UNCHANGED <<redis, mysql, db_ready, save_buckets, bucket, logic,
                 stored, faults>>

(* The record belongs to another server: it is not ours to write back.     *)
RefuseForeign(f) ==
  /\ \/ Resumed(f, "get") /\ fib[f].op \in {"unload", "flush"}
     \/ Resumed(f, "del")
  /\ fib[f].res # Nil /\ IsForeign(f)
  /\ Reply(f, "gs_role_foreign")
  /\ UNCHANGED <<redis, mysql, service, logic, stored, faults>>

(* Mutant: the record is deleted without having been written back. *)
UnloadUnwritten(f) ==
  /\ fib[f].op = "unload"
  /\ Resumed(f, "get") \/ Resumed(f, "del")
  /\ fib[f].res # Nil /\ ~IsForeign(f)
  /\ Send(f, "del", fib[f].res)
  /\ UNCHANGED <<redis, mysql, service, logic, stored, faults>>

(* The body of the do-while loop of unload up to the UPDATE: entered with  *)
(* the value of GET, and again with the value that the script answers      *)
(* when it has changed meanwhile.                                          *)
UnloadWrite(f) ==
  /\ fib[f].op = "unload"
  /\ Resumed(f, "get") \/ Resumed(f, "del")
  /\ fib[f].res # Nil /\ ~IsForeign(f)
  /\ Send(f, "update", fib[f].res)
  /\ UNCHANGED <<redis, mysql, service, logic, stored, faults>>

UnloadWritten(f) ==
  /\ fib[f].op = "unload" /\ Resumed(f, "update")
  /\ Send(f, "del", fib[f].rec)
  /\ UNCHANGED <<redis, mysql, service, logic, stored, faults>>

UnloadDeleted(f) ==
  /\ Resumed(f, "del") /\ fib[f].res = Nil
  /\ Untrack(fib[f].mon, fib[f].roid)
  /\ Reply(f, "gs_ok")
  /\ UNCHANGED <<redis, mysql, db_ready, save_buckets, bucket, logic,
                 stored, faults>>

FlushWrite(f) ==
  /\ fib[f].op = "flush" /\ Resumed(f, "get")
  /\ fib[f].res # Nil /\ ~IsForeign(f)
  /\ Track(fib[f].mon, fib[f].roid)
  /\ Send(f, "update", fib[f].res)
  /\ UNCHANGED <<redis, mysql, db_ready, save_buckets, bucket, logic,
                 stored, faults>>

FlushWritten(f) ==
  /\ fib[f].op = "flush" /\ Resumed(f, "update")
  /\ Reply(f, "gs_ok")
  /\ UNCHANGED <<redis, mysql, service, logic, stored, faults>>

(* The response has been handed to the caller.                             *)
Finish(f) ==
  /\ fib[f].pc = "replied"
  /\ fib' = [fib EXCEPT ![f] = Idle(SomeMonitor)]
  /\ UNCHANGED <<redis, mysql, service, logic, stored, faults>>

(***************************************************************************)
(* The save timer.  Its fiber is named after the monitor.                  *)
(***************************************************************************)
(* The first tick checks the tables; no role can be tracked before it.     *)
DbReady(m) ==
  /\ ~db_ready[m] /\ fib[m].pc = "idle"
  /\ db_ready' = [db_ready EXCEPT ![m] = TRUE]
  /\ UNCHANGED <<redis, mysql, role_records, save_buckets, bucket, fib,
                 logic, stored, faults>>

(* A tick arranges the tracked roles into buckets when the last round is   *)
(* over, and pops one bucket.  Ticks that pop an empty bucket do nothing.  *)
(* Mutant: the buckets are arranged once and never again. *)
OnlyOldRound(m) == save_buckets[m]
Round(m) == IF save_buckets[m] = {} THEN role_records[m]
                                    ELSE save_buckets[m]

Tick(m) ==
  /\ SaveTimer /\ db_ready[m] /\ fib[m].pc = "idle"
  /\ \E b \in (SUBSET Round(m)) \ {{}} :
       /\ bucket' = [bucket EXCEPT ![m] = b]
       /\ save_buckets' = [save_buckets EXCEPT ![m] = Round(m) \ b]
  /\ fib' = [fib EXCEPT ![m] = [@ EXCEPT !.op = "save", !.pc = "next"]]
  /\ UNCHANGED <<redis, mysql, db_ready, role_records, logic, stored, faults>>

(* The callback is ready for the next role of its bucket.                  *)
SaveReady(m) ==
  fib' = [fib EXCEPT ![m] = [@ EXCEPT !.pc = "next", !.rec = Nil,
                                      !.done = FALSE, !.res = Nil]]

SaveNext(m) ==
  /\ fib[m].pc = "next"
  /\ \E r \in bucket[m] :
       /\ bucket' = [bucket EXCEPT ![m] = @ \ {r}]
       /\ fib' = [fib EXCEPT ![m] = [@ EXCEPT !.pc = "get", !.roid = r]]
  /\ UNCHANGED <<redis, mysql, db_ready, role_records, save_buckets, logic,
                 stored, faults>>

SaveEnd(m) ==
  /\ fib[m].pc = "next" /\ bucket[m] = {}
  /\ fib' = [fib EXCEPT ![m] = Idle(m)]
  /\ UNCHANGED <<redis, mysql, service, logic, stored, faults>>

SaveGone(m) ==
  /\ fib[m].op = "save" /\ Resumed(m, "get") /\ fib[m].res = Nil
  /\ Untrack(m, fib[m].roid)
  /\ SaveReady(m)
  /\ UNCHANGED <<redis, mysql, db_ready, save_buckets, bucket, logic,
                 stored, faults>>

(* Unlike the request handlers, the timer does not look at the home.       *)
SaveWrite(m) ==
  /\ fib[m].op = "save" /\ Resumed(m, "get") /\ fib[m].res # Nil
  /\ Track(m, fib[m].roid)
  /\ Send(m, "update", fib[m].res)
  /\ UNCHANGED <<redis, mysql, db_ready, save_buckets, bucket, logic,
                 stored, faults>>

SaveWritten(m) ==
  /\ fib[m].op = "save" /\ Resumed(m, "update")
  /\ SaveReady(m)
  /\ UNCHANGED <<redis, mysql, service, logic, stored, faults>>

(***************************************************************************)
(* The process, and the logic service that works on the roles in Redis.    *)
(***************************************************************************)
(* A crash loses the memory of the process and its fibers.  A command that *)
(* was sent has either been executed before the crash or is lost.          *)
Crash(m) ==
  /\ faults < MaxFault
  /\ faults' = faults + 1
  /\ db_ready' = [db_ready EXCEPT ![m] = FALSE]
  /\ role_records' = [role_records EXCEPT ![m] = {}]
  /\ save_buckets' = [save_buckets EXCEPT ![m] = {}]
  /\ bucket' = [bucket EXCEPT ![m] = {}]
  /\ fib' = [f \in Thread |->
               IF f = m THEN Idle(m)
               ELSE IF f \in Fiber /\ fib[f].mon = m /\ fib[f].pc # "idle"
                    THEN Idle(SomeMonitor) ELSE fib[f]]
  /\ UNCHANGED <<redis, mysql, logic, stored>>

(* A command fails, whether or not the server has executed it: the         *)
(* exception ends the handler, or the timer callback with its bucket.      *)
DbError(f) ==
  /\ fib[f].pc \in Busy /\ faults < MaxFault
  /\ faults' = faults + 1
  /\ IF f \in Monitor
     THEN /\ fib' = [fib EXCEPT ![f] = Idle(f)]
          /\ bucket' = [bucket EXCEPT ![f] = {}]
     ELSE /\ Reply(f, "exception")
          /\ UNCHANGED bucket
  /\ UNCHANGED <<redis, mysql, db_ready, role_records, save_buckets, logic,
                 stored>>

(* logic/role/login reads the record from Redis.                           *)
LogicLogin(r) ==
  /\ online[r] = Nil /\ redis[r] # Nil
  /\ online' = [online EXCEPT ![r] = redis[r]]
  /\ UNCHANGED <<redis, mysql, service, fib, clock, stored, faults>>

(* A save by the logic service: it overwrites whatever Redis holds.  The   *)
(* save of a logout is the last one.                                       *)
LogicSave(r, logout) ==
  LET rec == [online[r] EXCEPT !.ver = clock[r] + 1] IN
  /\ online[r] # Nil /\ clock[r] < MaxVersion
  /\ clock' = [clock EXCEPT ![r] = @ + 1]
  /\ redis' = [redis EXCEPT ![r] = rec]
  /\ online' = [online EXCEPT ![r] = IF logout THEN Nil ELSE rec]
  /\ UNCHANGED <<mysql, service, fib, stored, faults>>

Request ==
  \E f \in Fiber, m \in Monitor, r \in Roid :
    \/ \E u \in User : CreateRequest(f, m, r, u)
    \/ LoadRequest(f, m, r)
    \/ UnloadRequest(f, m, r)
    \/ FlushRequest(f, m, r)

Server(f) == RedisExec(f) \/ MySQLExec(f)

Handler(f) ==
  \/ CreateInserted(f) \/ CreateSelected(f) \/ LoadSelected(f)
  \/ StoredIntoRedis(f) \/ NotLoaded(f) \/ RefuseForeign(f)
  \/ UnloadWrite(f) \/ UnloadWritten(f) \/ UnloadDeleted(f)
  \/ FlushWrite(f) \/ FlushWritten(f) \/ Finish(f)

Timer(m) ==
  \/ Tick(m) \/ SaveNext(m) \/ SaveEnd(m)
  \/ SaveGone(m) \/ SaveWrite(m) \/ SaveWritten(m)

Next ==
  \/ Request
  \/ \E f \in Thread : Server(f) \/ DbError(f)
  \/ \E f \in Fiber : Handler(f)
  \/ \E m \in Monitor : DbReady(m) \/ Timer(m) \/ Crash(m)
  \/ \E r \in Roid : Expire(r) \/ LogicLogin(r)
  \/ \E r \in Roid, logout \in BOOLEAN : LogicSave(r, logout)

Spec == Init /\ [][Next]_vars

(* Database servers answer, a fiber whose command was answered is resumed, *)
(* and the timer keeps ticking.  Nothing makes requests, saves, expiries   *)
(* or faults happen.                                                      *)
Fairness ==
  /\ \A f \in Thread : WF_vars(Server(f))
  /\ \A f \in Fiber : WF_vars(Handler(f))
  /\ \A m \in Monitor : WF_vars(DbReady(m)) /\ WF_vars(Timer(m))

FairSpec == Spec /\ Fairness

(***************************************************************************)
(* Properties.                                                             *)
(***************************************************************************)
(* No save is lost: the newest version that a logic process has saved of a *)
(* role is in Redis or in a table.  It is what unload verifies the value   *)
(* on Redis for before deleting it, and it is only as good as the other    *)
(* writers of the row let it be.                                           *)
Recoverable ==
  \A r \in Roid : clock[r] > 0 =>
    \/ redis[r] # Nil /\ redis[r].ver = clock[r]
    \/ \E h \in Home : mysql[h][r] # Nil /\ mysql[h][r].ver = clock[r]

(* Unload asks Redis to delete a record only after its own table has held  *)
(* that very version: the UPDATE before it has found a row, in the home of *)
(* the record and not in another one.                                      *)
DeletedWasStored ==
  \A f \in Fiber : fib[f].pc = "del" =>
    /\ fib[f].rec.home = HomeOfFiber(f)
    /\ fib[f].rec.ver \in stored[HomeOfFiber(f)][fib[f].roid]

(* Two users never both learn that they have created the same role, for as *)
(* long as there is one home: the row of a role whose creation was         *)
(* acknowledged is owned by the user who asked, through retries and        *)
(* through every write-back.                                               *)
CreatedIsOwned ==
  \A f \in Fiber : fib[f].op = "create" /\ fib[f].status = "gs_ok" =>
    LET row == mysql[HomeOfFiber(f)][fib[f].roid] IN
    row # Nil /\ row.owner = fib[f].user

(* Creating or loading a role that Redis still holds, maybe after a crash, *)
(* never makes the table go back to an older version, neither directly nor *)
(* through the save timer: create and load never replace what is there.    *)
RowNeverGoesBack ==
  [][\A h \in Home, r \in Roid :
       mysql[h][r] # Nil =>
         mysql'[h][r] # Nil /\ mysql'[h][r].ver >= mysql[h][r].ver]_mysql

(* A login never gets an old role: whatever create and load put into       *)
(* Redis, on top of what, and however they are repeated, the record that   *)
(* is there is the last that a logic process has saved.                    *)
FreshInRedis ==
  \A r \in Roid : redis[r] # Nil => redis[r].ver = clock[r]

(* Every request is replied to: the loop of unload ends once the logic     *)
(* service stops saving the role.                                          *)
Replied == \A f \in Fiber : fib[f].pc # "idle" ~> fib[f].pc = "idle"

(* What a monitor tracks is written back: a version in Redis reaches the   *)
(* table, or something newer does, or the role is not tracked any more.    *)
(* A bucket lost to a failed command is made up for by a later round.      *)
SavedEventually ==
  \A m \in Monitor, r \in Roid, v \in 0..MaxVersion :
    (r \in role_records[m] /\ redis[r] # Nil /\ redis[r].ver = v) ~>
      \/ mysql[HomeOf[m]][r] # Nil /\ mysql[HomeOf[m]][r].ver >= v
      \/ r \notin role_records[m]

(***************************************************************************)
(* Why they hold: the inductive invariant.                                 *)
(***************************************************************************)
SingleHome == \A g, h \in Home : g = h

(* The record of a role has a row in its home, and (when foreign records   *)
(* cannot be mistaken for one's own) the row has the same owner.           *)
Known(r, rec) ==
  /\ rec \in Record
  /\ mysql[rec.home][r] # Nil
  /\ SingleHome => mysql[rec.home][r].owner = rec.owner

IsStored(f) ==
  fib[f].rec.ver \in stored[HomeOfFiber(f)][fib[f].roid]

FiberInv(f) ==
  /\ fib[f].pc = "select" => fib[f].op = "load"
  /\ fib[f].pc = "del" => fib[f].op = "unload"
  /\ fib[f].pc \notin Busy => fib[f].res = Nil
  /\ fib[f].pc \in {"insert", "select_owner"} =>
       fib[f].rec \in Record /\ fib[f].rec.home = HomeOfFiber(f)
  /\ fib[f].pc \in {"setnx", "update", "del"} => Known(fib[f].roid, fib[f].rec)
  /\ fib[f].res # Nil => Known(fib[f].roid, fib[f].res)
  /\ fib[f].pc = "insert" /\ fib[f].res # Nil => fib[f].res = fib[f].rec
  /\ fib[f].op = "unload" /\ fib[f].pc = "update" =>
       /\ fib[f].rec.home = HomeOfFiber(f)
       /\ fib[f].done => IsStored(f)
  /\ fib[f].pc = "del" =>
       fib[f].rec.home = HomeOfFiber(f) /\ IsStored(f)
  /\ fib[f].op = "create" /\ fib[f].pc \in {"insert", "setnx"} =>
       fib[f].rec.owner = fib[f].user /\ fib[f].rec.home = HomeOfFiber(f)
  /\ fib[f].pc = "select_owner" /\ fib[f].res # Nil =>
       fib[f].res.owner = fib[f].user /\ fib[f].res.home = HomeOfFiber(f)
  /\ fib[f].status = "gs_ok" => fib[f].pc = "replied"
  /\ fib[f].op = "create" /\ fib[f].status = "gs_ok" =>
       /\ Known(fib[f].roid, fib[f].rec)
       /\ fib[f].rec.owner = fib[f].user
       /\ fib[f].rec.home = HomeOfFiber(f)

(* Every record there is, in Redis, in a logic process or in a fiber, is   *)
(* known to its table, so that no UPDATE of it can miss.                   *)
RecordsKnown ==
  /\ TypeOK
  /\ \A r \in Roid : /\ redis[r] # Nil => Known(r, redis[r])
                     /\ online[r] # Nil => Known(r, online[r])
  /\ \A f \in Thread : FiberInv(f)

(* Which commands a fiber may wait for.  Only unload, flush and the timer  *)
(* GET a record to write it back, and a create inserts a record that was   *)
(* never saved.                                                            *)
PlaceInv(f) ==
  /\ f \in Monitor =>
       /\ fib[f].mon = f /\ fib[f].pc \in {"idle", "next", "get", "update"}
       /\ ~SaveTimer => fib[f].pc = "idle"
  /\ f \in Fiber =>
       /\ fib[f].pc # "next"
       /\ fib[f].pc \in {"get", "update", "del"} =>
            fib[f].op \in Ops \cap {"unload", "flush"}
  /\ fib[f].pc = "insert" => fib[f].rec.ver = 0

(* No record and no row is newer than the last save of its role.           *)
IsSaved(r, rec) == rec # Nil => rec.ver <= clock[r]

CarriesRecord == {"insert", "select_owner", "setnx", "update", "del"}

CarriesSaved(f) ==
  /\ IsSaved(fib[f].roid, fib[f].res)
  /\ fib[f].pc \in CarriesRecord => IsSaved(fib[f].roid, fib[f].rec)

VersionInv ==
  /\ \A f \in Thread : PlaceInv(f) /\ CarriesSaved(f)
  /\ \A r \in Roid : IsSaved(r, redis[r])
  /\ \A h \in Home, r \in Roid : IsSaved(r, mysql[h][r])

(* Nothing takes a role out of Redis, and one timer writes to a table.     *)
StaysInRedis ==
  /\ Ops \subseteq {"create", "load"} /\ ~Expiry
  /\ \A m, n \in Monitor : HomeOf[m] = HomeOf[n] => m = n

(* Redis then always has the last save, so that what the timer has read is *)
(* never older than the row it is about to write.                          *)
HasLastSave(r) ==
  /\ redis[r] = Nil => clock[r] = 0 /\ online[r] = Nil
  /\ redis[r] # Nil => redis[r].ver = clock[r]

TimerInv(m) ==
  LET row == mysql[HomeOf[m]][fib[m].roid] IN
  row # Nil =>
    /\ fib[m].res # Nil => row.ver <= fib[m].res.ver
    /\ fib[m].pc = "update" => row.ver <= fib[m].rec.ver

RowInv ==
  /\ \A r \in Roid : HasLastSave(r)
  /\ \A m \in Monitor : TimerInv(m)

(* One request at a time, and nobody else who writes rows or deletes keys. *)
OneWriter == (\A f, g \in Fiber : f = g) /\ ~SaveTimer /\ ~Expiry

(* The record is at least as new as the row in its home.                   *)
IsUpToDate(r, rec) == mysql[rec.home][r].ver <= rec.ver

(* A fiber that writes back holds a version between that of the row and    *)
(* that of the key; once it has written it, the row has the version that   *)
(* it will ask Redis to delete.                                            *)
WriteBackInv(f) ==
  /\ fib[f].res # Nil => IsUpToDate(fib[f].roid, fib[f].res)
  /\ fib[f].pc \in {"setnx", "update", "del"} =>
       IsUpToDate(fib[f].roid, fib[f].rec)
  /\ fib[f].pc = "update" => fib[f].rec.home = HomeOfFiber(f)
  /\ redis[fib[f].roid] # Nil =>
       /\ fib[f].pc \in {"get", "del"} /\ fib[f].res # Nil =>
            fib[f].res.ver <= redis[fib[f].roid].ver
       /\ fib[f].pc = "update" => fib[f].rec.ver <= redis[fib[f].roid].ver
  /\ fib[f].pc = "del" \/ (fib[f].pc = "update" /\ fib[f].done) =>
       mysql[HomeOfFiber(f)][fib[f].roid].ver = fib[f].rec.ver

RecoverInv ==
  /\ \A r \in Roid : redis[r] # Nil => IsUpToDate(r, redis[r])
  /\ \A f \in Fiber : WriteBackInv(f)
  /\ Recoverable

=============================================================================
