----------------------------- MODULE ChatService -----------------------------
(***************************************************************************)
(* The chat service (k32/chat/static): threads of messages, cached in      *)
(* memory, loaded from MySQL when they are asked for, written back one     *)
(* bucket at a time by a timer, and dropped when nothing has been appended *)
(* for a while.  A client polls it for the messages since its last check.  *)
(*                                                                         *)
(* Time is counted in ticks, several to a millisecond: the timestamps of   *)
(* messages are truncated to milliseconds, the check_time that a client is *)
(* given and the update_time of a thread are not.  Several things may      *)
(* happen in one tick.                                                     *)
(***************************************************************************)
EXTENDS Naturals, Sequences, FiniteSets

CONSTANTS
  Key,         \* keys of threads
  List,        \* the thread_key_list that the client polls
  Fiber,       \* fibers that append messages
  Poller,      \* the fiber that answers the client
  Timer,       \* the fiber of the save timer
  Max,         \* max_number_of_messages_per_thread
  Slack,       \* how many more a cached thread may hold (200)
  Ttl,         \* cached_thread_ttl
  MaxMessage,  \* bound: messages
  MaxTime,     \* bound: ticks
  Ms,          \* the tick at which the millisecond of each tick begins
  MaxFault,    \* bound: failed statements and crashes
  None         \* no thread, no row

ASSUME ChatAssumption ==
  /\ Key # {} /\ List \in Seq(Key)
  /\ Poller # Timer /\ Poller \notin Fiber /\ Timer \notin Fiber
  /\ Max \in Nat \ {0} /\ Slack \in Nat /\ Ttl \in Nat
  /\ MaxMessage \in Nat /\ MaxTime \in Nat /\ MaxFault \in Nat
  /\ Ms \in [0..MaxTime -> 0..MaxTime]
  /\ \A t \in 0..MaxTime : /\ Ms[t] <= t /\ Ms[Ms[t]] = Ms[t]
                            /\ \A u \in t..MaxTime : Ms[t] <= Ms[u]

Message    == [time : Nat, id : Nat]
ChatThread == [update_time : Nat, messages : Seq(Message)]

ASSUME NoneAssumption == None \notin ChatThread

VARIABLES
  db_ready,     \* the table has been checked
  chat_threads, \* the cached threads, or None
  save_buckets, \* threads still to be written in this round
  bucket,       \* the rest of the bucket the timer is working on
  fib,          \* the state of every fiber
  mysql,        \* table `chat`: the row of each thread, or None
  now,          \* the clock
  last,         \* the last_check_time of the client
  seen,         \* the messages that the client has been sent
  overtaken,    \* history: the messages of a millisecond in which the client
                \* had been answered before they were appended
  appended,     \* the messages of each thread, less what a crash has lost
  count,        \* the number of messages so far
  faults        \* failed statements and crashes so far

client  == <<last, seen>>
history == <<count, appended, overtaken>>
vars    == <<db_ready, chat_threads, save_buckets, bucket, fib, mysql,
             now, client, history, faults>>

Process == Fiber \cup {Poller, Timer}
Rows    == ChatThread \cup {None}
Pcs     == {"idle", "select", "replace", "table", "round", "next"}

(* key and pos say which thread the fiber works on (pos: the place of the  *)
(* key in List); row is what SELECT has found or REPLACE writes, and since  *)
(* is when the statement was sent.                                         *)
FiberState == [pc : Pcs, key : Key, pos : Nat, row : Rows, since : Nat,
               done : BOOLEAN]

TypeOK ==
  /\ db_ready \in BOOLEAN
  /\ chat_threads \in [Key -> Rows]
  /\ save_buckets \subseteq Key /\ bucket \subseteq Key
  /\ fib \in [Process -> FiberState]
  /\ mysql \in [Key -> Rows]
  /\ now \in 0..MaxTime /\ last \in 0..MaxTime
  /\ \A k \in Key :
       /\ chat_threads[k] # None =>
            Len(chat_threads[k].messages) <= Max + Slack + 1
       /\ mysql[k] # None => Len(mysql[k].messages) <= Max
  /\ seen \subseteq Message /\ overtaken \subseteq Message
  /\ appended \in [Key -> SUBSET Message]
  /\ count \in Nat /\ faults \in Nat

Idle == [pc |-> "idle", key |-> CHOOSE k \in Key : TRUE, pos |-> 0,
         row |-> None, since |-> 0, done |-> FALSE]

Init ==
  /\ db_ready = FALSE
  /\ chat_threads = [k \in Key |-> None]
  /\ save_buckets = {} /\ bucket = {}
  /\ fib = [f \in Process |-> Idle]
  /\ mysql = [k \in Key |-> None]
  /\ now = 0 /\ last = 0 /\ seen = {} /\ overtaken = {}
  /\ appended = [k \in Key |-> {}]
  /\ count = 0 /\ faults = 0

(***************************************************************************)
(* Threads and fibers.                                                     *)
(***************************************************************************)
Cached(k) == chat_threads[k] # None
Elems(s)  == {s[i] : i \in DOMAIN s}

(* Only the newest n messages are kept.                                    *)
Newest(messages, n) ==
  IF Len(messages) <= n THEN messages
  ELSE SubSeq(messages, Len(messages) - n + 1, Len(messages))

Query(f, pc, k, pos, row) ==
  fib' = [fib EXCEPT ![f] = [pc |-> pc, key |-> k, pos |-> pos, row |-> row,
                             since |-> now, done |-> FALSE]]
Resumed(f, pc) == fib[f].pc = pc /\ fib[f].done
End(f)         == fib' = [fib EXCEPT ![f] = Idle]

(* MySQL executes a statement at some moment of the yield.                 *)
MySQLExec(f) ==
  LET k == fib[f].key IN
  /\ ~fib[f].done
  /\ \/ /\ fib[f].pc = "select"
        /\ fib' = [fib EXCEPT ![f] = [@ EXCEPT !.done = TRUE,
                                               !.row = mysql[k]]]
        /\ UNCHANGED mysql
     \/ /\ fib[f].pc = "replace"
        /\ mysql' = [mysql EXCEPT ![k] = fib[f].row]
        /\ fib' = [fib EXCEPT ![f] = [@ EXCEPT !.done = TRUE]]
  /\ UNCHANGED <<db_ready, chat_threads, save_buckets, bucket, now, client,
                 history, faults>>

(***************************************************************************)
(* chat/thread/check_multi.                                                *)
(***************************************************************************)
(* upper_bound() compares pairs: (last_check_time, "") is less than every  *)
(* message of the same time, so that these are sent as well.               *)
IsLater(m, t)   == m.time > t
IsUnread(m, t)  == m.time >= t

Unread(cache) ==
  UNION {{m \in Elems(cache[k].messages) : IsUnread(m, last)} :
            k \in {k \in Elems(List) : cache[k] # None}}

(* Every thread that is not cached is loaded, one after another; then the  *)
(* messages of the threads that are cached by now are copied.              *)
CheckFrom(from, cache) ==
  LET missing == {i \in from..Len(List) : cache[List[i]] = None} IN
  /\ chat_threads' = cache
  /\ IF missing = {}
     THEN /\ End(Poller)
          /\ seen' = seen \cup Unread(cache)
          /\ last' = now  \* not truncated
     ELSE /\ \E i \in missing :
               /\ \A j \in missing : i <= j
               /\ Query(Poller, "select", List[i], i, None)
          /\ UNCHANGED client

Check ==
  /\ db_ready /\ fib[Poller].pc = "idle"
  /\ CheckFrom(1, chat_threads)
  /\ UNCHANGED <<db_ready, save_buckets, bucket, mysql, now, history, faults>>

(* try_emplace() changes nothing if the thread has been cached meanwhile.  *)
Emplace(k, row) ==
  IF row = None \/ Cached(k) THEN chat_threads
  ELSE [chat_threads EXCEPT ![k] = row]

CheckLoaded ==
  /\ Resumed(Poller, "select")
  /\ CheckFrom(fib[Poller].pos + 1, Emplace(fib[Poller].key, fib[Poller].row))
  /\ UNCHANGED <<db_ready, save_buckets, bucket, mysql, now, history, faults>>

(***************************************************************************)
(* chat/thread/append.                                                     *)
(***************************************************************************)
NewThread == [update_time |-> now, messages |-> <<>>]

NeverFull(messages) == FALSE
IsFull(messages)    == Len(messages) > Max + Slack

(* The client has been answered in this very millisecond, after it began.  *)
IsOvertaken == Ms[last] = Ms[now] /\ Ms[now] < last

AppendTo(k, thread) ==
  LET m    == [time |-> Ms[now], id |-> count + 1]
      kept == IF IsFull(thread.messages) THEN Newest(thread.messages, Max)
                                         ELSE thread.messages
  IN
  /\ chat_threads' =
       [chat_threads EXCEPT ![k] = [update_time |-> now,
                                    messages |-> Append(kept, m)]]
  /\ count' = count + 1
  /\ appended' = [appended EXCEPT ![k] = @ \cup {m}]
  /\ overtaken' = IF IsOvertaken THEN overtaken \cup {m} ELSE overtaken

AppendCached(k) ==
  /\ db_ready /\ count < MaxMessage /\ Cached(k)
  /\ AppendTo(k, chat_threads[k])
  /\ UNCHANGED <<db_ready, save_buckets, bucket, fib, mysql, now, client,
                 faults>>

AppendLoad(f, k) ==
  /\ db_ready /\ fib[f].pc = "idle" /\ count < MaxMessage /\ ~Cached(k)
  /\ Query(f, "select", k, 0, None)
  /\ UNCHANGED <<db_ready, chat_threads, save_buckets, bucket, mysql, now,
                 client, history, faults>>

(* Another fiber may have loaded the thread, and appended to it.           *)
NoConflict(k)   == FALSE
LoadConflict(k) == Cached(k)

AppendLoaded(f) ==
  LET k == fib[f].key IN
  /\ Resumed(f, "select") /\ count < MaxMessage
  /\ AppendTo(k, IF LoadConflict(k) THEN chat_threads[k]
                 ELSE IF fib[f].row # None THEN fib[f].row ELSE NewThread)
  /\ End(f)
  /\ UNCHANGED <<db_ready, save_buckets, bucket, mysql, now, client, faults>>

(***************************************************************************)
(* The save timer.                                                         *)
(***************************************************************************)
TimerStart ==
  /\ fib[Timer].pc = "idle"
  /\ fib' = [fib EXCEPT ![Timer].pc = IF db_ready THEN "round" ELSE "table"]
  /\ UNCHANGED <<db_ready, chat_threads, save_buckets, bucket, mysql, now,
                 client, history, faults>>

TableChecked ==
  /\ fib[Timer].pc = "table"
  /\ fib' = [fib EXCEPT ![Timer].pc = "round"]
  /\ db_ready' = TRUE
  /\ UNCHANGED <<chat_threads, save_buckets, bucket, mysql, now, client,
                 history, faults>>

(* One bucket is popped; the buckets of a new round hold what is cached.   *)
(* An empty bucket is popped without effect unless nothing else is left.   *)
NothingNew == save_buckets
Round      == IF save_buckets = {} THEN {k \in Key : Cached(k)}
                                   ELSE save_buckets

PopBucket ==
  /\ fib[Timer].pc = "round"
  /\ \E b \in SUBSET Round :
       /\ b = {} => Round = {}
       /\ bucket' = b /\ save_buckets' = Round \ b
  /\ fib' = [fib EXCEPT ![Timer].pc = "next"]
  /\ UNCHANGED <<db_ready, chat_threads, mysql, now, client, history, faults>>

(* A thread that has not changed for long leaves the cache.  The cached    *)
(* copy of one that stays is not truncated.  (A thread in a bucket is      *)
(* cached: only the timer drops threads, each at most once in a round.)    *)
ForTooLong(thread) == now - thread.update_time > Ttl

SaveThread(k) ==
  LET thread == chat_threads[k] IN
  /\ fib[Timer].pc = "next" /\ k \in bucket /\ Cached(k)
  /\ bucket' = bucket \ {k}
  /\ chat_threads' = [chat_threads EXCEPT ![k] =
                        IF ForTooLong(thread) THEN None ELSE thread]
  /\ Query(Timer, "replace", k, 0,
           [thread EXCEPT !.messages = Newest(thread.messages, Max)])
  /\ UNCHANGED <<db_ready, save_buckets, mysql, now, client, history, faults>>

ThreadSaved ==
  /\ Resumed(Timer, "replace")
  /\ fib' = [fib EXCEPT ![Timer] = [Idle EXCEPT !.pc = "next"]]
  /\ UNCHANGED <<db_ready, chat_threads, save_buckets, bucket, mysql, now,
                 client, history, faults>>

SaveEnd ==
  /\ fib[Timer].pc = "next" /\ bucket = {}
  /\ End(Timer)
  /\ UNCHANGED <<db_ready, chat_threads, save_buckets, bucket, mysql, now,
                 client, history, faults>>

(***************************************************************************)
(* The world.                                                              *)
(***************************************************************************)
IsSaved(k) ==
  /\ mysql[k] # None
  /\ Elems(Newest(chat_threads[k].messages, Max)) \subseteq
       Elems(mysql[k].messages)

(* cached_thread_ttl is at least ten minutes and a round takes about four: *)
(* a changed thread is saved, and a statement answered, before a thread    *)
(* can be said to be unchanged for so long.                                *)
Tick ==
  /\ now < MaxTime
  /\ \A k \in Key : Cached(k) /\ ~IsSaved(k) =>
                       now < chat_threads[k].update_time + Ttl
  /\ \A f \in Process : fib[f].pc \in {"select", "replace"} =>
                           now < fib[f].since + Ttl
  /\ now' = now + 1
  /\ UNCHANGED <<db_ready, chat_threads, save_buckets, bucket, fib, mysql,
                 client, history, faults>>

(* A statement fails, executed or not: the exception ends the request, or  *)
(* the callback of the timer with what it had left to do.                  *)
DbError(f) ==
  /\ fib[f].pc \in {"select", "replace", "table"} /\ faults < MaxFault
  /\ faults' = faults + 1
  /\ End(f)
  /\ bucket' = IF f = Timer THEN {} ELSE bucket
  /\ UNCHANGED <<db_ready, chat_threads, save_buckets, mysql, now, client,
                 history>>

(* A thread has received so many messages since that this one may be gone. *)
IsOld(received, m) == Cardinality({n \in received : n.id > m.id}) >= Max

(* A crash loses what has not been saved.                                  *)
Crash ==
  /\ faults < MaxFault
  /\ faults' = faults + 1
  /\ db_ready' = FALSE
  /\ chat_threads' = [k \in Key |-> None]
  /\ save_buckets' = {} /\ bucket' = {}
  /\ fib' = [f \in Process |-> Idle]
  /\ appended' = [k \in Key |-> {m \in appended[k] :
                     /\ mysql[k] # None /\ m \in Elems(mysql[k].messages)
                     /\ ~IsOld(appended[k], m)}]
  /\ UNCHANGED <<mysql, now, client, count, overtaken>>

TimerStep ==
  \/ TimerStart \/ TableChecked \/ PopBucket \/ ThreadSaved \/ SaveEnd
  \/ \E k \in Key : SaveThread(k)

Next ==
  \/ Check \/ CheckLoaded
  \/ \E k \in Key : AppendCached(k) \/ \E f \in Fiber : AppendLoad(f, k)
  \/ \E f \in Fiber : AppendLoaded(f)
  \/ TimerStep
  \/ \E f \in Process : MySQLExec(f) \/ DbError(f)
  \/ Tick \/ Crash

Spec == Init /\ [][Next]_vars

(* MySQL answers, the timer ticks, and fibers are resumed.                 *)
FairSpec ==
  /\ Spec
  /\ \A f \in Process : WF_vars(MySQLExec(f))
  /\ \A f \in Fiber : WF_vars(AppendLoaded(f))
  /\ WF_vars(CheckLoaded) /\ WF_vars(TimerStep)

(***************************************************************************)
(* Properties.                                                             *)
(***************************************************************************)
Polled == {k \in Key : \E i \in DOMAIN List : List[i] = k}

(* A client that polls with the check_time of the previous answer misses   *)
(* exactly the messages that its check_time has overtaken: those appended  *)
(* after an answer in the same millisecond, whose timestamp is the start   *)
(* of that millisecond.  It gets all others, also when threads are dropped *)
(* from the cache and loaded again, and statements fail.                   *)
MissesOnlyOvertaken ==
  fib[Poller].pc = "idle" =>
    \A k \in Polled : \A m \in appended[k] :
      m.time < last /\ ~IsOld(appended[k], m) =>
        (m \in seen <=> m \notin overtaken)

(* A message that has been appended is written to MySQL, although threads  *)
(* are loaded by several fibers at a time and dropped from the cache.      *)
SavedEventually ==
  \A k \in Key, i \in 1..MaxMessage :
    (\E m \in appended[k] : m.id = i) ~>
      (\A m \in appended[k] : m.id = i =>
         \/ IsOld(appended[k], m)
         \/ mysql[k] # None /\ m \in Elems(mysql[k].messages))

(***************************************************************************)
(* Why they hold: the inductive invariant.                                 *)
(***************************************************************************)
(* A copy of a thread, in the cache, in MySQL or in a statement under way,  *)
(* has its messages in their order; and whatever follows a message that a  *)
(* crash has not lost has not been lost either.                            *)
InOrder(received, ids, row) ==
  row # None =>
    \A i, j \in 1..Len(row.messages) :
      /\ row.messages[i].id <= ids
      /\ i < j => /\ row.messages[i].id < row.messages[j].id
                  /\ row.messages[i] \in received =>
                       row.messages[j] \in received

(* A copy that lacks no messages but old ones.                             *)
Complete(received, row) ==
  \A m \in received :
    (row # None /\ m \in Elems(row.messages)) \/ IsOld(received, m)

(* The timer is writing this thread; the thread of a fiber has been        *)
(* appended to since the fiber sent its statement.                         *)
Writing(k) ==
  fib[Timer].pc = "replace" /\ ~fib[Timer].done /\ fib[Timer].key = k

AppendedSince(f) ==
  /\ Cached(fib[f].key)
  /\ chat_threads[fib[f].key].update_time >= fib[f].since

(* Only the timer writes, and only the others read; no row is longer than  *)
(* a thread may be.                                                        *)
FiberInv ==
  /\ \A f \in Process :
       /\ fib[f].pc \in IF f = Timer
                        THEN {"idle", "table", "round", "next", "replace"}
                        ELSE {"idle", "select"}
       /\ fib[f].row # None => Len(fib[f].row.messages) <= Max
       /\ InOrder(appended[fib[f].key], count, fib[f].row)
       /\ fib[f].since <= now
       /\ fib[f].pc \in {"select", "replace"} => now <= fib[f].since + Ttl
  /\ fib[Poller].pc = "select" =>
       /\ fib[Poller].pos \in DOMAIN List
       /\ fib[Poller].key = List[fib[Poller].pos]

HistoryInv ==
  /\ last <= now
  /\ \A k \in Key :
       /\ IsFiniteSet(appended[k])
       /\ \A m \in appended[k] : m.id <= count

(* A thread in the cache is complete.  The row is complete, or else the    *)
(* thread is in the cache and too young to be dropped.                     *)
CacheInv ==
  \A k \in Key :
    /\ InOrder(appended[k], count, chat_threads[k])
    /\ InOrder(appended[k], count, mysql[k])
    /\ Cached(k) => Complete(appended[k], chat_threads[k])
    /\ \/ Complete(appended[k], mysql[k])
       \/ Cached(k) /\ now <= chat_threads[k].update_time + Ttl

(* A row that is about to be written is complete, unless the thread has    *)
(* been appended to since, and so will not be dropped before the write.    *)
WriteInv ==
  \A k \in Key : Writing(k) => \/ Complete(appended[k], fib[Timer].row)
                               \/ AppendedSince(Timer)

(* What a fiber reads is complete, unless it will find the thread in the   *)
(* cache.                                                                  *)
SelectInv ==
  \A f \in Process \ {Timer} :
    fib[f].pc = "select" =>
      LET k == fib[f].key IN
      \/ AppendedSince(f)
      \/ fib[f].done /\ Complete(appended[k], fib[f].row)
      \/ /\ ~fib[f].done /\ Complete(appended[k], mysql[k])
         /\ Writing(k) => Complete(appended[k], fib[Timer].row)

Inv == TypeOK /\ FiberInv /\ HistoryInv /\ CacheInv /\ WriteInv /\ SelectInv

(* MissesOnlyOvertaken, also while the client is being answered.           *)
SeenInv ==
  /\ \A k \in Polled : \A m \in appended[k] :
       m.time < last => m \in seen \cup overtaken \/ IsOld(appended[k], m)
  /\ \A m \in overtaken : m.time < last /\ m \notin seen
  /\ \A m \in seen : m.id <= count

=============================================================================
