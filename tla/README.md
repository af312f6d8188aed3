# Verification of k32

TLA+ models of the game server framework k32, model-checked with TLC, and
theorems about them that the TLA+ proof system checks. Paths are relative to
`src/`.

Contents: [inventory](#1-the-system), [modules and code](#2-modules-and-code),
[runs](#3-runs), [proofs](#4-proofs), [what the code does not do](#5-where-code-and-comments-disagree),
[what is not modelled](#6-what-is-not-modelled), [plan](#7-plan).

## 1. The system

k32 is four kinds of processes around one Redis server and some MySQL databases.

```
 client --ws--> agent --rpc--> logic --rpc--> monitor --> MySQL (`role`)
                  |  \___rpc____/|               |
                  |              `---> Redis <---'   <app>/role/<roid>
                  `--> MySQL (`user`, `nickname`), Redis <app>/user/<name>
 others  --rpc--> chat --> MySQL (`chat`)
```

**How a process runs.** Every request, client event and timer callback is a
fiber. Fibers of a process are cooperative and run on one thread: between two
`fiber.yield()`s a handler runs alone, and during a yield anything may happen.
Database commands and remote calls are sent by other threads and over pooled
connections, so commands of different fibers have no order. The events of one
client session are handled in order; the callbacks of one timer do not overlap.
That is what the modules take as atomic: **one action is the code between two
yields, and executing a command is an action of its own**, done by the server at
some moment of the yield, before the fiber is resumed.

| component | state | operations | what makes it correct |
|---|---|---|---|
| monitor role service (`k32/monitor/static/role_service.cpp`) | `role_records`, `save_buckets`, `db_ready`; the `role` table; the role's key in Redis | `monitor/role/list, create, load, unload, flush`, save timer | no save is lost; a record leaves Redis only when its row has it; one owner per role |
| logic role service (`k32/logic/static/role_service.cpp`) | `hyd_roles`: role objects with `mf_agent_srv`, `mf_dc_since` | `logic/role/login, logout, reconnect, disconnect`, client requests, save timer | one object per role; changes reach Redis; roles of absent users are logged out, and the timer decides so for no others |
| virtual clock (`k32/logic/static/virtual_clock.cpp`) | an offset | set the offset, broken-down time | arithmetic |
| agent: users (`k32/agent/static/user_service.cpp`) | `users`, `connections`, sessions; the user's key in Redis and row in MySQL | open, close, kick, ban, lift, ping timer, check_user timer | a user is on at most one agent; connections agree with sessions; a user who is banned is not let in |
| agent: roles (same file) | `current_roid`, `current_logic_srv`, `cached_raw_avatars` of a connection | `+role/create, login, logout`, welcome, `check_roles` | one role at a time; no role stays connected when its user has gone |
| agent: nicknames, relays (same file) | `nickname` table, relay configuration | acquire, release, push, relay | a nickname has one owner |
| chat service (`k32/chat/static/chat_service.cpp`) | `chat_threads`, `save_buckets`; the `chat` table | `chat/thread/check_multi, append`, save timer | a polling client misses no message but those of its check's own millisecond; messages are saved |
| remote calls (`k32/common/static/service.cpp`) | `remote_services`, `remote_connections` with weak futures | launch, the two WebSocket callbacks, publish and subscribe timers | a future completes exactly when every target has answered or failed, and nobody waits for ever |
| HTTP requestor (`k32/common/static/http_requestor.cpp`) | sessions and a queue of futures per host | enqueue, response and close callbacks | every request gets its own response or an error |

**Hard behaviours.** State read before a yield and used after it (nearly every
handler); the same record written by several processes; callbacks that are cut
short by an exception; processes that restart without their maps; sessions that
end while they are being opened, or are replaced; answers that arrive late. There
are no timeouts on remote calls in this code. `PROJECT.json` lists the hazards
with their lines and the properties that look at them.

## 2. Modules and code

Every module states in its head what it covers; names follow the source.

### MonitorRole

`k32/monitor/static/role_service.cpp`. `redis` and `mysql` are the stores (one
table per home, a host name and database URI); `role_records`, `save_buckets` and
`db_ready` are the fields of `Implementation`; `fib[f]` is a fiber with the command
it waits for (`pc`), the local `roinfo` (`rec`) and the result (`res`). A record's
contents are a version number, a new one for each save.

* `CreateRequest`, `CreateInserted`, `CreateSelected`, `LoadRequest`,
  `LoadSelected`, `StoredIntoRedis`: `do_role_create`, `do_role_load` and
  `do_store_role_record_into_redis`, which end in one SET NX GET.
* `UnloadRequest`, `UnloadWrite`, `UnloadWritten`, `UnloadDeleted`, `RefuseForeign`,
  `NotLoaded`: the do-while loop of `do_role_unload`. `FlushWrite`, `FlushWritten`:
  `do_role_flush`.
* `DbReady`, `Tick`, `SaveNext`, `SaveGone`, `SaveWrite`, `SaveWritten`, `SaveEnd`: the
  save timer. The code deals roles to 20 buckets (more if one holds 255); here a
  tick takes any part of the round, which includes what the code's order allows.
* `RedisExec`, `MySQLExec`: the commands, with the conditions they test.
* `Crash`, `DbError`: a process restarts with empty maps; a command fails, executed
  or not, and its exception ends the handler or the timer's bucket.
* `LogicLogin`, `LogicSave`: all that logic servers do to a record, in one step
  (LogicRole has the details).

### LogicRole

`k32/logic/static/role_service.cpp`. A role is an object that fibers hold through
copies of a pair of record and pointer, so objects have an identity (`Obj`,
`hyd_roles[r]`). `dc` abstracts `mf_dc_since` to "no" (`steady_time::max()`),
"recent" and "long" ago, and `Age` is the time that passes between callbacks.
`on_logout()` and the other hooks of a role change nothing of this state.

* `LoginOnline`, `LoginLoad`, `LoginNotLoaded`, `LoginConflict`, `LoginLoaded`:
  `do_role_login`. `Logout`, `Reconnect`, `Disconnect`, `NotLoggedIn`: the others. `Stored`
  and `Flushed` are what follows `do_store_role_into_redis`.
* `TimerStart` .. `SaveEnd`: the save timer: it asks the agents, disconnects the roles
  that are not played any more (`CheckAnswer`, `CheckDown`, `StoreDown`), saves one
  bucket (`SaveRole`) and logs out roles that have been away for too long. One role
  is asked about per user, as in the code.
* `Play` is any change of a role, by a client's request or the every-second timer.

### ChatService

`k32/chat/static/chat_service.cpp`. Time is in ticks, several of which make a
millisecond; `Ms` maps a tick to the one at which its millisecond begins. The
timestamps of messages are truncated to that (223), while `check_time` (153) and
`update_time` (222) are not. `overtaken` is a history of the messages that were appended
after an answer in the same millisecond.
`Check`, `CheckLoaded` are `check_multi` (load what is not cached, one key after
another, then copy); `AppendCached`, `AppendLoad`, `AppendLoaded` are `append`; the
timer evicts, truncates and writes. `seen`, `appended` are histories for the properties.
`Tick` has a guard, the timing assumption of the module: a thread is not evicted
before the timer has saved it, that is, the ttl is longer than a round of the timer.
In the configuration that is 3600 s against a round of some minutes.

### UserLogin

The sessions of `k32/agent/static/user_service.cpp` on several agents. `Open`, `Refused`,
`RowInserted`, `Selected`, `Published`, `Kick`, `Connect`, `Welcomed` are the open event with
`do_publish_user_on_redis`; `Close`, `Closed` the close event, `PingTimer` and
`CheckStart` .. `CheckEnd` the timers. "shut" is a session whose end has been asked for
by either side and whose close event has not been handled. `Published` is the SET ...
GET together with the test of its answer, which depends on nothing else; the kick
that follows is a step of its own. `PublishFails` is a SET that fails, executed or not:
the event ends with its session, or the timer's callback with the users it had left.
`KickLost` is a kick that has no effect, because the test at 112 does not know the
other agent, or because the request is lost, whose reply is not looked at (118-120).
`faults` counts both.

`row` is the user's row in MySQL as far as bans go: absent, free, or banned until later
than any login. `BanSet` and `BanKick` are `do_user_ban_set` before and after its yield;
`BanEnds` is `do_user_ban_lift`, or the time until when the ban was in effect. The
history variable `late` has the sessions that were opened under a ban that is still in
effect.

### RoleSelect

The connection of one user of one agent, and of that user's sessions: which role
is selected (`conn.roid`), where (`conn.srv`), which are known (`conn.avatars`).
`LoginCommon`, `SendLogin`, `LoggedIn` are `do_role_login_common`; `SendLogout`,
`LoggedOut` are `do_role_logout_common`; `Insert`, `ReconnectExec`, `Reconnected` are
`do_welcome_client`; `Create`, `Acquired`, `Created`, `Login`, `Loaded`, `Logout` are the
client's requests. A handler looks the connection up by the user's name after
every yield, so a session's fiber may find the connection of another session, or
none: in the latter case `connections.at()` throws (`Fail`). What the other servers
do is one step for each request (`NicknameExec`, `MonitorExec`, `LogicExec`); UserLogin
and LogicRole have the steps inside. `CheckStart`, `CheckExec`, `CheckDone` are the
check of the logic server's save timer, split at the moment the agent answers.

### RemoteCall and ServiceCall

`k32/common/static/service.cpp` and the two futures of `k32/common/fiber/`. `Launch` is
`Service::launch`; a request then goes through the stages of `req`: `LocalRequest` and
`LocalResponse` are `Local_Request_Fiber` before and after its handler, which may yield,
`SendRequest` is `Remote_Request_Task`, `Serve` is the
other process (`Remote_Request_Fiber`, `Remote_Response_Task`), `Receive` and `Close` are
`do_client_ws_callback`, and `Drop` is a message that was lost with its session.
`Publish`, `Expire` and `Crash` are the other services and their keys in Redis; `Scan` and
`Purge` are `do_subscribe_timer_callback` before and after its yield. It is called by
two timers, so there is one scan for each element of `Scanner`. `Forget` is a future that
expires because its fiber has gone on, or never waited for it.

`ServiceCall` is what callers may rely on, without sessions or messages: each service
runs a call at most once, a response "ok" means that it did, the future is completed
by the last response and by no other step. `RemoteCall` implements it (`KeepsPromise`); the mapping
is the identity on `future`, `resp` and `ran`. In `ServiceCall` an answer that has not
been read yet may turn into an error, because the code does that (section 5).

### HttpQueue

`k32/common/static/http_requestor.cpp`. `Enqueue` is `enqueue_weak`, `Message` is
`do_set_single_response`, `Close` is `do_remove_connection`; none of these yields. `pending`
is the server's side of a session: the requests it was sent and has not answered.
`via` is a history of the session each request was given to.

## 3. Runs

All runs finish; the constants are in the `.cfg` files. Each passing run's
properties are broken by a mutant of a modelled definition (`PROJECT.json`,
"mutants": the operator with the name of a mistake just above the one it replaces).

| run | checks | bounds | shows |
|---|---|---|---|
| `monitor_unload` | `Recoverable`, `DeletedWasStored`, `Replied` | 1 role, 2 monitors with a home each, 1 fiber, 2 saves, 1 fault, no timer | however create, load, unload, flush, saves, a crash or a failed command follow each other, the newest save is in Redis or a table |
| `monitor_race` | `TypeOK`, `DeletedWasStored`, `CreatedIsOwned` | 1 role, 2 users, 1 monitor, 2 fibers and the timer, 1 save, keys expire | two requests and the timer on the same role |
| `monitor_save` | `FreshInRedis`, `RowNeverGoesBack`, `SavedEventually` | 2 roles, 1 fiber and the timer, 1 save, 1 fault | create and load never replace a newer record, rows get newer only, and tracked roles are written, though a bucket is lost |
| `logic_role` | `TypeOK`, `LoginKeepsOnline`, `DecidesOnAway` | 1 role, 2 fibers and the timer, 4 objects | concurrent logins and logouts of one role, and the timer, which decides to log it out only when it has no agent |
| `logic_save` | `SavedEventually`, `AwayIsLoggedOut` | 1 role, 1 fiber, 1 change, 1 fault | changes reach Redis; absent users' roles leave |
| `chat_poll` | `TypeOK`, `MissesOnlyOvertaken`, `SavedEventually` | 1 thread of 2, 4 messages, 2 milliseconds of 2 ticks, 1 fault | a client that polls one thread misses what was appended after an answer in its millisecond, and nothing else |
| `user_login` | `TypeOK`, `NoDeadConnection`, `BannedStaysOut`, `NeverDroppedSilently`, `OneInstance` | 2 agents, 1 user, 2 sessions; any number of bans by one of the agents, 2 faults | two logins race on one agent or on two, with failed publications and lost kicks, and with bans set and ended in between: in the end at most one agent serves the user, and no session opened under a ban gets in |
| `role_select` | `TypeOK`, `OneAtATime`, `AbandonedIsAway` | 2 roles, 2 sessions, 1 logic server, any number of lost requests | role changes, reconnections, closed and forgotten connections |
| `remote_call` | `TypeOK`, `PendingIsConnected`, `LostIsFinal`, `KeepsPromise`, `EveryCallEnds` | 2 calls, to this process and another one, and to the other one; 2 sessions, 1 scan at a time, 1 key that expires too early | sessions break and are replaced, close events and purges come late, the service crashes |
| `http_queue` | `TypeOK`, `OwnResponse`, `ZeroMeansClosed`, `EveryRequestEnds` | 3 requests over HTTP to one host, one over HTTP and one over HTTPS to another, 2 sessions | interim responses, expired futures, sessions that end before or after the answer |
| `monitor_stale_write` | `Recoverable` violated | 1 role, 1 fiber and the timer, 2 saves | section 5 |
| `role_expired` | `StillPlayed` violated | 2 sessions, nothing lost | section 5 |

**Why the bounds are enough.** The hazards are about two fibers (or a fiber and a
timer) on one role, thread or user: a third one waits for the same reasons as the
second. Two homes are what it takes for a record to be foreign, two
roles for one to be behind the other in a bucket or to be selected instead of the
other. Versions are only compared, so two saves are enough for "old", "newer" and
"newest". Two sessions are what it takes for one to replace another, whose
close event is still to come, and three requests for the one in the middle of a queue
to expire. Two ticks of a millisecond are what it takes for a check to be later than the
timestamp of a message that is appended after it. Two faults are both kicks of two
logins that race. `late` has the two sessions of the bans: one that is there when the
ban is set and one that comes under it. The scans of two timers overlap as one scan
does with everything else: an old result is one that was found before the
services and sessions changed. Requests per fiber are not bounded: fibers are used again. Symmetry is
used for interchangeable fibers, and only in runs without liveness properties.
`user_login`, `role_select`, `role_expired` and `http_queue` switch the deadlock check
off, as each session opens once, each request is made once, and the system then stops.

**Fairness.** Weak fairness on: the database servers' execution of a command
that was sent, the resumption of a fiber whose command was answered, and the steps
of the timers. This is what the fiber scheduler and the servers' connections
give; a command that fails does so in `DbError`. In LogicRole `Age` (time passing) is
strongly fair, since it does not happen within a callback. In RemoteCall, tasks and
fibers run, a living service answers over a living session, the end of a
session is reported by a close event, timers tick, and the key of a service that has
stopped expires. In HttpQueue, a server answers or its session ends, and the end is
reported. Nothing is assumed of how long a server takes, and no session is assumed to
break. Clients, requests, saves,
expiry, faults and the loss of messages are never assumed to happen.
In UserLogin a kick that was lost is made good by the `check_user` timer, which is
weakly fair, and only `MaxFault` kicks and publications are lost or fail.
`AwayIsLoggedOut` and `AbandonedIsAway` are conditional on requests, or the user,
staying away.

**What the properties do not say.** `Recoverable` is checked without the save timer
and for one request at a time, and is violated with the timer; `RowNeverGoesBack` and
`FreshInRedis` are checked while nothing takes roles out of Redis (section 4 has the
exact conditions, and what fails without each).
`MissesOnlyOvertaken` is for a client that polls one thread: for several threads it fails
(section 5). It says of a message that is appended after an answer, in the same
millisecond, that it is not found: this is what the code does.
`DecidesOnAway` is about the decision of the timer (`role_service.cpp:224`) and not about the
erase after the SET that follows (230), by which time the role may have an agent
(section 5).
`OneInstance` says that at most one agent serves a user in the end, and not that one does:
two agents that both have the user in `users` may both kick them (section 5).
`OneAtATime` holds for sessions that do not overlap and requests that are not lost:
with overlapping sessions, the old session's handler goes on with the new
connection, and with a lost logout request the connection is unlocked anyway.
`LoginKeepsOnline` is about new objects only: an old object can return when the timer
assigns its copy after a logout and another login.
`BannedStaysOut` is about sessions opened under the ban, not about one that was being
opened when the ban was set (section 5). `OwnResponse` and `ZeroMeansClosed` leave out hosts
that are asked over both schemes on one port, whose two sessions share a queue;
`EveryRequestEnds` does not.

## 4. Proofs

The theorems hold for all values of the constants that satisfy the named assumptions
of the modules (`MonitorAssumption`, `NilAssumption`, `LogicAssumption`, `ChatAssumption`,
`NoneAssumption`, `LoginAssumption`, `SelectAssumption`, `RemoteAssumption`,
`HttpAssumption`), which only say that sets are not empty, that names differ and that
bounds are numbers. A theorem that needs more says so in its statement.

* **MonitorRole.** `RecordsKnown` is inductive: every record in Redis, in a logic
  process or in a fiber has a row in its home's table, with the same owner if there
  is one home (rows are never deleted, and an UPDATE keeps the owner), and each `pc` comes with
  facts about what the fiber holds (`FiberInv`): a fiber that is about to delete has
  a record of its own home whose version the row has held. `TypeOK`,
  `DeletedWasStored` and, for one home, `CreatedIsOwned` follow. The strengthening is
  needed because an UPDATE reports nothing: it writes the row only if there is one,
  which is known only from the history of every record.
* **MonitorRole, versions** (`MonitorRowProofs`). `StepKinds` sorts the steps: a fiber goes on
  with the record or the answer it has (`FibersMove`), a server executes a command
  (`RedisEffect`, `MySQLEffect`), or the logic service acts. Three invariants are then
  proved against these few effects. `VersionInv`: no copy is newer than the last save, and
  which commands a fiber may wait for. `RowInv`, under `StaysInRedis` (only create and
  load, no expiry, no two monitors for one table): Redis has the last save, so what
  the timer has read is never older than the row. `RowNeverGoesBack` and `FreshInRedis`
  follow. `RecoverInv`, under `OneWriter` (one request at a time, no timer, no
  expiry): a fiber that writes back holds a version between that of the row and that of the
  key, and a fiber that deletes holds that of the row. `Recoverable` follows, and, for one
  home, `FreshInRedis` again: a role that was unloaded comes back with its last save.
  The conditions are needed. TLC finds `RowNeverGoesBack` violated with two monitors
  for one table, with expiry, or with unload, each alone; and `Recoverable` with two
  requests, with the timer (`monitor_stale_write`), or with expiry. They are limits of the code, which
  takes no lock on a role, and not of the proof.
* **LogicRole.** `RoleInv` is `TypeOK` with `AwayHasNoAgent`: whoever sets
  `mf_dc_since` clears `mf_agent_srv`, on every object, also those that are in no map.
  `DecidesOnAway` follows; `LoginKeepsOnline` is proved from the type invariant,
  as a new object comes into the map only where there was none.
* **ChatService.** `Inv` says of each copy of a thread (in memory, in the row, in a statement
  under way) that it is in order (`InOrder`) and lacks no message but those that
  `Max` others have followed (`Complete`). A thread in memory always is complete. A row
  is, or else the thread is in memory and changed too recently to be evicted (`CacheInv`);
  a statement under way writes a complete thread, or the thread was appended to after it was
  sent (`WriteInv`, `SelectInv`). Eviction is harmless only because of the guard of `Tick`
  (section 2), and the proof shows where it is used: a thread may be dropped while
  neither its row nor a statement in flight has its last messages, if the timer takes
  longer than the ttl. `TypeOK` follows, and for a client that polls one thread
  `MissesOnlyOvertaken`, from `SeenInv` (the same without waiting for the answer). For several
  threads it is false (section 5).
* **UserLogin.** `IInv` adds four parts to `TypeOK` and `BannedStaysOut`: the stage of a
  session's fiber says whether the session exists (`Stages`); a fiber that publishes has
  a user and an agent (`Publishing`); a session in `connections` is between its
  insertion and its close event, on that agent and of that user (`Held`); and a session
  opened under a ban has not passed the check of the ban while the row still has it
  (`Late`), which the upsert of another session of the user must not undo.
  `NoDeadConnection` follows, and with it `NeverDroppedSilently`: each of the three
  actions that change a connection shuts the session down that it forgets, or handles
  its close event.
* **RoleSelect.** `Inv` is `TypeOK` with `CreatedInv` (all roles that are known anywhere
  have been created) and `FiberInv` and, as long as sessions have not overlapped and no
  request was lost (`calm`), with three parts that carry `OneAtATime`: the connection
  belongs to the only session there is, and the logic servers know at most its role
  (`OneInv`); a request under way is about that role (`PendingInv`); and a
  new session finds, among the logic servers it has asked and those still to be
  asked, whatever role was left behind (`ReconnectInv`).
* **RemoteCall.** `Inv` is `TypeOK` and `PendingIsConnected` with `CallInv` (a future waits
  exactly as long as a response is missing, and each request is in one place) and
  `RecordInv` (a record knows only futures that it has not lost, and a request
  under way has not been answered). The last part is what makes `LostIsFinal` true, though
  the close handler and the answers look at nothing but `weak_futures`. `KeepsPromise` is
  the refinement, an instance of `ServiceCall` with its variables given by those of
  `RemoteCall`: `StepPromise`, with one lemma for each kind of step that is not a stutter.
* **HttpQueue.** `Inv` has `InOrder` for every host with one scheme: the living session
  is the one in the record, it was given everything in the queue, and what it has
  still to answer is the head of the queue, all of it while the session is open.
  `OwnResponse` and `ZeroMeansClosed` are in `Inv` because responses stay.

Only model-checked: the liveness properties (`Replied`, the `SavedEventually`s,
`AwayIsLoggedOut`, `OneInstance`, `AbandonedIsAway`, `EveryCallEnds`,
`EveryRequestEnds`), since fairness and ENABLED are out of the prover's reach. Every
invariant and every action property of a passing run is stated by a theorem.

## 5. Where code and comments disagree

1. **`monitor_stale_write`.** unload "verif[ies] that the value on Redis is
   unchanged before deleting it safely", but the row it relies on may have been
   overwritten meanwhile by the save timer (or flush) with an older value: the newest save
   is then nowhere.
2. **`role_expired`.** A user who is "on their original agent with the same role" may
   be taken for gone by an answer to `check_roles` that is older than the
   reconnection; the role is logged out after `disconnect_to_logout_duration`.

Noticed and not stated as runs:

* Logic: `on_logout()` is said to be called "just before a role is unloaded"
  (`k32/logic/hydrated/role.hpp:87`); storing the role yields in between. The role's client is
  away for too long; the timer decides to log the role out (224), calls `on_logout()` (227)
  and yields for the SET (229); the client comes back, and a `logic/role/reconnect` or
  `login` finds the role online and gives it the client's agent; the SET is answered, and
  the timer erases the role (230). The client is connected to a role that is gone, and its
  changes since the SET with it. `logic/role/logout` has the same gap (360-363).
* Chat: `check_multi` leaves out, without an error, a thread that the timer evicts
  while the same request loads others (`chat_service.cpp:140`). A message that is
  appended after an answer in the same millisecond is never found by a client that
  polls with the `check_time` of that answer: the timestamp is truncated (223) and `check_time`
  is not (153), so that the message is older than the check for `upper_bound` (142-143).
  The documentation says "greater than" (`doc/servers.md:259-261`), where a message whose
  timestamp equals `last_check_time` is returned, too. Neither is reported to the client.
* Agent: the close event removes a user from `connections` and leaves them in `users`,
  whose timer goes on publishing the user in Redis and kicks them from the agent they
  have moved to. "If the user is online, they are kicked" (`user_service.cpp:1172`)
  is so on the agent that handles the ban, and not for a session that has read its row
  and is not yet in `connections`. "Select a logic server with lowest load factor" (160)
  never updates the local `load_factor`, so that the last service of the table is taken.
  `check_roles` asks about one role of each user.
* Monitor: the save timer does not compare the home of a record, as unload and flush
  do. A load that has read a row may put it into Redis (386) after the role has been
  logged in, saved and unloaded by other requests: the row is then newer than the key.
* Remote calls: a response that has been received and not yet read becomes "Connection
  lost" when the session ends (`service.cpp:229`). A close event that comes late fails the
  calls that wait on a newer session to the same service (219), and a scan
  that is older than a connection purges it (524). All of these are reported to the caller,
  who cannot tell them from a service that is down, but may have run the
  call: nothing in this code retries. `service_start_time - now <= 60s` (644) is true of every
  past time, so every publication also scans.
* HTTP: on a host that is asked over HTTP and HTTPS on one port, responses can reach the
  wrong request, and the end of one session ends the requests on the other.
* Virtual clock: the time zone offset is `tm_gmtoff / 60000`, which is 0 for every time
  zone, where `fwd.hpp:44` speaks of minutes.

## 6. What is not modelled

* `monitor/role/list`, other than as the avatars of a new connection: it only reads.
* `reload()` of configurations, which replaces constants of the modules.
* Nicknames (acquire is one step of RoleSelect, release is one DELETE), relays and
  pushes, which keep nothing between two steps; message rates, authentication, login
  and logout times.
* The virtual clock, an offset and the fields of a broken-down time: it is sequential,
  has no state that two steps share, and is for tests of its arithmetic.
* In RemoteCall: the registration of handlers, which happens before services start; the
  authentication of sessions and the choice of an address, which only decide whether a
  session can be opened. In HttpQueue: URIs and the contents of messages. A
  session's `http_default_host()` is taken to be the name it was connected by, and
  every session to get a close event in the end.
* Between modules: UserLogin, RoleSelect, LogicRole and MonitorRole let a request to
  another process be executed at any time, and be lost where they say so; what
  RemoteCall promises is no more than that.
* Serialization of records, formats, logging, start-up code.

External code is modelled by how it is used: Redis and MySQL commands (`RedisExec`,
`MySQLExec`), the sessions and timers of the poseidon library, HTTP servers,
processes (`Crash`) and the clock (`Tick`).

## 7. Plan

Done: all modules above, with their runs, and proofs of every safety property of a
passing run.

Left:

1. `FreshInRedis` with overlapping requests: what a logic server may read from Redis
   after a load that is older than an unload (`role_service.cpp:386` of the monitor). It
   fails; an abstract role store that MonitorRole implements could say what remains true.
2. ChatService: what a client that polls several threads may rely on, when one of them is
   evicted while another is loaded.
3. Bans: the agent that is sent a ban is not always the one that has the user; a
   run that states the documentation's "they are kicked" would show it.
4. Roles that are in Redis and tracked by no monitor (`role_service.cpp:624`, 31).
