# A verification project for meta-server

meta-server keeps the metadata of a distributed file store.  Its parts are a
server process, `celld` (`src/cell`), which answers requests over TCP from an
in-memory LRU cache and MySQL, and a client library (`src/rpc`), linked into the
storage nodes and the tools that look files up.  This directory holds TLA+
models of the parts that keep state under concurrency or failure, TLC
configurations that check them, and proofs about the database connections, their pool, the cache,
the request handlers, the event loop, the client library, the bytes between client and server
and the accounting of uploads.

    tlc -config dbpool.cfg DbPool          (one line per run; see "Runs")
    tlapm DbPool_proofs.tla                  (one line per *_proofs module; see "Proofs")

Line numbers below are those of the sources this project was written against.
The build has no `-DNDEBUG` (`src/cmake`), so the `assert`s of the code are active
and are modelled as such.

## 1. The system

### Components

| component | source | state | operations | module |
|---|---|---|---|---|
| database connection pool | `db_pool.c`, `cell_lock.h` | two arrays of helpers, `wpos`/`rpos`, two spin locks, busy flags | `get_helper`, `release_helper` and the `read` pair | `DbPool`, implements `HelperPool` |
| database connection | `db_helper.c` | one MySQL session, `opened`, the statement text | nine statement functions of one structure | `DbHelper` |
| LRU cache | `cell_lru_cache.c` | hash table under row locks, two lists under the cache lock, reference counts, sizes | get, release, insert, erase, weedout | `LruCache` |
| metadata handlers | `cell.c` | none of their own: the cache, the master and the slave database | add, get, update, replace, delete, clean | `MetaService`, implements `MetaStore` |
| event loop and connections | `poll_thread.c`, `ae_poll.c`, `cell_handler.c` | epoll set, reported events, `conns[fd]`, handler objects, leader mutex | wait, hand out, accept, read, write, arm, close, stop and join | `EventLoop` |
| RPC client | `meta_rpc.c` | pool of sockets, `sid_seed`, connections | every `rpc_*` call: take a socket, check, connect, send, receive, give back | `RpcClient` |
| framing and codec | `cell_codec.c`, `cell_msg.c` (both sides), `split_message`, `recv_packet` | byte streams at both ends, bytes under way | encode, decode, split, grow, move, send, receive | `Codec`, `Framing`, implements `Exchange` |
| life cycle records, file log, upload quota | `cell.c`, `db_helper.c`, `meta_rpc.c`, `src/sql` | rows of `dfs_user`, `dfs_log_table`, `dfs_lifecycle` | check, report, log, expire, block | `UploadQuota` |
| supervisor, stop signals | `cell_spawn_wait.c`, `cell.c` | the child process, the last signal, the alarm; `daemon_run` of the child | fork, wait, ask, kill, respawn | `Lifecycle` |
| ZooKeeper registration | `cell_zk.c`, `cell.c` | the session, the ephemeral node | connect, `zk_set_node` every round, reconnect, disconnect | `Lifecycle` |
| object pool | `cell_pool.c` | a LIFO of free objects | alloc, free | partly, as steps of `EventLoop` |
| start and teardown | `cell.c`, `*_destroy` | | run by one thread before or after all others | the stages of the worker in `Lifecycle` |
| configuration, log, RPC test program | `cell_config.c`, `cell_log.c`, `test.c` | | parsing, formatting, a driver | not modelled |

### How they interact

`EventLoop` threads call `process` of `cell.c` for every complete packet; a
handler runs to its end on that thread.  It reads and writes the LRU cache, and
borrows at most one helper at a time from `DbPool` to execute statements
(`DbHelper`) on the master or, for a get that misses the cache, on a slave.  The
reply goes into the send stream of the connection's handler object.  The
main thread meanwhile renews the ZooKeeper node and waits for `daemon_run` to become
0.  `RpcClient` runs in other processes; it meets the server only through TCP.

Each module stands on the promise of the one below it and not on its details:
`MetaService` has a map for the cache (what `LruCache` is as long as the halves of
its operations do not meet at one item) and helpers that are never refused (theorem `AlwaysServed` of `DbPool_proofs`);
`EventLoop` is indifferent to what `process` does with bytes; `RpcClient` has a
server that answers the requests of a connection in order, as one handler
object owned by one thread (`OneThreadPerHandler`) does; that the bytes of requests and
answers survive the streams and the network is what `Framing` shows (`Implements`,
`AcceptedIsMine`).  `UploadQuota` takes from `DbHelper` that a statement is executed at
most once per sending and that the caller may not learn of it.  `Lifecycle` has the
supervisor, the worker's main thread and ZooKeeper; what the worker does while
it serves is one stage.

### Which behaviours are hard

- *Two locks, never both.*  No operation of the LRU cache holds the row lock and
  the cache lock together; in between it owns a bare pointer.
- *An incomplete search that must be complete.*  `get_helper` starts at `wpos` and
  never wraps around.
- *No lock at all.*  `conns[fd]` and the handler objects are kept apart by
  EPOLLONESHOT alone; `sid_seed++` by nothing.
- *Check, then act, on the database.*  Updates read a row, change it in memory and
  write it back; a cache fill may be overtaken by a delete.
- *Answers after a timeout*, on a socket that is back in the pool.
- *Retries* of statements, of which one may have been executed.
- *Partial failure* of a request of several statements.
- *Stopping*: threads in every state, the main thread sweeping behind them.
- *A byte stream cut anywhere*, several requests in one read, streams that grow, are moved
  and passed on to the next connection.
- *Signals that leave no trace* outside `waitpid`; a worker that is stopped while it starts,
  hangs, or crashes as it ends.
- *Two generations of one ephemeral node*, the older of which vanishes on its own.
- *Check in one request, charge in another*, with acknowledgements that get lost.

PROJECT.json lists them one by one, with their lines, under "hazards".

### What makes each part correct

Pool: no helper has two users or is lost; a free one is found.  Connection: a statement is
executed at most once, and what the caller is told is true.  Cache: table, lists, counts and
sizes agree.  Handlers: together they are one map, and the cache never contradicts the database.  Loop: one
thread per handler, no event for a closed descriptor, no connection forgotten, the threads
end.  Client: no socket is shared or lost, an answer belongs to the call that takes it.  Connection on the wire:
every request is executed once, whole, in order.  Uploads: what was acknowledged is counted and
kept, the quota is exceeded by what was under way at most.  Life of the process: a stop ends
supervisor and worker, a crash does not, and a worker that serves can be found.

## 2. The modules

**HelperPool** — what handlers may rely on: a helper nobody holds, or a refusal
when at that instant all are held.

**DbPool** — `create_db_pool`, `get_helper`, `get_read_helper` and the releases,
one step per iteration of the search and per access of the lock.  `busy`, `pos`,
`mutex` are the fields of the pool; `cur[w]` is the loop variable; `held[w]` the
helper a handler was given.  `Implements` maps it to `HelperPool`: a helper changes hands
when the busy flag changes, a refusal happens when the search has run off the array.

**DbHelper** — one session and the calls made on it.  `Open`, `Compose`, `QueryDone`,
`QueryGone`, `QueryLost`, `Fetch` are the places of the statement functions; each
action is mapped to one of those functions, and the others have the same code
(`scan_kv` too, which nobody calls).  `text` counts how often the arguments have
been put into the statement: `sprintf` onto the text again at a retry would be
`text = 2`.  The server hangs up (`HangUp`), stops (`GoDown`), comes back, and may
execute a statement after the client has lost the connection (`Execute`).
Assumed of MySQL: CR_SERVER_GONE_ERROR means that nothing was sent; CR_SERVER_LOST
(`Unanswered`) leaves open whether the statement was, is or will be executed.  A session that was
dead before the call is reported as either: a client that has not noticed, as on a broken network path,
sends and waits in vain.  Only the first of the two is retried.  `calm` counts the calls begun since the last outage.

**LruCache** — blocks of memory with list pointers, key, reference count, size,
time and `vcount` as in `cache_item_t`; `table` is the hash table.  One step is one
locked section: an operation is `GetFind` (row lock) then `GetLink` (cache lock),
and so on.  Touching freed memory, following NULL or failing an `assert` is a
`fault` after which nothing happens.  `Apart` says that no two threads are between the halves of
their operations with pointers to one item, unless both only look it up; readers are not concerned, so a held item may be
replaced, erased or weeded out.  `ApartSpec` has the steps that keep it.  `malloc` may reuse freed blocks.  The hash
is injective on the model's keys: chains of length one.

**MetaStore / MetaService** — the map from key to metadata that `meta_rpc.h` promises,
and the six handlers.  Where the code is known to break the promise `MetaStore` asks for less: an update
may shorten the password and drop the key it does not set (`meta_unset_field`), and a request that failed may have inserted or deleted its row.  A step is one call into the cache or the database:
`get_meta` is Look, Query (slave), Fill; `update_meta` is Read, Fill, Write, CacheNew;
`replace_meta` adds SaveOld under the versioned key; `del_meta` is Erase then Delete.
`Statement` is a database call: it takes effect or not, and with `Faults` it may
report a failure in both cases.  The slave follows through the ordered log `relay`.
Lengths are kept where the code depends on them: `Updated` cuts the password
with the length the request has.  The uploader field, which is copied only, and
out-of-memory are left out; weeding out may drop any entry at any time.  `Orderly` names the
four events that do harm (section 3, `meta_orderly`); `OrderlySpec` has every step but those.

**EventLoop** — `poll_thread.c` (Top .. Take, Update, Modify, Stop .. SweepDone),
`cell_handler.c` (Accept .. PoolFree) and the epoll set.  The main thread's `handler_close` is four steps
(`SweepConn` .. `SweepFree`) like that of a worker, since one worker may still run.  A new socket that cannot be made
non-blocking is closed and ends the round of `accept` (`AcceptFails`).  `interest[fd]` is what is
armed ({} after a oneshot report), `fired` the `nready` events the leader collected,
`conns` the array indexed by descriptor.  What bytes mean is left out: `input`
says that some wait, `unsent` that the send stream is not empty.  Closing and
accepting reuse descriptors and handler objects at once.

**RpcClient** — threads over the pool `arr`; a section between LOCK and UNLOCK is
one step, since `arr` is accessed nowhere else.  `seed` is read and written in two steps
(`LoadSid`, `StoreSid`).  A connection has requests the server has not
answered (`owed`) and bytes that have arrived (`in`); answers come whole or in two
pieces, late or never.  `recv_packet` takes what has arrived, looks at the first packet
and forgets the rest.  `Means` is the mapping of server results to RPC results; `Shut`
stands for the metadata of a file that is closed or has a password.  Left out:
SIGPIPE, out-of-memory, descriptors of FD_SETSIZE and above.  Taken as given:
left-over bytes of a broken packet are not a valid answer by accident.

**Codec** — a stream is its bytes, its read position and its allocated size; `Move`,
`Resize`, `Reduce` are the functions of `cell_codec.c`.  A message is a record; `add_meta_encode`
and the like are the lists of fields the client writes, `add_meta_decode` and the like those the server
reads, with the size of each buffer, as they are separate code in `rpc/` and `cell/`.
That the two agree is not assumed but checked (`Implements`) and proved (`ListsMatch`).  The tables at the end are
`encode_msg` and `process`.

**Exchange / Framing** — one connection.  `Send`, `Recv`, `GiveUp` are `send_packet` and
`recv_packet`; `Event`, `Read`, `Split`, `Drained`, `WriteSome`, `Close` are the connection
handler; `Process` decodes, records what is executed (`handled`) and writes the answer.  `toServer` and `toClient`
are the bytes under way.  When a stream is too short for a length, the code reads what lies behind it:
`StaleLengths`.  Three things the code does not survive are counted in `count` and bounded by constants:
that the server sees 1 to 3 bytes of a request behind a whole one (`MaxRequestCut`), that the client sees 1 to 3 bytes
of an answer (`MaxAnswerCut`), and that `realloc` moves a stream that grows under `hander_send` (`MaxMove`, `AnswerMoved`).  A client
that has given up reuses the connection, as the socket pool does.  `Exchange` is the promise:
requests are executed once each, in order, and while the client stays all of them are.

**Lifecycle** — `sup`, `tries`, `sig`, `alarm` are the supervisor; `worker` is how far the main thread
of the child has come; `handles` what SIGINT does to it (a second worker inherits the
handler of the supervisor, which does nothing).  A signal has an effect if `waitpid` is under way
(`Interrupted`), otherwise none (`Unnoticed`).  `zk` is the ZooKeeper call `connect_zookeeper` is at;
each may fail because the session is over, or because the connection is lost, with or without
having had its effect.  A session that nobody holds expires (`Expire`) and takes its node
along.

**UploadQuota** — the rows of one user and the clients that upload for that user: `Check`, `Stores`,
then the calls `report`, `log`, `life`, each of which may be sent again (`Retry`), be lost
(`Lost`) or be executed late (`Execute`).  Sizes are 32 bits wide in the message and signed in
the statement (`Printed`); `Half` stands for 2^31.  `used_day` is changed with `used_size` and nothing
in the program resets it, so it is the same number; both quotas are compared with it.

**MC\*** modules hold definitions for instances: symmetry sets, requests, addresses.
Definitions introduced by "a slip" in the modules are plausible mistakes in place
of the definition that follows them; they are used by no specification, only to see
that each property can fail.

## 3. Runs

| run | question | instance |
|---|---|---|
| `dbpool` | Is the pool right when there are fewer helpers than threads? | 3 threads, 2 helpers per kind |
| `lru_apart` | Is the cache right when two threads use it and do not meet at one item between their locks? | 2 threads, 3 keys, 4 blocks, sizes 1 and 2, limit 2; `ApartSpec` |
| `meta_orderly` | Are the handlers one map as long as none of four events happens? | 2 threads, keys `a`, `a.1`, `b`, all six requests, a get by version and a partial update, failing statements, lag; `OrderlySpec` |
| `meta_faults` | What holds with overlapping requests, failing statements and a lagging slave? | 2 threads; `a` is changed in every way, `b` is only added, read and taken from the cache |
| `loop` | Does the loop keep threads apart, forget nothing, and stop? | 2 threads, 2 connections, 3 handler objects, 3 client actions |
| `helper_calls` | Are statements executed once and answers true, whatever the server does? | 3 calls, 2 retries |
| `rpc_pool` | Is the socket pool right? | 2 threads, 2 hosts, 3 sockets, 2 slots, 1 per server, 3 calls |
| `rpc_late` | Is no late answer taken for that of another call? | 1 thread, 3 calls, split answers, all results |
| `framing` | Do requests and answers survive the streams? | every request of the library, cut at 7 offsets but not 1 to 3 bytes behind another packet, followed by another; answers not cut into their first 3 bytes; streams grow in place; 3 calls with a large answer; 1 time-out, 1 hang-up |
| `upload` | Is what is acknowledged counted and kept, and the quota kept to what was under way? | 2 clients, 2 uploads, every call sent twice, sizes 2 and 5 against quotas 4 and 3 |
| `lifecycle` | Do a stop, a crash and a lost session end well? | 3 sessions; 2 signals, 2 crashes or hangs, 2 late alarms, 2 ZooKeeper faults |

What they show:

- `dbpool`: `PrefixBusy` is the reason why a search from `wpos` is complete;
  `SingleOwner`, `NoLeak`; `LockFreed` under fairness; `Implements`.
- `lru_apart`: `MemorySafe`, `TableMatchesLists`, `Accounting` (reference counts included) and
  `WithinLimit`, with items that one thread reads while the other replaces, erases or weeds them out.  `MemorySafe` allows the
  assert of `YoungerHasVictim` to fail, which it does with two threads also when they keep apart; `WithinLimit` says that the cache is
  larger than its limit only while somebody is weeding out.
- `meta_orderly`: `Implements` (`MetaStore`) and `CacheCoherent`.  Two requests overlap, statements fail before or after
  they take effect, the slave is behind, and the cache drops entries.  `Orderly` excludes four events: a request overlaps one that changes a row it
  uses; the slave answers a query from a row it has not caught up with; an update of a row takes effect and is reported
  as failed; the old version is saved under a key that is cached, or is not saved.  The code makes none of them impossible, and
  TLC refutes one of the two properties as soon as any of them is allowed.
- `meta_faults`: for a file that is only added, `CacheNeverWrong`, however late the
  slave and whatever was reported; two overlapping adds do not both succeed (`AddExclusive`);
  every request is answered (`Answered`).
- `loop`: `OneThreadPerHandler`, `FiredIsCurrent`, `NothingForgotten`, `UnsentIsArmed` until
  the main thread begins to sweep, and until then the assert in `add_event` does not fail (`SlotWasFree`); when it sweeps
  at most one thread is left (`AtMostOneLeft`); `JoinsEnd`, `InputServed`.
- `helper_calls`: `AtMostOnce`, `AnswerTrue`, `StatementComplete`; an outage that is over makes the first call after it fail
  only with CR_SERVER_LOST, and no later call (`OldOutageHidden`); the retry ends (`Returns`).
- `rpc_pool`: `SocketExclusive` (no socket in two hands, every slot names an open socket of its host),
  `NoSocketLost`, `PoolBounded`.
- `rpc_late`: `AnswerIsMine`.
- `framing`: `Implements` (`Exchange`, safety and liveness), `AcceptedIsMine`, `Answered`, for a network and an allocator that
  do none of the three things above (`cut_head_server`, `cut_head_client`, `stale_head` have one each).
- `upload`: `Accounted`, `Overshoot`, `AckedKept`.
- `lifecycle`: `StopEnds`, `Restarted`, `StaysRegistered`, all three liveness.

The modules also define `TypeOK`.  It is proved in every `*_proofs` module; for `MetaStore`, `Framing`
and `Lifecycle` it was checked while they were written.  It is not among the properties of the runs.

### Bounds, and why they are enough

*Workers.*  The races of the code are between two threads; the pool has a third,
so that two can hold everything while one is searching.  *Helpers*: two, so that the position lies
inside the array and behind it.  *Keys and blocks*: three keys make a list of
first, middle and last; a fourth block is an item in nobody's table but in a reader's hands; the limit of 2 bytes holds one large or
two small items, so that most insertions weed out.  `VMod` is 5
instead of 65536 (at least 4 is needed for "visited three times"), `Threshold` 0 and
`MaxClock` 1 give an old and a new item.  *Metadata keys*: a file, its first version, another file;
`MaxLag` 1 lets the slave be behind by one change.  *Descriptors*: two connections and three
client actions let one connection be closed and its number be accepted again while
the other is served.  *RPC*: three calls, so that one can time out, a second take the
socket over and a third meet what is left; one socket per server makes `PoolBounded` bite.
*Retry*: 2 in place of 3: one retry that fails and one that is refused.
*Streams*: 32 bytes allocated in place of 2048 and strings of 1 to 3 bytes make every request
cross a growing stream and let the second one begin behind its middle, where
`bin_stream_move` copies; `Cuts` has the offsets inside the length, the id, the sid, the
first string and behind them.  Every request of the library is sent with fields that all differ, so that two fields in
the wrong order would be seen.  *Uploads*: two clients and two uploads are
enough to pass the check together; one size fits the quota once but not twice, the other is
larger than the quota and has to be refused.
*Life cycle*: three sessions are that of a crashed worker, of its successor, and of its
reconnecting; the bounds on faults let two of them follow each other.

### Fairness

Every fairness condition is weak fairness of the steps of a running thread, which
the scheduler of the operating system gives, and of the main thread's in
`EventLoop`.  Nothing is assumed of locks, clients, signals, MySQL or the network,
except that replication goes on (`WF Replicate`); a spin lock may starve a thread,
which is why `LockFreed` says that the lock becomes free and not that a thread gets it.
`Framing` takes from `EventLoop` that an armed handler is served (`InputServed`) and
from TCP that bytes arrive; `Answered` speaks of a client that does not give up.  In `Lifecycle` the supervisor and a worker that
is not hung make steps, alarms go off, and ZooKeeper ends the sessions of dead processes; crashes, hangs, signals
and lost connections are unfair and bounded.
`InputServed` and `JoinsEnd` need the clients to pause, which
`MaxTraffic` makes them do: a client that sends without end can hold a thread in
`handler_on_read`, and the model does not claim otherwise.

`CHECK_DEADLOCK FALSE` is set where the system stops: in `loop` and `loop_join` the threads
end, in `framing` and `upload` the clients have made their calls, in `lifecycle` the supervisor has ended, in the `lru` runs a failed assert or another fault ends the process.

## 4. Where the code disagrees with what is said of it

Each of these has a configuration in which TLC finds the counterexample.
The first one is among the regular runs; the others are run by hand,
e.g. `tlc -config upload_big.cfg MCUploadQuota`, or `tlc -config loop_join.cfg EventLoop`;
`rpc_told` violates three properties, which `tlc -continue -config rpc_told.cfg MCRpcClient` reports.

| configuration | property | disagreement |
|---|---|---|
| `lru_weed_race` | `VictimStaysAlive` | `cell_lru_cache.c:230` wants to prevent a second release; between the two locks another thread frees the victim |
| `meta_unset_field` | `UnsetSecretsKept` | `meta_rpc.h:83-84`: NULL leaves password and key alone; `cell.c:444-445` writes them with the lengths of the request |
| `loop_join` | `AllJoined` | `poll_thread.c:165,171` "all threads"; the loop at `:166` leaves out the last |
| `rpc_told` | `NoPacketError` | a socket that timed out is pooled; its late answer fails the next call as "wrong packet" |
| `rpc_same_sid` | `AnswerIsMine` | two threads: `sid_seed++` is not atomic, a sid comes again, a late answer passes for another call's |
| `rpc_wrong_port` | `RightServer` | `meta_rpc.c:133` looks at the address, not the port |
| `rpc_told` | `UrlIsNull` | `meta_rpc.h:32` "NULL when the rpc fails"; not when the file is closed (`meta_rpc.c:410-414`) |
| `rpc_told` | `MissingIsTold` | `meta_rpc.h:34` "2: no meta data"; 3 is returned |
| `meta_get_delete` | `DeletedIsUncached` | a get between the two halves of `del_meta` caches the deleted file for good |
| `meta_lost_update` | `UnsetOpenedKept` | two updates of one file: the later writes back what it read before the first wrote |
| `meta_stale_version` | `GetIsCurrent` | `replace_meta` rewrites the row of the versioned key, not its cache entry |
| `meta_lost_version` | `OldVersionKept` | `replace_kv` fails, the old metadata is gone, the answer is success |
| `lru_assert_race` | `YoungerHasVictim` | a second thread finds `younger` empty: `assert` at `cell_lru_cache.c:220` |
| `lru_vcount_wrap` | `OlderStaysOlder` | `vcount` wraps and a hot item goes back to `younger` |
| `cut_head_server` | `Implements` | 1 to 3 bytes behind a packet: `used - rsize - 4` at `cell_handler.c:211` wraps, and they are taken for a packet (`MCFraming`) |
| `cut_head_client` | `Answered` | the same at `meta_rpc.c:330`; the call that should get its answer never returns or fails |
| `stale_head` | `AnswersWhole` | `head` (`cell_handler.c:136`) points into the stream before `encode_msg` grew it; if `realloc` moves it, the answer has length 0 |
| `zk_never_again` | `StaysRegistered` | the connection is lost between the calls of `connect_zookeeper`: `zk_set_node` returns ZNONODE for ever, which `cell.c:987` does not repair |
| `stop_killed` | `KilledMeansStop` | the comment at `cell_spawn_wait.c:36`, "a child that was killed on purpose"; WIFEXITED is false for it, so it is started again |
| `upload_big` | `Accounted` | a size of 2^31 or more is printed with `%d` (`db_helper.c:653`) and lowers `used_size` |
| `upload_collision` | `AckedKept` | `cell.c:203` asks whether collisions of the hash need handling; two files of one second with one hash share a record |
| `lru_fresh_younger` | `FreshYoungerIsSpared` | the test at `cell_lru_cache.c:223` is the reverse of the comments at `:11` and `:222` |

This is also why the passing runs have the specifications and instances they have: the cache is right as long as the
halves of operations do not meet at one item (`Apart`); the handlers are a map as long as none of the four
events of `Orderly` happens, and keep only `CacheNeverWrong` for unchanged files when they do; a single client thread
never takes a wrong answer, two may; the invariants of `EventLoop`, `SlotWasFree` among them, are stated for the time
before the main thread sweeps: within the sweep the thread that was not joined may give a handler and its
descriptor back and get both again between two calls of `handler_close`, and the assert of `add_event` fails;
`framing` excludes heads that are cut and streams that move, and `lifecycle` connections lost within `connect_zookeeper`.  `StopEnds`
excuses an alarm that goes off while the supervisor is not in `waitpid`; the code loses it, and the stop waits for the worker.

Smaller disagreements, seen while translating, that no property is about:

- `process_ack` declares a second `msg_id` and compares it with itself (`meta_rpc.c:491`): the id of an answer is
  not checked.  `Judge` has it so; the sid is what `AcceptedIsMine` rests on.
- `update_meta_decode` reads the password into `POOL_NAME_SIZE` bytes (`cell_msg.c`), the client writes up to
  `USERNAME_SIZE`.
- `encode_msg` of the server has no case for `CLEAN_CACHE_ACK`, so that answer has no body, and `rpc/cell_msg.c:97`
  names a constant `rpc/cell_msg.h` does not define.  No function of the library sends `CLEAN_CACHE`.
- `bin_stream_reset` assigns in its condition (`cell_codec.c:71`, `flag = 1`): the magic number is never cleared.
- `meta_rpc.h` promises 2 and 3 for `rpc_is_upload_file`, which returns 8 and 9, and 8 and 9 for
  `rpc_report_upload_file`, which never does.
- `add_life_cycle` ignores `cold`; nothing resets `used_day`; a report for an unknown user succeeds.

## 5. Proofs

`DbPool_proofs` proves, for every set of workers and every size of the pool
(`SizeAssumption`, `NoneAssumption`):

| theorem | property |
|---|---|
| `Invariance` | `IInv` |
| `TypeCorrect`, `Exclusive`, `Leakless`, `PrefixAlwaysBusy` | `TypeOK`, `SingleOwner`, `NoLeak`, `PrefixBusy` |
| `AlwaysServed` | `NeverRefused`, when there are at least as many helpers as workers (`Enough`; `cell.c:152` creates the pool with `nthread + 8`) |
| `Refinement` | `Implements`: every step of `DbPool` is a step of `HelperPool` or a stutter |

The argument.  None of the properties is inductive.  `SingleOwner` needs to know
that a thread about to take a helper found it idle *and still does*, that is, that it owns
the lock (`LockInv`) and that whoever holds a helper keeps it marked (`HeldInv`).
`PrefixBusy` speaks of the moments when the lock is free; in between the position is still
below nothing but busy helpers (`PrefixInv`), because taking helper `i` moves the position to `i + 1`
only after the search has seen that all from the position to `i` are busy (`ScanInv`), and releasing
`i` lowers it to `i` in the same section.  `ScanInv` also says that a search that ran off the
array has seen *all* helpers busy, first those below the position and then the
rest: this is `Refuse` of the abstract pool.  `IInv` is the
conjunction; `NextInv` has one lemma per action.  For `AlwaysServed`, a worker that asks
holds nothing, so the others hold fewer helpers than there are (`SomeFree`, by
cardinality), so not all are busy by `NoLeak`.  `Refinement` uses `IInv` in the step condition.

`DbHelper_proofs` proves, for every number of calls and retries (`HelperAssumption`):

| theorem | property |
|---|---|
| `Executions` | `ExecInv`, the inductive invariant |
| `TypeCorrect`, `OnceOnly`, `Truthful`, `Complete` | `TypeOK`, `AtMostOnce`, `AnswerTrue`, `StatementComplete` |
| `OutagesHidden` | `OldOutageHidden`, when there is at least one retry (`Retries`; `create_mysql` sets 3) |

`AtMostOnce` alone says nothing of a statement that is still under way at the server.
`UnderwayInv` adds that such a statement was not executed and that its caller was
told "failed"; `CallInv` that the call which is running has nothing under way and was
not executed before its answer.  Both hold because a call whose statement may
have arrived is given up and never sent again (`QueryLost`), and one that is sent
again was not sent before (`QueryGone`).  `TextInv` says that the arguments are missing
only in the first attempt of the functions that escape them late.  For
`OutagesHidden`, `CalmInv` says that in a call in whose time nothing broke a second attempt has a
new, live session, and that such a call fails with CR_SERVER_LOST or not at all; `ClosedInv` that the broken session is gone
once such a call is over.

`UploadQuota_proofs` proves, for every set of clients, every size and quota and any number of uploads,
repetitions and ticks (`SizeAssumption`, `ClientAssumption`, `UploadBoundAssumption`, `HashAssumption`):

| theorem | property |
|---|---|
| `TypeCorrect` | `TypeOK` |
| `RecordsKept` | `AckedKept`, when the hash is injective (`Injective`; without it `upload_collision` is the counterexample) |
| `QuotaOvershoot` | `Overshoot` |

For `AckedKept` it takes `KeyInv`: the key of a record carries the hash of its file, so that
`Replace` removes records of the same file only.  `Overshoot` is not inductive, for a report
is executed long after its check.  `OvershootInv` says that there is a client, the one that was allowed last,
whose file still fitted, and counts for the others who are allowed and have not reported (`Pending`) the
largest file each (`Owed`).  A check makes its client that client (`CheckRoom`: `used_size` plus its file is below
the quota, and all others owe at most one file); a first report moves a size from what is
owed to what is used (`ReportRoom`); a repeated one adds to both sides; everything else
only lessens what is owed (`LessOwed`).

`Accounted` speaks of a sum over the clients, which no prover here can do by induction.  `ChargedInv` counts instead:
the bytes of an upload that is stored and not reported are elements of a set (`Unreported`, one per client, upload and
byte), and what was charged, what that set holds and what was reported twice balance by the cardinality of finite sets.
A report moves `size` elements out of the set and adds `size` to the row; `MaxSize < Half` is what keeps `Printed`
from turning that addition into a subtraction (`upload_big`).

`MetaService_proofs`, for every set of workers, keys and requests, any lag, with and without faults
(`MetaAssumption`, `AbsentAssumption`):

| theorem | property |
|---|---|
| `TypeCorrect`, `Invariance` | `TypeOK`; `Base` and `Once`, the inductive invariant |
| `NeverWrong`, `AddsExclusive` | `CacheNeverWrong`, `AddExclusive` |
| `RowsKept` | an action property: the row of a file that is only added never changes |
| `OrderlyCoherence` | `CacheCoherent`, of `OrderlySpec`: the four events of `Orderly` do not happen |
| `Refinement` | `Implements` (`MetaStore`), of `OrderlySpec` |

`Base` is the types and the control: which handler may be at which call, and when it holds what it has read.  `Once` is about
the files that no update, replace or delete names and that are no versioned key: all rows of such a file that are anywhere, in the
master, on their way to the slave, in the slave, in the cache or in a worker's hands, are the one row of the master, and
who was told success inserted it.  `Coherent` says that every entry of the cache is the row of the master or absent, but for the
one between the two halves of an update's `Write` and `CacheNew`, and what each worker that is under way may count on
(`WorkerOrderly`): the row it has read is still in the master, because nobody else changes it (`Apart`).  For the refinement the effect of a request is placed at its answer, and
the abstract map is the master with the pending change of an unanswered request undone or done.

`EventLoop_proofs`, for every set of threads, descriptors and handlers and any traffic (`LoopAssumption`):

| theorem | property |
|---|---|
| `Invariance` | `IInv` |
| `TypeCorrect`, `HandlerHasOneThread`, `EventsStayCurrent`, `AssertHolds`, `NoneForgotten`, `UnsentWatched`, `OneLeft` | `TypeOK`, `OneThreadPerHandler`, `FiredIsCurrent`, `SlotWasFree`, `NothingForgotten`, `UnsentIsArmed`, `AtMostOneLeft` |

None of these is inductive, and they are only so together.  That an event still means the connection it was reported for needs that a reported
descriptor is not closed, which needs that nobody serves it, which needs that serving threads are distinct, which needs that
a thread took up one event per descriptor: `Ownership` says for each place in the code what the thread there may count on
(`Owned`), what an armed descriptor excludes (`FdInv`) and what a handler watches for (`HandlerInv`).  The order of
calls in `delete_event` and `add_event` is what keeps it: `conns[fd]` is cleared before `epoll_ctl`, `close` comes
after both, the handler is reset before it goes back to the pool.  Once `loop_run` sweeps, `Ownership` is lost: it frees
handlers that the thread it did not join may still use.  What survives is who holds the leader mutex and how many threads are left (`Base`), enough for `OneLeft`.

`RpcClient_proofs`, for every number of threads, servers, sockets, slots and calls (`RpcAssumption`):

| theorem | property |
|---|---|
| `Invariance`, `TypeCorrect` | `IInv`, `TypeOK` |
| `OneUser`, `NoneLost`, `PoolStaysBounded` | `SocketExclusive`, `NoSocketLost`, `PoolBounded` |
| `MineIfUnique` | `AnswerIsMine`, as long as no two calls drew the same number: `Spec /\ []UniqueSids => []AnswerIsMine` |
| `MineIfAlone` | `AnswerIsMine`, for one thread (`Alone`) |

`Sockets` says who holds which socket (`Held`, `Stored`); `Traffic` says that a connection carries requests that nobody has
answered and answers to requests that were processed, that each request is on one connection once, and that a thread's own request is
nowhere before it is sent.  `MineIfUnique` makes the condition of `rpc_same_sid` precise: what goes wrong there is only
`sid_seed++`.  For one thread `Numbered` shows the numbers unique: the seed is beyond every number drawn but between its load and its store.
`Min` over slots is a choice; that there is a least slot (`LeastExists`) is proved from the finiteness of the slots.

`LruCache_proofs`, for every set of threads, keys and blocks, all sizes, limits and thresholds (`LruAssumption`):

| theorem | property |
|---|---|
| `LimitKept` | `WithinLimit`, of `Spec`: for all interleavings |
| `Invariance`, `TypeCorrect` | `Sound`, `TypeOK`, of `ApartSpec` |
| `MemorySafety`, `TableAndLists`, `Accounted` | `MemorySafe`, `TableMatchesLists`, `Accounting`, of `ApartSpec` |

`LimitKept` takes no hypothesis about the threads.  The size grows in `insert_cache` only, which goes on to weed out when the cache is
full, and whoever frees a victim looks at the size again under the same lock (`LimitInv`; `Shrinks` for all that does not grow).

`Apart` is needed for the others: without it `lru_weed_race` refutes what the cache promises.  It leaves any
number of readers, lookups, insertions, erasures and weedings under way at once.  The properties go round circular lists and sum over
sets.  `Sound` avoids both.  *Lists*: `next` and `prev` are inverse on the items (`Doubly`), every item is on the side of one head (`Sided`), and no
set of items is closed under `prev` (`Headed`), so there is no ring without a head.  Unlinking and appending keep the three
(`Removes`, `Appends`) without following a pointer more than once.  Only `TableAndLists` walks: `Round` shows by the pigeonhole
principle that a walk of `Cardinality(Block)` steps meets all items of its side.  *Sums*: the
bytes of the items are a finite set (`BytesOf`) whose cardinality is `curr_size`; `SumIsCount` shows that this is the sum `Accounting` speaks of.
*Owners*: `Keeps` is the cache as one step sees it: the items `O` the cache owns a reference to, those `S` of them that are on a list,
those `N` that are not counted yet, and the readers `R`; an item has one reference for its owner and one for each reader (`Refs`), and is
live as long as it has any.  `Sound` is `Keeps` with these sets read off the table and off what the threads are in the middle of
(`Owned`, `Offs`, `News`, `Reads`, `Count`).  Each of `Unref`, `RemoveList`, `AppendTo` keeps it with the sets changed accordingly
(`KeepsRelease`, `KeepsDisown` and so on); `Apart` says that the sets of two threads are disjoint.

Induction over data is possible where it is about sets: `Least` (a set of numbers has a least element) and `AllNat` are instances of
well-foundedness (`WFMin`, `NatLessThanWellFounded`), which take sets and not operators.

`Framing_proofs`, for every set of scripts, every size of streams, buffers and packets, any cuts, hang-ups and time-outs
(`StreamAssumption`, `BufferAssumption`, `FramingAssumption`):

| theorem | what it says |
|---|---|
| `DoubledEnough` | `bin_stream_resize` ends, with room for what is asked |
| `RoundTrip` | `Decode` undoes `Encode` for every list of fields and every message that fits, wherever in a stream it stands |
| `FInvariance` | `[](count.request = 0 => FInv)`: as long as the server has not seen 1 to 3 bytes of a request behind a whole one |
| `ExchangeSteps` | the safety part of `Implements`: every step to a state with `count.request = 0` is one of `Exchange` or leaves its variables alone |
| `AnswersStayWhole` | `[](ServerWell => AnswersWhole)`: the send stream neither loses nor repeats a byte of an answer |
| `CallsAnsweredInTurn` | `[](AllWell => AnsweredInTurn)`: until the client gives up, each call returns success and the answer to its request |
| `PatientClientAccepts` | `[](AllWell /\ count.timeout = 0 => AcceptedIsMine)` |

Hypotheses: `WellSent`, the clients send what the library can (`ClientEncodes`), with strings that fit the buffers of the server and
packets shorter than 2^32; the constants of the run `framing` satisfy it.  Nothing is assumed of the network or of `realloc`: the
theorems are about `Spec`, in which heads are cut and streams move, and say how long the promise lasts.  `ServerWell` is
`count.request = 0 /\ count.move = 0`, `AllWell` adds `count.answer = 0`.  Beyond that it does not last:
`cut_head_server`, `stale_head` and `cut_head_client` break what each of the three counts.  From `WellSent` it follows, by `ListsMatch` (each of the eleven lists of
the client names the fields of the server's list, in the same order and width) and `RoundTrip`, that a packet that is there whole is read back whole
(`PacketRead`).  `FInv` says where packets stand: `Carries` compares the bytes to come, those unread in the stream and behind them those under way, byte by byte
with the packets of the requests sent and not executed.  It is kept by sending (`SendCarries`), reading (`ReadComing`), moving
(`MoveKeeps`), growing (`ResizeKeeps`) and executing (`NextCarries`).  At the start of a turn of `split_message` not
1 to 3 bytes of a packet are left (`HeadHasCome`), so that the unsigned subtraction of `cell_handler.c:211` does not wrap.  The
packet length is not compared with `MAX_PACK_SIZE` by a hypothesis: too long a packet closes the connection, which `Exchange` allows.
`WellSent` also leaves out `TEST_MSG` and `STATE_INFO`, which the library never sends.

The last three are the way back, and rest on `FInv`, since what the server says are answers to the requests sent.  They
take one more hypothesis, which the run `framing` satisfies.  `AnswersFit`: the strings of the answers fit the
buffers of the client, the paths are shorter than 2^16, so that no answer reaches 2^32 bytes, and no request is
`CLEAN_CACHE`, whose answer has no body.  That an answer fits and is read back
(`AnswerPackable`, `AnswerCome`) is the same argument as for requests, with the encoders of the server and the decoders of the
client (`AnswerListsMatch`); `AnyPacketBytes` and `AnyPacketRead` serve both directions.
`SInv` says that what the send stream holds continues, byte by byte, the bytes said so far behind the first `put` of them (`Continues`); it is kept by
`WriteContinues` (`hander_send`, also when the stream grows), `AdvanceContinues` and `MoveKeeps` (`handler_on_write`).
`CInv` is the client's side.  The results alone say nothing of the bytes of the answer that is under way; `InTurn` adds that
all calls but the one that waits have returned, that the server has executed as many requests as were sent, or one
less, and that the one answer outstanding is split over three places, without a byte of any other: what has come is in
the client's stream, what is written lies behind it on the connection (`Arrives`), the rest is in the send stream
(`Continues`).  `RecvAnswers` is the step that needs all of it: a length is read only when 4 bytes are there, it is the
length of this answer, and when that many bytes have come nothing is left anywhere that `recv_packet` could drop.
`InTurn` is lost with the first time-out and back with the next connection, which is why `AnsweredInTurn` speaks of the results before the first
"timeout" (`PatientTo`).  `GaveUpLast` says that without a time-out used up such a result can only be the end of a connection the server
dropped; that turns `AnsweredInTurn` into `AcceptedIsMine` on all connections.

`Doubled`, `Encode`, `Decode`, `Sum` are recursive functions.  That such a function exists is proved by building it (`DoubledExists`,
`PiecesExist`, `TotalsExist`), what it computes by `AllUpTo`, induction as a set that holds 0 and the successors.

### What is model-checked only

- `AcceptedIsMine` of `Framing` after a time-out.  For all messages it is not even true: the client may then begin to
  read in the middle of a late answer, and that its bytes are no valid answer with the right sid is a matter of the data;
  the run has messages whose fields all differ.
- That answers come at all (`Answered`); `CallsAnsweredInTurn` says what a call returns when it returns.
- The fairness of `Implements` of `Framing`: that every request is executed while the client stays.
- Liveness: `LockFreed`, `Answered` (`MetaService`, `Framing`), `JoinsEnd`, `InputServed`, `Returns`, `StopEnds`, `Restarted`, `StaysRegistered`.
  The backends have no ENABLED and no fairness rules.
- `Lifecycle` as a whole, whose properties are all liveness.

The hypotheses of the theorems are not conveniences of the proof.  Each of these configurations of section 4 leaves one out and
shows what then goes wrong: the four events of `Orderly` (`meta_get_delete` and `meta_lost_update` for requests that overlap,
`meta_stale_version` and `meta_lost_version` for the old version; an update reported as failed and a query answered by a slave
that is behind are excluded because TLC finds `Implements` or `CacheCoherent` violated without them), `Apart` of the cache (`lru_weed_race`),
`UniqueSids` (`rpc_same_sid`), `Injective` (`upload_collision`), `MaxSize < Half` (`upload_big`), `count.request = 0`
(`cut_head_server`), `count.answer = 0` (`cut_head_client`), `count.move = 0` (`stale_head`).

## 6. Plan

Done: all modules of section 2, in the order of how much of the server depends on them, and the proofs of section 5: every
invariant the runs check is proved, `AcceptedIsMine` for clients that do not give up, and the three refinements, the one of `Exchange` but
for its fairness.

Next, modules: the object pool with its check outside the lock; a second metaserver with
its own cache (`cell.c:317-318`); descriptors at AE_SETSIZE.

## 7. Not modelled

Configuration and logging; the destroy functions, which one thread runs after all others; the
64-bit and signed conversions of `cell_codec.c`, which no message uses; out-of-memory,
except that the pool of handler objects is bounded; chains of the hash table longer than one item;
SIGPIPE; more descriptors than `FD_SETSIZE` (`meta_rpc.c:111` would write beyond the set) or
`AE_SETSIZE`; a second metaserver; several slaves (`MetaService` has one); `cell_state_info`, which
prints counters; the ZooKeeper functions without a caller.
