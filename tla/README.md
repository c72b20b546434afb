# Formal verification of phpredis

phpredis is a PHP extension in C: it gives PHP scripts the classes `Redis`,
`RedisArray`, `RedisCluster` and `RedisSentinel`, and PHP's session module the
save handlers `redis` and `rediscluster`.  This directory holds TLA+ models of
its core logic, the TLC configurations that check them and the TLAPS proofs of
their main theorems.

    tlc -workers 2 -config SessionLocks.cfg MCSessionLock.tla
    tlapm SessionLockProofs.tla

`PROJECT.json` lists the runs, the source lines of every definition, the mutants
that show that each property can fail, and the hazards the properties are for.

## 1. The system

Everything runs in the PHP thread that calls it: there are no threads or event
loops in the extension.  What makes it hard is around it: the server executes
commands of many processes, connections break between a command and its reply,
sockets outlive requests (persistent connections), and one connection carries
state (database, transaction, watched keys, subscription) that the client must
mirror.

| # | Component (sources) | State | Operations | Interacts with |
|---|---|---|---|---|
| 1 | Connection, `RedisSock` (library.c) | stream, status, mode (ATOMIC, MULTI, PIPELINE), watching, dbNumber, readonly, reply_callback queue, pipeline_cmd buffer | connect, server_open, check_eof, write, gets, read_reply_type, disconnect, reconnect, auth, select | stream layer, server, pool, everything above it |
| 2 | `Redis` object (redis.c) | one RedisSock | connect, close, reconnect, select, multi, exec, discard, pipeline, watch, unwatch, the command methods, the destructor | 1, 6 |
| 3 | Persistent connection pool (library.c) | list of idle streams, nb_active, limit | take from pool with liveness check, put back, count | 1 |
| 4 | Backoff (backoff.c) | algorithm, base, cap, previous delay | initialize, compute, reset | 1 |
| 5 | Publish/subscribe (library.c) | three callback tables in the socket | subscribe loop, unsubscribe, the callbacks, which call the object again | 1, 2 |
| 6 | Reply readers (library.c) | position in the reply stream | one function per reply shape, nested arrays, errors | 1 |
| 7 | Session handler `redis` (redis_session.c) | pool of servers, lock status, session_key_missing | open, close, create_sid, validate_sid, read, write, update_timestamp, destroy | 1, PHP session module, other processes through the server |
| 8 | Session handler `rediscluster` (redis_session.c) | a cluster object | the same operations without locking | 9 |
| 9 | `RedisCluster` (cluster_library.c, redis_cluster.c) | slot table, nodes with replicas, redirection, one socket per node, list of queued MULTI commands, slot cache | map keyspace, send command with MOVED/ASK, failover to replicas, multi, exec, discard, watch, multi-key commands, scan | 1 |
| 10 | `RedisArray` (redis_array.c, redis_array_impl.c) | ring of hosts, previous ring, key index, multi host | find node, forward call, mget, mset, del, multi/exec, rehash | 2 |
| 11 | Sentinel (redis_sentinel.c) | one RedisSock | queries | 1 |
| 12 | Command builders (redis_commands.c, redis_cmd.c) | none | format a command | 2, 9 |
| 13 | Serializers, compression (library.c) | options | pack, unpack | 6 |
| 14 | SCAN family (redis.c, redis_cluster.c, redis_array.c) | cursor in a PHP variable | scan | 2, 9, 10 |

What makes each correct, and where it is hard:

* **Connection.** The reply read is the reply of the command sent.  It breaks when
  a reader stops before the end of a reply without closing the socket, when a
  reconnect happens between two commands of a transaction, when callbacks and
  commands in flight get out of step.  After a reconnect the database is the one
  selected before.
* **Redis object.** MULTI and PIPELINE return one value per queued command, in
  order; a command that fails to be queued must not shift the others.  EXEC,
  DISCARD and the destructor leave the connection usable or closed.
* **Pool.** nb_active is the number of streams that exist; the limit holds; a stream
  in the middle of a transaction, or with unread replies, is not handed out.
* **Backoff.** Delays stay between 0 and the cap and do not overflow.
* **Publish/subscribe.** The loop ends when the last subscription is gone; a channel
  and its callback stay together.
* **Session handlers.** Mutual exclusion of requests on one session, no lost update,
  no lock left behind, session_start returns.
* **Cluster.** A command ends with the reply of a node that serves its slot, or an
  exception; the slot table follows MOVED and not ASK; MULTI opens one transaction
  per node and closes each; a socket is not left with an unread reply.
* **Array.** A key lives where the ring says; a rehash loses no key, also when a
  server fails in the middle; multi-key results are in the order of the arguments.

## 2. Modules

| Module | Models |
|---|---|
| `SessionLock` | component 7: the `redis` save handler with locking, several PHP processes, one server |
| `SessionStore` | what locking promises, seen from the server: a store with exclusive leases |
| `MCSessionLock` | instances of SessionLock for TLC |
| `SessionLockProofs` | type correctness of SessionLock; mutual exclusion, no lost update, no orphan lock |
| `SessionStoreProofs` | SessionLock implements SessionStore |
| `Connection` | components 1 and 2: one RedisSock, the methods of the Redis object that drive it, and the server at the other end |
| `ConnectionProofs` | the types of Connection, the mirror of the pipeline; the record of the client and the one of the server agree: replies, transaction, watched keys, database, reconnection |
| `ConnectionPool` | component 3: the streams of `pconnect()`, several Redis objects of one process that share them |
| `ConnectionPoolProofs` | all properties of ConnectionPool: types, owners and counts of the streams, replies, sessions |
| `PubSub` | component 5: subscribe() and psubscribe() on one Redis object, with callbacks that call it again |
| `PubSubProofs` | all safety properties of PubSub |
| `Cluster` | component 9: the slot table, the command loop, WATCH and transactions over several nodes |
| `ClusterProofs` | all safety properties of Cluster: types, the replies of commands and transactions, the mode of the sockets, watched keys, what takes effect |
| `RedisArray` | component 10: two rings of hosts, fallback, moving of keys, index, transactions, several processes |
| `RedisArrayProofs` | all invariants of RedisArray: no connection stays in MULTI, the types, the indexes and `_rehash()`, the values of reads |
| `RedisArrayShowProofs` | the action property of RedisArray: a migration shows nothing |
| `Commands` | components 6, 9, 12, 14: one method call of `Redis` and of `RedisCluster`, from its arguments to its result; composes the modules below |
| `RedisCmd` | redis_cmd.c: how a command is put together, its slot, what makes it be refused |
| `GenericCommands`, `ChannelCommands`, `ZsetCommands`, `StringCommands`, `CollectionCommands`, `GeoCommands`, `KeyCommands`, `StreamCommands`, `VectorCommands` | redis_commands.c: one operator per builder |
| `Methods`, `RedisMethods`, `ClusterMethods` | which builder and which reply handler each method uses (redis.c, redis_cluster.c) |
| `Replies`, `ReplyReaders` | the tokens of the protocol and the readers both clients share (library.c) |
| `RedisReplies`, `ClusterReplies` | the reply handlers of library.c and of cluster_library.c |
| `RedisServer`, `ServerReplies` | external: where the server finds the keys of a command and whether it writes; the shapes of its replies |
| `MCConnection`, `MCConnectionPool`, `MCPubSub`, `MCCluster`, `MCCommands`, `MCRedisArray` | instances for TLC |

### SessionLock

Processes `Procs` serve requests.  PHP's session module calls the handlers in
an order that is part of the model (`pc`): PS_OPEN, then PS_VALIDATE_SID and
PS_CREATE_SID for an id that is missing or unknown, PS_READ, the script, then
PS_WRITE, PS_UPDATE_TIMESTAMP or PS_DESTROY and PS_CLOSE; session_regenerate_id
saves or destroys, closes, opens and creates a new id in the same request.

An action is one command to Redis with the code of the handler before and after
it, because other processes run between two commands and not inside one.

| Model | Code |
|---|---|
| `lock[s]`, `data[s]`, `cached` | the keys `PHPREDIS_SESSION:s_LOCK`, `PHPREDIS_SESSION:s` and the script cache of the server |
| `late` | commands that their sender gave up on (the socket was closed); they are executed later or never |
| `locked`, `skey`, `lkey`, `nonce` | `lock_status.is_locked`, `session_key`, `lock_key`, `lock_secret` (redis_session.c:94-100) |
| `up` | the pool's socket is READY; redis_sock_server_open connects it in the next handler, not between two commands of one |
| `missing` | `pool->session_key_missing` |
| `attempt`, `tries` | the counters of lock_acquire and PS_CREATE_SID |
| `CreateSid`, `LockGranted`, `LockBusy`, `LockLost`, `LockUnsent` | lock_acquire and set_session_lock_key, called from PS_CREATE_SID and PS_READ |
| `Delex`..., `EvalSha`..., `Eval`... | lock_release: DELEX or DELIFEQ, then EVALSHA, then EVAL |
| `WriteDenied`, `WriteUnchecked`, `WriteChecked` | write_allowed |

Abstractions: a lock secret is a pair of a process and a number the process never
uses again (16 random bytes in the code); the session data is the secret of the
session that wrote it; time is not measured, a key with a TTL may expire at any
step.  PS_CREATE_SID may draw an id that exists: PHP's ids are random, and the lock
must hold for any.  PS_CREATE_SID leaves `session_key` dangling after a
failed lock_acquire (845): its next use may kill the process (`DanglingCrash`) or go
on with whatever is there; both are in the model.  The order of PHP's calls, the
crash of a process and the semantics of Redis' commands are external and modelled from how
redis_session.c uses them.

### Connection

One object, one stream, one server.  A method call is a sequence of steps, and the
server may handle a command, refuse it, close the connection or be late between
any two of them: `pc` goes from `idle` through `open` (redis_sock_server_open), `ready` (the
method decides: queue, change the mode or write), `check` (redis_check_eof), `write` and
the reads, back to `idle`.

| Model | Code |
|---|---|
| `status`, `stream`, `mode`, `watching`, `dbNumber` | the fields of RedisSock; `mode = {}` is ATOMIC |
| `callbacks` | `reply_callback`, each callback named by the command it was saved for; MULTI and EXEC in a pipeline save one without a function (`Marker`) |
| `pipelineCmd` | `pipeline_cmd`, as the commands in the buffer |
| `wire`, `replies` | bytes written and not yet handled; replies sent and not yet read, one for each command, the reply to EXEC with its elements |
| `server` | what Redis holds for the connection: database, transaction and its queue, watched keys, whether one was touched |
| `pos`, `left`, `got` | the callback the loop of exec() is at, the elements still to read, the header of a bulk reply whose payload comes next |
| `ServerOpen`, `Handshake` | redis_sock_server_open with AUTH and SELECT, up to the status it stops at |
| `CheckEof...` | redis_check_eof: alive, lost, or reconnected behind the caller's back |
| `Enqueue`, `EnqueueMarker`, `EmptyPipeline`, `NothingToDo`, `StartWrite` | redis_process_cmd, multi(), exec(), discard() by mode |
| `ReadAnswer` ... `ReadFarewell` | the reply handlers of the methods outside of exec() |
| `ReadExec`, `ReadElement`, `ReadTx...`, `EndOfLoop`, `ExecDone` | redis_sock_read_multibulk_multi_reply and its loop, redis_read_multibulk_recursive, exec() |
| `ReadSeesEof`, `ReadTimesOut`, `ReadStopsShort`, `ReadClosed` | the ways a read fails, and what each leaves of the connection |
| `Destruct`, `Connect`, `NewObject` | the destructor with its DISCARD, and connect() on an object that has a RedisSock |

Ordinary commands differ only in the request they are, and have a line or a bulk
reply.  A bulk reply is read in two steps (header, payload), because the payload can
be late.  Where the loop of exec() reads past the end of the callbacks (redis.c:1227), it may find either kind of
callback or the process may die.

`torn` is a history variable: what has happened on this stream that sets the records
of client and server apart.  Every property exempts only the events that really break it:

| Event | Code | Why the records part |
|---|---|---|
| `leftover` | library.c:3492, 3543 | a call finds callbacks or commands of an earlier, lost block |
| `pipelineLost` | library.c:434 | redis_check_eof reconnected a persistent connection and freed the callbacks of the pipeline |
| `gaveUp` | redis.c:1221, 1228 | exec() stopped at a reply that was not the one expected and left the rest unread |
| `stoppedShort` | library.c:834, 4690 | a payload or a type byte was late; the reader stops and leaves the connection open |
| `dbUnseen` | redis.c:1241 | a SELECT ran in a transaction inside a pipeline, whose elements are read without callbacks |

### ConnectionPool

One pool per `redis_pool_spprintf` name holds the idle streams and `nb_active`.  An object
borrows the stream given back first, if the probe finds nothing against it, or opens one;
`redis_sock_disconnect` gives it back or closes it.  Connection follows one stream; this
module follows what a stream takes from one object to the next.

| Model | Code |
|---|---|
| `ini` | `redis.pconnect.echo_check_liveness`, `pool_detect_dirty`, `connection_limit`, and whether `pool_pattern` names credentials |
| `pool[a].idle`, `pool[a].active` | `ConnectionPool.list`, last element oldest, and `nb_active` |
| `sock[o]` | the RedisSock of each object: status, stream, mode, watching, dbNumber, user and password |
| `server[s]` | external: whether the stream is open and alive; database, user, transaction and WATCH of the server; `left` and `where`: whose unread reply is on it, and whether it is still on its way, in the socket or in PHP's buffer |
| `Pconnect`, `Destroy`, `Reconnect`, `Method` | `pconnect()`, `free_redis_object`, `reconnect()`, and `redis_sock_get` for all other methods |
| `Borrow`, `BorrowFails`, `Open`, `OpenFails` | `redis_sock_connect_impl` with `redis_sock_check_liveness` and the limit |
| `Auth`, `Select`, `HandshakeRefused` | `redis_sock_server_open`, and the same handshake in `redis_check_eof` |
| `FindsEof`, `ReadFails`, `CommandStopsShort` | a dead stream at a write, at a read, and a payload that is late |

`reused` marks a stream that has been in a pool: an object that chose no database and no user
then works in those of the last user, and keys the last user watched stay watched.
`OwnSession` asks nothing else of such a stream.  `astray` marks a stream where a reply was
taken for another (it is then not known what AUTH or SELECT did), `torn` whose reply it was.
`rekeys` counts `auth()` calls that change the pool's name while the stream is borrowed
(redis_commands.c:3283): `nb_active` of both pools is off by one afterwards, and only their sum is
right (`AllCounted`).

### PubSub

subscribe() returns when its loop ends, and while it runs its callbacks may call any method of the
same object: another subscribe() joins the table of a loop of its kind or starts a loop of
its own kind inside, unsubscribe() takes names out of the table, and both read their
acknowledgements from the stream that also carries messages.

| Model | Code |
|---|---|
| `subs[k]` | `RedisSock.subs[REDIS_SUBSCRIBE_IDX, REDIS_PSUBSCRIBE_IDX]`: NULL, or callbacks by channel or pattern |
| `stack` | the C stack: the method calls under way, each with `sctx->argc`, the table it builds and where it is |
| `thrown` | `EG(exception)` within a callback |
| `up`, `server`, `inbox` | the stream; external: whether the server still has the connection, its subscriptions, and what it has sent that is not read |
| `Subscribe`, `Unsubscribe`, `Command`, `Close`, `CallFails` | the methods, up to the command that is written; `Reopened` is redis_sock_server_open or redis_check_eof with a new connection |
| `ReadAck`, `Subscribed`, `LoopEnds`, `HandOver`, `NoCallback`, `NotAMessage` | redis_subscribe_response: acknowledgements, table, loop, callback |
| `ReadUnack`, `Unsubscribed` | redis_unsubscribe_response |
| `wanted`, `due` | history: the callback last given for each subscription; the messages sent and not handed over |

Names are channels and also the patterns that match just them, so that one message can be due
twice.  What zend_call_function does while an exception is pending depends on the version of PHP (it
fails, or returns without a call): `Pending` has both.  ssubscribe() is refused without a cluster
(redis_commands.c:1586-1595), so there are two kinds and not three.

| Event of `torn` | Code | What happens |
|---|---|---|
| `raced` | library.c:590, 750 | a message arrives before an acknowledgement and is read in its place |
| `otherKind` | library.c:686 | a loop reads a message for a subscription of the other kind and looks for it in its own table |
| `reconnected` | library.c:434, 3502 | a connection made again below a loop has none of its subscriptions |
| `stale` | library.c:621 | subscribe() finds the table of a loop that was lost, and returns TRUE |
| `thrown` | library.c:706 | a loop inside a callback that has thrown reads a message |
| `stoppedShort` | library.c:834 | the payload of a message is late |

After one of them the application only calls connect() (`MayCall`).

### Cluster

One `RedisCluster` object; every step is one write or one read on the socket of one node, so
that slots move, nodes die and connections close between any two.  The client's record of
a node (`link[n]`: RedisSock with its mode and watching) stands beside what the server holds for it.

| Model | Code |
|---|---|
| `master`, `nodes`, `slaves`, `nodeSlot` | `redisCluster.master`, `.nodes`, and each node's `slaves` and `slot` |
| `mode`, `fold`, `refused` | `flags->mode`, the list from `multi_head`, `multi_len[slot] = -1` |
| `cmdSlot`, `cmdSock`, `redir` | `cmd_slot`, `cmd_sock`, `redir_type`, `redir_slot`, `redir_host` |
| `op.readonly` | `redisCluster.readonly`: methods for keys set it, `watch()`, `exec()`, `unwatch()` and `cluster_empty_node_cmd` find it as an earlier method left it |
| `Send`, `Read`, `FollowAsk`, `Failed` | `cluster_send_command`, `cluster_check_response`, `cluster_set_redirection` |
| `Write`: `WriteTo`, `Miss`, `Readied`, `NobodyToWriteTo`; `Tried`, `missed` | `cluster_sock_write`: the nodes it tries, one attempt at a step (cmd_sock, replicas by `cluster_dist_write`, every node); READONLY before a replica, with its reply |
| `FollowMoved`: `UpdateSlot`, `Mapped`, `MappingFails` | `cluster_update_slot` with its failures, `cluster_map_keyspace`, `cluster_map_slots` |
| `CallDirected`, `SlotFailed`, `SlotSucceeded` | `cluster_send_slot`: EXEC, DISCARD, UNWATCH and methods directed at a node |
| `SendMulti`, `ExecNode`, `ReadExec`, `CollectReply`, `DiscardNode` | `cluster_send_multi`, `RedisCluster::exec`, `cluster_multi_mbulk_resp`, `cluster_abort_exec` |
| `SlotMoves`, `KeyMoves`, `MigrationEnds`, `NodeDies`, `Touched` | external: resharding, failover, other clients |

The properties exempt what follows an event of `torn` (`Tears`), each a place where the
code leaves a connection in a state it does not know:

| Event | Code |
|---|---|
| `abort` | `cluster_send_discard` returns -1 for success (cluster_library.c:422), so `cluster_abort_exec` (1619) takes a clean node for a failed one and the reverse |
| `splitExec` | `exec()` gives up when one node fails, with the arrays of others unread (cluster_library.c:2926-2940) |
| `oldRefusal` | `multi_len` is set for the one slot EXEC is sent with, and nothing resets it (cluster_library.c:414): a -1 of an earlier transaction makes `cluster_multi_mbulk_resp` (2926) pass over a later item of that slot, whose reply stays on the socket |
| `orphanMulti` | MULTI goes to a node whose first command is then refused; nothing is queued for it, so neither EXEC nor DISCARD goes there |
| `lateReply` | `cluster_send_slot` keeps a socket whose reply timed out (cluster_library.c:1664-1699), and so does `cluster_send_direct` (348): a late +OK to READONLY on a replica answers its next command. `cluster_send_command` closes such a socket |
| `queueLost` | `close()` in MULTI (redis_cluster.c:404), or a command that timed out (cluster_library.c:1795): `exec()` still counts on the queue of that node |
| `fellBack` | in MULTI `cluster_sock_write` tries a node that was not sent MULTI: a replica or any other node (cluster_library.c:1495-1522). The command, or EXEC, then reaches a server that is not in the transaction and runs at once |
| `watchLeft`, `watchLost` | `cluster_reset_multi` clears `watching` without UNWATCH (redis_cluster.c:84-95); `watch()` counts an error as success (redis_cluster.c:2255); after MOVED the watch stays at the old node; after ASK, and when WATCH falls back to a replica, another node watches than the one whose socket is marked (redis_cluster.c:2262); the connection that watched is lost and `cluster_sock_write` goes on with another node |
| `oldAsk` | `redir_type` stays ASK after a failed command (cluster_library.c:1487): the next one is preceded by ASKING |

`fellBack` is the one an application meets without any mistake of its own, under
`OPT_SLAVE_FAILOVER` = ERROR: `get('a')` leaves `c->readonly` set; `multi()`; `time('a')` or another method of
`cluster_empty_node_cmd` (redis_cluster.c:2424-2460) leaves it so; MULTI is sent, the connection drops, and
`cluster_sock_write` (cluster_library.c:1495-1498) turns to the replica, which answers at once; the same with EXEC.  The
properties do not promise what the code does not keep: from the first try of a node other than the one that
has MULTI (`FellBack` in `WriteTo` and `Miss`) they say nothing.  Before it, they
include every state with `c->readonly` set, in and outside transactions.

`UpdateSlot` has all ends of `cluster_update_slot`: the node is known; it is a replica of the
old master (a failover, the keyspace is mapped anew, which may fail before or after the old table is
gone); the old master has no replicas ("master data is incomplete", 1563-1567: the call throws, and
the table stays); it is new and joins `nodes`.  The branch for a slot without a master (1595-1605), which
leaves the node out of `nodes`, is modelled and never taken: a table without masters has none for any slot,
and `cluster_send_command` throws before it sends.

With failover `DISTRIBUTE` and `DISTRIBUTE_SLAVES` (both in `Strategy`) the loop ignores the node a
redirection named, `cluster_dist_write` takes the replicas of `cmd_slot`, and a fallback has changed that to a slot of another
node (cluster_library.c:1397-1442, 1519): the loop then ends by `waitms` only.  `CallReturns` is therefore
claimed for `NONE` and `ERROR`; the safety properties hold for all four.

### RedisArray

Processes with the same configuration, servers with a key space and an index each.  A step
is one command on one server, or all that one connection sends from MULTI to EXEC with
nothing sent elsewhere in between.  `Logical(k)` is the value of a key as the applications
see it through the array: that of its host, else that of its previous host.

| Model | Code |
|---|---|
| `Ring`, `Prev`, `ra_find_node` | `ra->redis`, `ra->prev`, the position of a key |
| `conn` | the Redis object of each host: whether it is in MULTI and what it queued |
| `multi` | `z_multi_exec` |
| `Forward`, `Write`, `Read`, `ReadPrev`, `Mget` | `ra_forward_call` and its fallback, `mset`, `del`, `mget` |
| `IndexCommand` | `ra_index_keys`, `ra_index_key`, `ra_index_del` |
| `List`, `Scan` | `ra_rehash_server` |
| `MoveType` ... `MoveExec` | `ra_move_key`: TYPE, MULTI, read and TTL, write, DEL and SREM at the source, EXEC |
| `Lose`, `Fill` | a connection lost before or after execution; a server at maxmemory |

What the array does not survive (`Tears`; `OnlyWritesShow` exempts these steps, and nothing
new starts after one):

| Event | Code |
|---|---|
| `lostInMove` | the key is deleted at its source before EXEC at the target (redis_array_impl.c:1128) |
| `overwrote`, `lateDelete`, `staleTtl` | another process writes between the reads, the DEL and the EXEC of `ra_move_key` (1092-1136) |
| `movedTwice` | two processes move the same key and carry different values: the loser of the race reads it again at the host it shares in both rings (the fallback does not compare the hosts, redis_array.c:309-337) |
| `persisted` | a key with less than a second to live is moved without its expiry (947) |
| `resurrected`, `split` | DEL, or adding to a list, set or hash, at the host of a key that is still at its previous host (redis_array.c:309-337 falls back for reads only) |
| `unindexed` | a write in a transaction of the application is not indexed (redis_array.c:297) |
| `leftOpen` | a collection that has gone meanwhile: RPUSH or SADD without elements throws and leaves the target in MULTI (redis_array_impl.c:1057) |
| `multiTwice` | `multi()` on a second host forgets the first (redis_array.c:1189) |
| `execByMove` | a move ends the application's transaction on its connection |

A connection lost in a move counts as `leftOpen` (`Lose`) when it leaves the target in MULTI: the exception ends
ra_move_key() before ra_index_exec().  The proof of IndexCovers found that this matters also when the target is the
connection of the application's own transaction, as when `_rehash()` is called in it: the key that the move has queued there is then written
by the application's exec(), without the SADD.  TLC reaches it with MaxEvents = 5 and MaxFaults = 2, more than `array_moves` has.

The search for an invariant that implies OnlyWritesShow found `movedTwice`: when a key has the same host in
both rings, the fallback of a read that found it missing may find it there again, and moves it to where it is.  Three
processes that do so around a write can hold different values of the key; it takes four calls, one more than
`array_moves` has.

`RingAssumption` leaves out a hash of 0, for which `ra_find_node` computes a position past
the ring (redis_array_impl.c:548).  arrays.md:10 says that reads go to the second ring as a backup,
and arrays.md:135 that `_rehash()` redistributes all keys.  In the code a read falls back only if
its result is FALSE or empty (`ra_call_failed`), so EXISTS, LLEN and STRLEN answer 0 for a key
that is still at its previous host, and mget() asks the present ring only; streams are never moved, since
`ra_move_key` does not know the type.  The model does what the code does.

### Commands

A behaviour is: both clients build a command from the same call (`Call`), the server answers
with any reply it may give (`Serve`), each client's handler reads it (`Read`), alone or
among the replies of EXEC.  An argument is a token: what it is (key, channel,
number, value, option word, ...), whether it was serialized, and which of the caller's it is;
never its text.  A reply is the sequence of its protocol tokens, so a handler that reads one
too few or one too many is seen.

The properties hold but for the commands that Commands.tla names, each set at the property
that has it:

| Set | Commands | Code |
|---|---|---|
| `WritesOnReplica` | GETDEL, GEORADIUS and GEORADIUSBYMEMBER with STORE go to a replica | redis_cluster.c:432, 3093, 3103 |
| `TypeMistaken` | WAIT and WAITAOF in MULTI of a cluster expect an integer, get +QUEUED and throw | redis_cluster.c:3145-3209 |
| `ErrorHalfRead` | ACL GETUSER and ACL LOG; INFO and CLIENT in EXEC of a cluster: the line of an error is left | library.c:2777-2801, cluster_library.c:2578-2624 |
| `NilHalfRead` | XCLAIM (a nil entry); GEOHASH on a cluster (a nil member) | library.c:2220, cluster_library.c:3154-3173 |
| `LeftOut` | Redis::info and Redis::client add nothing to EXEC's results for an error | library.c:1129 |
| `GivesRaw`, VLINKS | members come back as they are stored; VLINKS unserializes every other link | library.c:2561-2586 |
| `Unserialized` | members sent as they are | redis_commands.c |
| `PrefixedAstray` | `debug()` prefixes the subcommand; `pubsub()` of a cluster does not prefix channels | redis_commands.c, redis_cluster.c |
| `NodeDoesNotMatter` | channels; XGROUP HELP, for which redis_cmd_finalize ends the script on a cluster | redis_cmd.c:106-129 |
| `TakenDifferently`, `RefusedDifferently` | the two handlers of these commands differ for the same reply, or for an error | library.c, cluster_library.c |

What the tables also record: `expirememberat()` of a cluster sends EXPIREMEMBER
(redis_cluster.c:1592); SSUBSCRIBE is refused without a cluster (redis_commands.c:1586-1595);
SET with `EX` becomes SETEX and drops IFEQ and GET (redis_commands.c:2229-2256, 2371-2422);
`eval()` announces as many keys as it is told, even if it has fewer (redis_commands.c:1706-1742).

## 3. Runs

Bounds of the session runs: `MaxOpens` PS_OPEN calls per process and `MaxFaults` faults
(lost replies, error replies, crashes) in a behaviour; they are guards of `Open`,
`Script` and `Fault` and bound nothing else.  Two processes and one session show every
conflict of two actors, and the late commands of earlier sessions need `MaxOpens = 2`.
More processes, sessions and faults are covered by the proofs, which bound none of
them.  Processes are symmetric (`Symmetry`) in the safety runs; liveness runs do not
use it.

Bounds of the connection runs: `MaxQueue` commands in a block (three are a
transaction of one command inside a pipeline, or a block of three), one database besides 0, two
ordinary commands, enough for a reply to be taken for that of another.  `Explored`
names the events of `torn` after which the application still calls any method; after the
others it only calls connect(), because the properties say nothing there.

| Run | Shows |
|---|---|
| `session_locks` | lock_expire set, DELEX, GETEX, read-only sessions, one fault: mutual exclusion, what a holder read stays until it writes, and the refinement of SessionStore |
| `session_write` | violation: with `redis.session.lock_expire` = 0 and a max_execution_time, a process whose lock ran out still writes, and another may hold it (redis_session.c:431-434) |
| `session_ends` | no lock TTL, new and regenerated ids, two faults and a DELIFEQ the server does not know: no lock left behind on any path; liveness: every request ends, every lock that no fault hit is given back |
| `conn_safety` | all methods on a persistent connection: each reply is read by the command it answers and none is left; transaction, watched keys and database of the client are those of the server (`ServerMirrored`), and so is the pipeline; no reconnect moves a transaction or watched keys to another connection |
| `conn_returns` | liveness, on a connection that is not persistent: every method returns whatever the server does, also with callbacks of an earlier block left behind |
| `conn_exec_replies` | violation: a plain connection lost in MULTI leaves its callbacks to the next transaction, whose exec() gives its replies to them (redis.stub.php:1478) |
| `pool_streams` | each persistent stream has one owner and is counted once, so the limit holds; an object reads its own replies, in the database and as the user it chose |
| `pubsub_loops` | subscribe() and psubscribe() nested in callbacks in any order: each message reaches the callback last given for it, once and in order; the tables are the subscriptions the server has, and nothing is unread after the last loop; all loops return when the last subscription is gone |
| `cluster_safety` | three masters and a replica, one thing of each kind that may happen to them: commands run at most once and only by EXEC within MULTI, get their own reply, leave none; the table names known nodes or no slot is mapped; WATCH is honoured; every call returns, a slot that moved followed or, if its old master had no replicas, with the exception of cluster_update_slot |
| `cluster_discard` | violation: exec() that fails on one node leaves replies on another, because `cluster_send_discard` takes success for failure (cluster_library.c:1616) |
| `commands` | every method that is one command, all options in twos, every reply shape: keys, counts and options where the server looks for them, values serialized both ways, nothing written on replicas, replies read to the end, the same result from both clients, one result each in EXEC |
| `array_moves` | two processes while a host is added: only the applications' own commands change what they see, reads are fresh, the index is complete, `_rehash()` leaves nothing behind, no connection stays in MULTI |

Bounds of the pool: two objects and three streams (one more than objects, so that an idle one
can be left), one user and one database besides the defaults, one `auth()` that changes the pool.  Four
settings, each with the methods that matter under it (`uses`), take the place of all combinations.
The idle list may hold any number of streams that exist; counters are bounded by the streams.

Bounds of the loops: `MaxCalls = 4` calls are a loop, a loop or an addition inside its
callback, and an unsubscribe of each; two names, one kept while the other goes; two messages, one in
flight while the callback of another runs; one fault.  Three messages were run by hand.  The application
may stop, so deadlock is not checked.

Bounds of the cluster: `MaxCalls = 5` calls are WATCH, MULTI, a command to each of two nodes
and EXEC; two slots on two of three masters, a third to move to, a replica to fail over to; `MaxEvents = 1` thing
happens to the cluster besides the timeouts, lost connections before a reply and failed mappings.  The slot of the
master without replicas that moves, the failover, a late READONLY and a fallback in a transaction all
occur in its 590 882 states.  Two events with three calls, and failover `DISTRIBUTE` and `DISTRIBUTE_SLAVES`
(without `CallReturns`), were run by hand.
`Explored = {}`: after an event of `Tears` the application stops.  The application may
stop anywhere, so deadlock is not checked in this run nor in `array_moves`.

Bounds of the array: three keys (two that move, a string and a list; one that stays), two processes,
`MaxEvents = 3` calls and faults together, at most one fault: a move, a write that crosses it,
and a read or a fault.  Run by hand besides: four events; hashes, sets and streams; keys absent at first;
TTL 0; no index; no autorehash; three hosts; no previous ring.

Bounds of the commands: two keys in different slots and one that shares a slot, at most
two options at a time, arrays of up to two elements; one command at a time, since a
handler keeps nothing for the next one but the position in the stream, which the property
is about.

More places where the code does not do what its documentation says, without a run of
their own:

* SELECT in a transaction inside a pipeline is not recorded in `dbNumber` (redis.c:1241), so a
  reconnect returns to the database before it; `DbMirrored` exempts `dbUnseen` for this.
* reconnect() throws "Not connected" after a read error (redis.c:811), the case it is
  documented for (redis.stub.php:1129); the guard `NotConnected` has it.
* A bulk payload that is late leaves the connection open with the rest of the reply in it
  (library.c:834), unlike a line that is late, which closes it (library.c:4670).
* exec() of a pipeline on a lost persistent connection returns an empty array: the callbacks are
  freed with the stream (library.c:3544) and the commands are sent on the new one.
* A command refused in a transaction inside a pipeline makes exec() return FALSE and leave the other
  replies unread (redis.c:1228, README.md:4434): `gaveUp`.
* A message that arrives before the acknowledgement of an unsubscribe() in a callback is taken for
  it: the loop then reads the acknowledgement, or it stays unread for the next command (library.c:750), although
  README.md:4236 calls this the safest way to leave the loop: `raced`.
* After a loop was lost to a read error the next subscribe() returns TRUE at once (library.c:621);
  redis.stub.php:4545 says it waits for messages: `stale`.
* A loop of subscribe() within one of psubscribe(), or the other way around, returns FALSE when a message for the
  outer one arrives (library.c:686): `otherKind`.
* README.md:4256 says that unsubscribe() without channels, or with an empty array, drops all of them; the parameter is
  required and an empty array is refused (redis_commands.c:1622).  README.md:4234 says that what the
  callback returns is returned to the caller; the loop frees it (library.c:711).

**Fairness.** `FairSpec` assumes weak fairness of the steps of a request that was
started: PHP runs handlers and scripts to their end and request shutdown closes the
session.  Nothing is assumed about new requests, expiry, faults or late commands.  SessionsEnd
needs a bounded number of retries: with lock_retries = -1 a process
waits for an orphaned lock without TTL forever, which is what the setting asks for.
LocksReleased exempts the sessions a fault hit: a lost reply of SET NX leaves a lock
that no code path gives back.

`FairSpec` of PubSub is weak fairness of the steps of a call that was made, with its callbacks, which are
expected to return.  A loop reads when something has arrived or the connection is at its
end; nobody has to publish, and the read timeout need not come (with `read_timeout` 0 or -1 it does not).

For Connection, `FairSpec` is weak fairness of `Client`, the steps of a method that was
called: a PHP call runs until it returns, and none of its waits is unbounded, because a read
ends with a reply, with EOF or with the read timeout (`ReadTimesOut`).  The server owes
nothing: it may never answer.

`FairSpec` of Cluster is the same: weak fairness of the steps of a method that was called.  No
read waits forever, and the loop of `cluster_send_command` ends because redirections end: slots stop
moving (`MaxEvents`), a failed update of the table throws, or the call gives up by `waitms` in the code.  The bound
`waitms` is left out, so `CallReturns` says that the loop ends without it.

## 4. Proofs

TLAPS checks, for every number of processes, sessions, faults and every
configuration (`ConfigAssumption` only types the constants and says that `None` is no
session and no secret):

| Theorem | Statement |
|---|---|
| `TypeCorrect` | `Spec => []TypeOK` |
| `Excludes` | `Spec => []MutualExclusion` |
| `LosesNoUpdate` | `Spec => []StableSession` |
| `LeaksNoLock` | `Spec => []NoOrphanLock` |
| `ImplementsStore` | `Spec => StoreSpec` |
| `TypeCorrect` (ConnectionProofs) | `Spec => []TypeOK` of Connection |
| `PipelineIsMirrored` | `Spec => []PipelineMirrored` |
| `RepliesAreMatched` | `Spec => []RepliesMatched` of Connection |
| `ServerIsMirrored` | `Spec => []ServerMirrored` |
| `NeverReconnectsSilently` | `Spec => NoSilentReconnect` |
| `TypeCorrect` (ConnectionPoolProofs) | `Spec => []TypeOK` of ConnectionPool |
| `StreamsAccounted` | `Spec => []Accounted` |
| `RepliesOwn` | `Spec => []OwnReplies` |
| `SessionOwn` | `Spec => []OwnSession` |
| `TypeCorrect` (PubSubProofs) | `Spec => []TypeOK` of PubSub |
| `NoneForgotten` | `Spec => []SubscriptionsMirrored` |
| `HandedOverOnce` | `Spec => Delivered` |
| `ClosesWhatItOpens` (RedisArrayProofs) | `Spec => []NothingLeftOpen` |
| `ArrayTypes` | `Spec => []TypeOK` of RedisArray |
| `RehashingFindsAll` | `Spec => []RehashFindsAll` |
| `ReadsGiveFreshValues` | `Spec => []ReadsFresh` |
| `OnlyWritesAreSeen` (RedisArrayShowProofs) | `Spec => OnlyWritesShow` |
| `TypeCorrect` (ClusterProofs) | `Spec => []TypeOK` of Cluster |
| `RepliesAreMatched` (ClusterProofs) | `Spec => []RepliesMatched` of Cluster |
| `TransactionsMirrored` | `Spec => []TxMirrored` |
| `WatchedKeysHonoured` | `Spec => WatchHonoured` |
| `RunsOnceAsAsked` | `Spec => RunsAsAsked` |

*Types.* TypeOK is not inductive: a release command is built from `lkey`, which is a
session only if the handler stored one.  `Shape` says for each command that comes
next which pointers are set; `TypeOK /\ Shape` is inductive.

*Safety.* MutualExclusion says nothing about Redis, so `HoldersOwn` links each
holder to the lock key: Redis has its secret or the secret is in `expired`.  An
abandoned release could break that; `NoLateRelease` says that none is on its way for a
session that can still use its lock, because releases are sent after the last use, and
`SecretsIssued` that a new secret is in no lock and in no late command.  `Accounted` carries
NoOrphanLock: late commands and the unsent EVAL belong to sessions that met a
fault.  StableSession follows from HoldersOwn: only a holder passes to SETEX, and
two holders of one session cannot both be in time.

*Refinement.* `LeasesUnique` is needed besides: a process that can still
send its SET has not been granted the lock before, not even by a SET it gave up on.
After a lost SET the socket is down, so no second SET with that secret is
sent; the mutant `LockGrantedAgain` removes exactly this.

*Connection, types.* `Shape` is needed besides TypeOK: the callback that ReadElement
takes is one only if the loop is past 0, and an array has an element left whenever one
is read.

*Connection, pipeline.* `PipelineInv` says that a pipeline is open only on a READY
connection, because every disconnection but one leaves the mode; that only exec()
writes in a pipeline; and that a pipeline is opened on nothing left from an earlier
block.  The one disconnection that keeps the mode, in redis_check_eof, happens between
`check` and `write`; from there on (`Sending`) nothing is queued until the mode is left,
so what it loses (`pipelineLost`) is never seen by a later pipeline.  The proof assumes
nothing of the constants but their types (`MethodsAssumption`, `ShapesAssumption`, ...).

*Connection, the two records.* RepliesMatched and ServerMirrored look at a read and at the moments between
calls; `Agree` says at every step what is on the stream and what the server will have told the client when it is
read.  Between exchanges (`QuietAgree`) the stream is empty and the records are equal.  A method that waits
(`OneAgree`) has its command unhandled (`Asked`), everything lost with the server gone (`Lost`), or one reply
(`Answer`) that says what the server did (`Told`): the client only has to act on it.  In the loop of exec()
(`LoopAgree`) the replies answer the callbacks from `pos` on, after the `left` elements of a transaction, and the unhandled
commands are those of the last callbacks (`InOrder`); while nothing is lost (`Complete`) the counts match, and the
database and the watched keys are those the client will have recorded when it has read the rest (`LoopDb`,
`LoopWatch`).  A reply whose payload was lost completes nothing: whatever is read after it meets EOF, and the connection is closed.
`InBlock` and `Balanced` say where in a pipeline a transaction is open, for the server (`LoopTx`) and for the reader
(`Phased`): this is why "+QUEUED" is never taken for an answer.  Four parts carry it: `Streamed` (an object without a stream has nothing
on it), `Stepped` (which call is at which step in which mode), `QueueFits` and `RepliesFit` (what the server can have
queued and answered).  `Emptied`, that a call outside of a block has no callbacks, comes from `PipelineInv`.  A step of the server is
one command taken and one reply sent (`Handles1`), so the proof splits on commands only once.  TLC checked the
parts of `AgreeInv` on the instance of `conn_safety` before they were proved.

*Pool.* The proofs hold for any finite sets of objects, streams and users and any of
the settings (`StreamsAssumption`, `UserAssumption`, ...).  `Shape` is needed besides the types: a RedisSock
has a stream exactly when its status says so, and the step of a call says what its RedisSock has.
`Owners` is OneOwner without counting: a stream has at most one holder, at most one place in the idle lists,
not both, and one of them exactly if it is open.  Every step of Next keeps all owners or is one of four
(`Kinds`): an object gives a stream up, borrows one, loses one that the probe refuses, or opens one; each
moves `nb_active` with the set it counts.  AllCounted is a sum over the pools, which TLA+ defines by recursion; `AllSummed`
carries a function with all partial sums, so that a step changes one summand and the proof needs no
recursion.  OwnReplies and OwnSession are about the calling object; `Leftovers` and `Sessions` say it of every
borrowed stream, and of every idle one that it is in no transaction and has no reply that slipped: this is what an owner passes
on to the next.

*Loops.* The proofs hold for any finite set of names and any number of calls, messages and faults.  SubscriptionsMirrored
looks at the moments between calls; `LoopsInv` also says what is on the stream while a call waits for its
answer.  `Connected`: Redis has the subscriptions the application wants.  `Agreed`: these are the callbacks in the tables of
the loops that run.  While acknowledgements come, `Joining` and `Leaving` say for each name on which side of the
call it is: acknowledged, so in the table that is built, or still among the first `left` items of the stream.  All behind those
items is messages for a subscription somebody has a callback for (`After`), so no loop meets a message
without one.  If a message stands where an acknowledgement is read (`Late`), the step sets `torn`; if the connection
ended among the acknowledgements (`Lost`), the call fails before it changes a table.  `FramesFit`: below the innermost call all
are loops in their callback, so a call that returns comes back to a loop whose table agrees.  Delivered needs
`DueIsSent` (what is due is the messages on the stream), and with it the lemmas about `Messages`, which is a
recursive function: they are proved by induction over a set of numbers (`Climb`), since an
induction theorem over an operator cannot be used.

*Arrays, connections.* NothingLeftOpen looks at a process between its calls; `OpenAsMeant` says at every step which
connection may be in MULTI: that of the application's transaction (`z_multi_exec`), or, from ra_index_multi() to
ra_index_exec() (`MidMove`), the target of the move.  No path of ra_move_key() but the exception leaves between the two,
whatever the key became meanwhile, and exec() and discard() unset the host in the step that answers them.
What the servers store never decides this, so `Shape` types the records and leaves their data open, and the theorem holds for any hash, ring, index option
and input: the only assumption it uses is that `None` is no host.

*Arrays, data.* The types, RehashFindsAll and ReadsFresh need what the servers store.  `CallInv` types it and says what the call under
way knows at each step (`CallIs`: the key that is moved lives at the target, what is left of `nodes` is homes of the
call's keys) and what a connection in MULTI may have queued (`Queued`: commands on keys that live there, and of a move only
what the move under way has stored).  With this `MoveInv` follows what EXEC makes true at once: a key is written together with its
SADD, or taken together with its SREM, so IndexCovers and OffHomeIndexed (which holds with unindexed writes too, as those go to the home
of their keys) survive every interleaving and every lost connection.  Nothing writes a key at its host of the previous ring
any more (`Holds`, `Shrinks`: the keys that are still to be moved only get fewer), so a `_rehash()` has every one of them ahead at
each step (`Rehashing`, `Comes`: on a host to come, in the list, or under way), and RehashedHome is what that says at its end.
`ReadInv` says of each answer taken so far that it is in `seen` of its own key (`Known`), for mget() only of the hosts it is through
with; and of a read that falls back that the previous host's value is one the key has had, since a key that
was not at its home when the first read was answered can only come there with a value the array shows from then on.
The tables the code builds in loops (`Only`, `RunAll`) are recursive functions; what is known of them is proved by
induction over a set of numbers (`Climb`), as for `Messages` in PubSub.
The proofs assume of the constants what the code checks or PHP guarantees: rings without duplicates, a hash within the ring, calls
with at least one key (mget(), mset() and del() return FALSE before anything else for an empty array: redis_array.c:738, 867,
1002), and a `None` that is neither a host nor a key.  TLC checked the parts of these invariants on the instance of
`array_moves` before they were proved.

*Arrays, what shows.* OnlyWritesShow compares, over each step, what the applications see of every key (`Logical`: the value at
its home, else at its previous host, else in the hands of a process that moves it).  `HoldInv` adds to `CallInv` what is true while
nothing is torn (`Held`): a host stores a key only if it is its home or its previous host (`InPlace`) and with elements of that
key alone (`Owned`); the processes that carry a key agree on its value, and it is gone from its previous host (`Agree`,
`GoneBefore`); and `HoldsOwn` says of each process what its move has read (`Holding`) and what it has queued at the target
(`Stowed`).  It is inductive because each event of `Tears` is exactly what would break one of these parts.  From it, no step of a
move shows (`DeleteStill`: the DEL at the source leaves the value in the hands of the process; `MoveExecStill`: EXEC takes it from there to the home),
and the commands of an application have the same effect on what is seen as on what their host stores (`Mix`, `MixRunAll`,
`WrittenShows`; `resurrected` and `split` are the cases where they would not).  `ShowInv` adds that a value in the
hands of a process is always still seen (`Shown`).  So the theorem also says that the list of `Tears` leaves nothing out, for
any rings and processes, and the attempt to prove it is what found `movedTwice`.

*Cluster, types.* The redirections make this more than a reading of assignments: the code follows a MOVED or ASK
reply to the node and the slot it names, so `Replies` says that every redirection on the way names both, which needs
that no server sends one for a command without a key.  `CallShape` says that a command on its way has a socket and,
in exec(), a slot; that `pos` is an item of the queue; and, by the ids of the calls, that a queue is never longer
than the calls that could fill it.  The proof follows each command through the queue of a server and the connections that a failover
drops.  `Coverage` says which slots are mapped: all of them, to nodes of `nodes` (`Covered`), or, after a mapping
that failed, none, and then no command is on its way, nothing is queued and nothing watched (`Unmapped`).  So the
branch of `cluster_update_slot` for a slot without a master is never taken, and every step that looks up the master of a slot finds one.
TLC checked `TypeInv` on the instance of `cluster_safety` before it was proved.

*Cluster, replies and transactions.* RepliesMatched and TxMirrored look at the moments between calls and at what was
returned; `SafeInv` says at every step what the connection to each node holds (`NodeFits`).  What decides it is which
items of `fold` are for that node (`Items`).  `Quiet`: nothing is unread, the socket is in MULTI exactly if the
server is (or has closed), which is if items are queued there, and the server's queue lists the ids of those items in
order (`Lists`).  `Answering`: the one reply is the command's own, and if it is
"+QUEUED" the queue has one id more, which becomes the item that `cluster_enqueue_response` appends.  `Executing` and
`Executed`: after EXEC the reply, then the array, whose elements are for the items in order; so the loop of
`cluster_multi_mbulk_resp`, which takes one element of the node of each item, always takes the first one (`ListsFirst`), and when
it ends there is none.  `Aborting`: only nodes with an item ahead are still in MULTI.  `Aimed` says that in a
transaction a command goes where its MULTI went, and EXEC to a node that has not had it; `Gone` and `Left`
what a connection holds after an attempt that failed, while `cluster_sock_write` goes on to other nodes; `Stepped` which call
can be at which step; `Replied` that each answer given so far was the command's own.  `Accepted` is needed for an exec() that fails on
the second node: unread values mean that a node accepted, and then `Split` records it.  The parts hold while `torn` is
empty, so the proof also shows that `Tears` is complete
for these two properties: at any size, nothing else makes a reply go to the wrong command.  The proof found one that was missing.  When a
directed command (`ping('b')`) follows in the same transaction on a node whose EXEC is sent with another slot,
its item is judged by the `multi_len` of a transaction before (`oldRefusal`); TLC needs eight calls to reach it, three more
than the bound of `cluster_safety`.  TLC checked the parts of SafeInv on the instance of `cluster_safety` and, by hand, on one node
with eight calls and on two nodes with three slots and two events.

*Cluster, watched keys.* WatchHonoured looks at one write of EXEC; `WatchInv` says of every key the application believes watched
what the connection to the master of its slot knows (`Guarding`).  Until exec() is called (`Watches`): the socket is open and marked
as watching, so `redis_check_eof` will not replace it silently, and unless its server has closed it the server watches the
slot and has been told of any write to it.  From then on only the nodes that EXEC has not been sent to matter
(`WatchesYet`), because the first step of `cluster_reset_multi` unmarks sockets that other nodes still have.  That the node which
will judge the command is the node that watches its key is `QueuedHere`: a command is in the queue of the master of its slot
only.  `LostTo` excepts a key whose node was tried in vain
by the command under way: a command written to another node then records `watchLost`, one that fails leaves nothing guarded.
`LetGo` says that unwatch() runs with nothing guarded.  `WatchAnswered` ties the good answer to WATCH to the server that gave it.  The proof found a way around the property: a WATCH that
is answered after an ASK redirection is watched by the node the key moves to, and `watch()` marks the socket of the
old master (redis_cluster.c:2262), whose EXEC then runs although the key was written.  It takes two events, a slot
that migrates and comes back, and `cluster_safety` has one; `WatchedElsewhere` is now one of the causes of
`watchLost`.  TLC checked the parts of `WatchInv` on one node and on two with two events before they were proved.

*Cluster, what takes effect.* RunsAsAsked compares all of `effects`, so `RunInv` (`WatchInv`, and the parts of `RunParts` while `torn` is empty) says
where a command that has not taken effect can still be.  While a command is on its way, either it has taken effect and the one reply
on the connection is its value, or it has not (`Lone`); a redirection, `CLUSTERDOWN` and a closed connection are
other replies than that, so the loop of `cluster_send_command` sends again only what has not run.  This is where
`Careful` is needed: with a stale reply on the connection the loop could take that for the redirection of a command that ran, and send
it a second time.  `TearsStay`: an event of `torn` is never taken back, so a step that ends with none began with none
(`Untorn`), and the theorem needs nothing about what the application does after one.  In a transaction the ids of `fold` grow (`FoldOrder`), and what exec() has run so far are items of nodes
that EXEC was sent to (`ExecRan`), so no node runs an item that another has run.

Only model-checked: the liveness properties (ENABLED and fairness are beyond TLAPS) and the
properties of Commands.  The readers and
builders (`Commands` and what it composes) are finite tables of commands: TLC evaluates all
of them, and a proof would add nothing but longer arrays.

## 5. Plan

Done: SessionLock, SessionStore, Connection, ConnectionPool and PubSub with the proofs of all
their safety properties; Cluster with the proofs of all its safety
properties; RedisArray with the proofs of all its safety properties; Commands.  Next, in this order:

1. The multi-key commands of the cluster (mget, mset, del, unlink over several slots), and
   the cursor of SCAN over several calls.
2. The `rediscluster` session handler over Cluster.

## 6. Not modelled

* Several servers in session.save_path.  README.md:110 limits locking to one
  master; PS_READ picks the server by the session id and PS_CLOSE by the prefixed session
  key, so a release can go elsewhere.
* Times: lock_wait_time, gc_maxlifetime and timeouts are choices, not durations.
* Serializers and compression: external libraries.
* Stubs, arginfo headers and docs/: generated.
* ConnectionPool: `pooling_enabled = 0`, several hosts and persistent ids (pools that share nothing),
  `unwatch()`, `discard()` and `reset()` (Connection has them), the pools of sessions, clusters and sentinels.
* PubSub: subscribe in a transaction or a pipeline, connect() in a callback (it frees the RedisSock its loop
  uses), and the loop of RedisCluster::subscribe, which ends with an error only.
* Cluster: mget, mset, del and unlink over several slots, `keys()`, subscribe, the slot cache between
  requests, the hash of a key, durations.  Of the servers it assumes that CLUSTER SLOTS covers every slot (with a gap,
  `cluster_map_slots` leaves a pointer to a freed node), that one address is one node and has one link (the socket
  of a replica and that of the node created when it is promoted are one), that a replica refuses WATCH by MOVED
  unless READONLY was sent, that a command without a key is served wherever it
  goes and answered by a line, and that ASKING and READONLY within MULTI are answered +OK.
* RedisArray: the key extractor, the distributor, the continuum, commands sent to every host,
  PIPELINE blocks, `watch()` and `unwatch()`.
* Commands: errors of argument types (PHP checks them), the text of arguments and payloads, reads that
  fail within a reply (Connection has them for its replies), the loop of subscribe (PubSub).
* Backoff: a delay computed from its arguments and a random number; the models leave open how long a step takes.
* Sentinel: one command and one reply per method, on a connection like any other.
