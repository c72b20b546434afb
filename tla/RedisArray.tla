----------------------------- MODULE RedisArray -----------------------------
(***************************************************************************)
(* RedisArray objects of several processes over one set of servers, while    *)
(* keys migrate from a previous ring of hosts to the present one: reads that *)
(* fall back to the previous ring, the moves they start, _rehash(), writes   *)
(* with their index, and transactions (redis_array.c, redis_array_impl.c).   *)
(*                                                                         *)
(* Every step is one command on one server, or what one connection sends from *)
(* MULTI to EXEC with nothing sent elsewhere in between, so the calls of other *)
(* processes come between any two of them.  The Redis objects are those of    *)
(* Connection: MULTI in MULTI does nothing, a lost connection throws and      *)
(* forgets its transaction.                                                   *)
(***************************************************************************)
EXTENDS Integers, Sequences, FiniteSets, SequencesExt

CONSTANTS
  Clients,     \* processes, each with a RedisArray object of the same configuration
  Hosts,       \* RedisArray.hosts, a sequence
  PrevHosts,   \* RedisArray.prev->hosts; <<>> without a previous ring
  Keys,
  Hash,        \* [Keys -> 0 .. Top] what the hash algorithm makes of a key
  Top,         \* the greatest hash: 0xffffffff
  TypeOf,      \* [Keys -> {"string", "list", "set", "hash", "stream"}]
  Index,       \* option "index"
  AutoRehash,  \* option "autorehash"
  Inputs,      \* methods the applications call, with keys of a fitting type
  Ttls,        \* the times to live they give, see Value
  AtFirst,     \* [Keys -> -1 .. 2] the time to live of each key at first, 2 when absent
  MaxEvents,   \* bound on their calls and the faults together
  MaxFaults,   \* bound on the faults: lost connections and full servers
  None

Writes     == {"set", "setex", "push", "mset", "del"}
Reads      == {"get", "exists", "mget"}
AllMethods == Writes \cup Reads \cup {"_rehash", "multi", "exec", "discard"}

\* What the array does not survive, see README.
Tears == {"lostInMove",     \* the key is deleted at its source and not written at its target
          "overwrote",      \* a move wrote a key that was already at its target
          "lateDelete",     \* a move deleted another value than it had read
          "movedTwice",     \* two processes carry different values of a key
          "staleTtl",       \* a move read TTL and value of different writes
          "persisted",      \* a key about to expire was moved without its expiry
          "resurrected",    \* a key deleted at its host has a copy elsewhere
          "split",          \* elements added at its host to a key that is elsewhere
          "unindexed",      \* a key written in a transaction of the application
          "leftOpen",       \* an exception left a connection in MULTI
          "multiTwice",     \* multi() on a host while one on another host is open
          "execByMove"}     \* a move used the connection of the application's transaction

ASSUME RingAssumption   == /\ Hosts \in Seq(ToSet(Hosts)) /\ PrevHosts \in Seq(ToSet(PrevHosts))
                           /\ Hosts # <<>> /\ IsInjective(Hosts) /\ IsInjective(PrevHosts)
                           /\ Top \in Nat \ {0} /\ Hash \in [Keys -> 1 .. Top]
ASSUME OptionAssumption == /\ TypeOf \in [Keys -> {"string", "list", "set", "hash", "stream"}]
                           /\ Index \in BOOLEAN /\ AutoRehash \in BOOLEAN
                           /\ \A x \in Inputs : /\ x[1] \in AllMethods /\ x[2] \in Seq(Keys)
                                                /\ IsInjective(x[2])
                                                /\ x[1] \in Writes \cup Reads => x[2] # <<>>
                                                /\ x[1] = "push" => Len(x[2]) = 1
                           /\ Ttls \subseteq {-1, 0, 1} /\ -1 \in Ttls
                           /\ AtFirst \in [Keys -> -1 .. 2]
ASSUME BoundAssumption  == MaxEvents \in Nat /\ MaxFaults \in Nat

VARIABLES
  db,        \* the servers: their keys, and the set that is the index of each
  full,      \* the servers that refuse to use more memory
  conn,      \* the connection of each Redis object of each array
  multi,     \* RedisArray.z_multi_exec, as a host
  pc, op,    \* the call in progress
  frame,     \* the locals of its functions
  got,       \* the values it returns
  seen,      \* history: the values its keys had while it ran
  rehashed,  \* history: a _rehash() has returned
  torn,      \* history: see Tears
  calls, faults  \* counters, see MaxEvents and MaxFaults

vars == <<db, full, conn, multi, pc, op, frame, got, seen, rehashed, torn, calls, faults>>

-----------------------------------------------------------------------------
(* The servers. *)

Servers == ToSet(Hosts) \cup ToSet(PrevHosts)

\* A value is what was written to the key, in order: elements <<key, number of the write>>.
\* ttl: -1 none, 1 a second or more, 0 less than that.
Value == [items : Seq(Keys \X Nat), ttl : {-1, 0, 1}]
Nil   == [items |-> <<>>, ttl |-> -1]

\* user: asked for by the application, not by the array.
Command == [name : {"GET", "COUNT", "MGET", "TYPE", "LIST",
                    "SET", "ADD", "EXPIRE", "DEL", "SADD", "SREM"},
            keys : Seq(Keys), val : Value, user : BOOLEAN]
OnKeys(name, ks)      == [name |-> name, keys |-> ks, val |-> Nil, user |-> FALSE]
Storing(name, k, val) == [name |-> name, keys |-> <<k>>, val |-> val, user |-> FALSE]

\* The elements of a sequence that are in a set, in their order.
Only(s, set) ==
  LET taken[i \in 0 .. Len(s)] ==
        IF i = 0 THEN <<>>
        ELSE IF s[i] \in set THEN Append(taken[i - 1], s[i]) ELSE taken[i - 1]
  IN taken[Len(s)]

\* A list, set or hash keeps its expiry when elements are added; a set has each element once.
Added(k, old, val) ==
  [old EXCEPT !.items =
     IF TypeOf[k] # "list" THEN @ \o Only(val.items, ToSet(val.items) \ ToSet(@))
     ELSE @ \o val.items]

\* What a command does to the keys.
Changed(data, cmd) ==
  CASE cmd.name = "SET" ->
         [k \in Keys |-> IF Contains(cmd.keys, k)
                         THEN [cmd.val EXCEPT !.items = Only(@, {k} \X Nat)]
                         ELSE data[k]]
    [] cmd.name = "ADD" -> [data EXCEPT ![cmd.keys[1]] = Added(cmd.keys[1], @, cmd.val)]
    [] cmd.name = "EXPIRE" ->
         [data EXCEPT ![cmd.keys[1]] = IF @ = Nil THEN Nil ELSE [@ EXCEPT !.ttl = cmd.val.ttl]]
    [] cmd.name = "DEL" -> [k \in Keys |-> IF Contains(cmd.keys, k) THEN Nil ELSE data[k]]
    [] OTHER -> data

Run(server, cmd) ==
  [data  |-> Changed(server.data, cmd),
   index |-> CASE cmd.name = "SADD" -> server.index \cup ToSet(cmd.keys)
               [] cmd.name = "SREM" -> server.index \ ToSet(cmd.keys)
               [] OTHER -> server.index]

\* Commands, one after the other.
RunAll(server, cmds) ==
  LET after[i \in 0 .. Len(cmds)] == IF i = 0 THEN server ELSE Run(after[i - 1], cmds[i])
  IN after[Len(cmds)]

\* A server that refuses a command in MULTI has executed nothing at EXEC.
TakesMemory(cmd) == cmd.name \in {"SET", "ADD", "SADD"}
Refuses(h, cmds) == h \in full /\ \E i \in DOMAIN cmds : TakesMemory(cmds[i])

-----------------------------------------------------------------------------
(* The Redis objects of an array: one per host of each ring. *)

Ring(h) == <<"ring", h>>
Prev(h) == <<"prev", h>>
Connections == {Ring(h) : h \in ToSet(Hosts)} \cup {Prev(h) : h \in ToSet(PrevHosts)}

ASSUME NoneAssumption == None \notin ToSet(Hosts) \cup ToSet(PrevHosts) \cup Keys \cup Connections

\* tx: in MULTI; queue: what the server is to execute at EXEC.
Connection == [tx : BOOLEAN, queue : Seq(Command)]
Atomic     == [tx |-> FALSE, queue |-> <<>>]

\* ra_find_node without distributor and continuum: the hash, inverted and scaled to the ring.
ra_find_node(hosts, k) == hosts[1 + (((Top - Hash[k]) * Len(hosts)) \div Top)]
HomeOf(k) == ra_find_node(Hosts, k)
PrevOf(k) == ra_find_node(PrevHosts, k)
KeysAt(h, ks) == Only(ks, {k \in Keys : HomeOf(k) = h})

\* The hosts a call with these keys goes to, in the order of the ring.
NodesOf(ks) == Only(Hosts, {HomeOf(k) : k \in ToSet(ks)})

NoOp == [m |-> "none", keys |-> <<>>, host |-> None, n |-> 0, ttl |-> -1]
NoFrame == [nodes |-> <<>>,   \* hosts still to be called
            keys |-> {},      \* ra_rehash_server: keys still to be examined
            key |-> None, from |-> None, to |-> None,  \* ra_move_key: its arguments,
            ttl |-> -1, item |-> Nil,                  \* what the source said,
            success |-> FALSE]                         \* success

\* The command the application asked for, on those of its keys that live at one host.
UserCommand(o, ks) ==
  [name |-> CASE o.m \in {"set", "setex", "mset"} -> "SET"
              [] o.m = "push" -> "ADD" [] o.m = "del" -> "DEL"
              [] o.m = "get" -> "GET"  [] o.m = "exists" -> "COUNT" [] o.m = "mget" -> "MGET",
   keys |-> ks,
   val  |-> IF o.m \in {"get", "exists", "mget", "del"} THEN Nil
            ELSE [items |-> [i \in DOMAIN ks |-> <<ks[i], o.n>>], ttl |-> o.ttl],
   user |-> TRUE]

\* Variant: mset() does not add its keys to the index.
IndexCommandNotOfMset(o, ks) ==
  OnKeys(IF o.m = "del" THEN "SREM" ELSE "SADD", IF o.m = "mset" THEN <<>> ELSE ks)

\* ra_index_key, ra_index_keys or ra_index_del.
IndexCommand(o, ks) == OnKeys(IF o.m = "del" THEN "SREM" ELSE "SADD", ks)

\* Variant: the expiry of a list, set or hash is given in milliseconds.
StoreCommandsInMillis(f) ==
  IF TypeOf[f.key] = "string"
  THEN <<Storing("SET", f.key, [f.item EXCEPT !.ttl = IF f.ttl > 0 THEN f.ttl ELSE -1])>>
  ELSE (IF f.item = Nil THEN <<>> ELSE <<Storing("ADD", f.key, [f.item EXCEPT !.ttl = -1])>>)
       \o (IF f.ttl > 0 THEN <<Storing("EXPIRE", f.key, [Nil EXCEPT !.ttl = 1000 * f.ttl])>> ELSE <<>>)

\* Variant: a list, set or hash is moved without its expiry.
StoreCommandsNoExpire(f) ==
  IF TypeOf[f.key] = "string"
  THEN <<Storing("SET", f.key, [f.item EXCEPT !.ttl = IF f.ttl > 0 THEN f.ttl ELSE -1])>>
  ELSE IF f.item = Nil THEN <<>> ELSE <<Storing("ADD", f.key, [f.item EXCEPT !.ttl = -1])>>

\* ra_move_string and the other ra_move_ functions: what is written at the target, with
\* ra_expire_key.  HMSET of an empty hash is not sent.
StoreCommands(f) ==
  IF TypeOf[f.key] = "string"
  THEN <<Storing("SET", f.key, [f.item EXCEPT !.ttl = IF f.ttl > 0 THEN f.ttl ELSE -1])>>
  ELSE (IF f.item = Nil THEN <<>> ELSE <<Storing("ADD", f.key, [f.item EXCEPT !.ttl = -1])>>)
       \o (IF f.ttl > 0 THEN <<Storing("EXPIRE", f.key, [Nil EXCEPT !.ttl = f.ttl])>> ELSE <<>>)

\* The request of each step: the connection, "send", "MULTI", "DISCARD" or "block" (MULTI and
\* EXEC, which is EXEC alone in MULTI), and the commands.
Request(c) ==
  LET o == op[c]  f == frame[c]
      User(cn, ks) == <<cn, "send", <<UserCommand(o, ks)>>>>
      Here == KeysAt(Head(f.nodes), o.keys)
  IN CASE pc[c] = "forward"   -> User(Ring(multi[c]), o.keys)
       [] pc[c] = "multi"     -> <<Ring(multi[c]), "MULTI", <<>>>>
       [] pc[c] = "exec"      -> <<Ring(multi[c]), "block", <<>>>>
       [] pc[c] = "discard"   -> <<Ring(multi[c]), "DISCARD", <<>>>>
       [] pc[c] = "write"     ->
            IF ~Index THEN User(Ring(Head(f.nodes)), Here)
            ELSE <<Ring(Head(f.nodes)), "block",
                   <<UserCommand(o, Here), IndexCommand(o, Here)>>>>
       [] pc[c] = "mget"      -> User(Ring(Head(f.nodes)), Here)
       [] pc[c] = "read"      -> User(Ring(HomeOf(o.keys[1])), o.keys)
       [] pc[c] = "readPrev"  -> User(Prev(PrevOf(o.keys[1])), o.keys)
       [] pc[c] = "list"      -> <<Prev(Head(f.nodes)), "send", <<OnKeys("LIST", <<>>)>>>>
       [] pc[c] = "type"      -> <<f.from, "send", <<OnKeys("TYPE", <<f.key>>)>>>>
       [] pc[c] = "moveMulti" -> <<f.to, "MULTI", <<>>>>
       [] pc[c] = "fetch"     -> <<f.from, "send", <<OnKeys("GET", <<f.key>>)>>>>
       [] pc[c] = "store"     -> <<f.to, "send", StoreCommands(f)>>
       [] pc[c] = "delKey"    -> <<f.from, "block", <<OnKeys("DEL", <<f.key>>),
                                                      OnKeys("SREM", <<f.key>>)>>>>
       [] pc[c] = "moveExec"  -> <<f.to, "block", IF f.success THEN <<OnKeys("SADD", <<f.key>>)>>
                                                  ELSE <<>>>>
       [] OTHER               -> <<None, "send", <<>>>>

Waits(c)  == Request(c)[1] # None
HostOf(c) == Request(c)[1][2]
Of(c)     == conn[c][Request(c)[1]]
How(c)    == Request(c)[2]
Asked(c)  == Request(c)[3]

\* The commands the server carries out when the request reaches it: in MULTI none before EXEC,
\* then all or, if it has refused one, none.
Executes(c) ==
  LET all == (IF How(c) = "block" THEN Of(c).queue ELSE <<>>) \o Asked(c) IN
  IF (Of(c).tx /\ How(c) # "block") \/ Refuses(HostOf(c), all) THEN <<>> ELSE all

\* What becomes of the connection.
Answered(c) ==
  CASE How(c) = "MULTI" -> [Of(c) EXCEPT !.tx = TRUE]
    [] How(c) \in {"block", "DISCARD"} -> Atomic
    [] How(c) = "send" -> IF Of(c).tx THEN [Of(c) EXCEPT !.queue = @ \o Asked(c)] ELSE Of(c)

\* Its effects on the keys and the index.
Serve(h, cmds) == db' = [db EXCEPT ![h] = RunAll(@, cmds)]

\* The request is made and answered.
Ask(c) == /\ Serve(HostOf(c), Executes(c))
          /\ conn' = [conn EXCEPT ![c][Request(c)[1]] = Answered(c)]

\* The value a read is given: Nil also for FALSE and for the Redis object returned in MULTI.
Fetched(c) == IF Of(c).tx THEN Nil ELSE db[HostOf(c)].data[Asked(c)[1].keys[1]]

-----------------------------------------------------------------------------
(* What the applications see of a key: its value at the host of the ring, else at the host of *)
(* the previous ring, else in the hands of the process that moves it.                         *)

At(h, k) == db[h].data[k]
Before(k) == IF PrevHosts = <<>> THEN Nil ELSE At(PrevOf(k), k)

\* ra_move_key of this key: read at its source; then also deleted there.
InHand(c, k)   == frame[c].key = k /\ frame[c].item # Nil
Carrying(c, k) == InHand(c, k) /\ pc[c] = "moveExec"
Carried(k)     == \E c \in Clients : Carrying(c, k)
Item(c)        == [frame[c].item EXCEPT !.ttl = IF frame[c].ttl > 0 THEN frame[c].ttl ELSE -1]

Logical(k) == IF At(HomeOf(k), k) # Nil THEN At(HomeOf(k), k)
              ELSE IF Before(k) # Nil THEN Before(k)
              ELSE IF Carried(k) THEN Item(CHOOSE c \in Clients : Carrying(c, k))
              ELSE Nil

\* A copy that a command at the host of the key does not reach.
Elsewhere(k) == \/ \E c \in Clients : InHand(c, k)
                \/ PrevHosts # <<>> /\ PrevOf(k) # HomeOf(k) /\ Before(k) # Nil

\* What the commands of the application, as they are executed, may do to a migration.
Crossed(c) ==
  LET On(name) == UNION {ToSet(cmd.keys) : cmd \in {x \in ToSet(Executes(c)) :
                                                       x.user /\ x.name = name}}
  IN {e \in {"resurrected", "split", "unindexed"} :
       \/ e = "resurrected" /\ \E k \in On("DEL") : Elsewhere(k)
       \/ e = "split" /\ \E k \in On("ADD") : At(HostOf(c), k) = Nil /\ Elsewhere(k)
       \/ e = "unindexed" /\ Index /\ pc[c] # "write"
            /\ ~(On("SET") \cup On("ADD") \subseteq db[HostOf(c)].index)}

\* What a move may do to the key it moves, with each of its calls.
Moved(c) ==
  LET f == frame[c]  cmds == Executes(c) IN
  {e \in {"lostInMove", "overwrote", "lateDelete", "movedTwice", "staleTtl", "persisted",
          "execByMove"} :
    \/ e = "execByMove" /\ pc[c] = "moveMulti" /\ Of(c).tx
    \/ e = "staleTtl"   /\ pc[c] = "fetch" /\ Fetched(c) # Nil /\ Fetched(c).ttl # f.ttl
    \/ e = "staleTtl"   /\ pc[c] = "moveExec" /\ f.success /\ f.item = Nil /\ f.ttl > 0
         /\ At(HostOf(c), f.key) # Nil /\ At(HostOf(c), f.key).ttl # f.ttl
    \/ e = "persisted"  /\ pc[c] = "store" /\ f.ttl = 0
    \/ e = "lateDelete" /\ pc[c] = "delKey" /\ At(HostOf(c), f.key) \notin {Nil, f.item}
    \/ e = "movedTwice" /\ pc[c] = "delKey" /\ f.item # Nil
         /\ \E d \in Clients : Carrying(d, f.key) /\ frame[d].item # f.item
    \/ e = "lostInMove" /\ pc[c] = "moveExec" /\ f.item # Nil /\ cmds = <<>>
    \/ e = "overwrote"  /\ pc[c] = "moveExec" /\ f.item # Nil /\ At(HostOf(c), f.key) # Nil
         /\ (TypeOf[f.key] = "list" \/ At(HostOf(c), f.key) # Item(c))}

\* What the keys of a call have been while it runs.  A key that another process takes from its
\* source may be missed; exists() and mget() look at the ring only.
Observe ==
  seen' = [c \in Clients |->
    [k \in Keys |->
      IF pc'[c] = "idle" \/ op'[c].m \notin Reads \/ ~Contains(op'[c].keys, k) THEN {}
      ELSE seen[c][k] \cup {Logical(k)'}
             \cup (IF \/ \E d \in Clients : Carrying(d, k)'
                      \/ Before(k) # Nil /\ Before(k)' = Nil
                      \/ op'[c].m # "get" /\ At(HomeOf(k), k)' = Nil
                   THEN {Nil} ELSE {})]]

-----------------------------------------------------------------------------
(* Calls.  Go: the next call to make, or "return". *)

Go(c, where, f) == pc' = [pc EXCEPT ![c] = where] /\ frame' = [frame EXCEPT ![c] = f]
Tear(events)    == torn' = torn \cup events
Quiet           == UNCHANGED <<full, multi, op, calls, faults, rehashed>>

CanCall(c) == pc[c] = "idle" /\ calls + faults < MaxEvents /\ torn = {}

\* The application calls a method; keys of a transaction live at its host (arrays.md:173).
Enter(c, o) ==
  /\ CanCall(c) /\ <<o.m, o.keys>> \in Inputs
  /\ op' = [op EXCEPT ![c] = o] /\ calls' = calls + 1
  /\ UNCHANGED <<db, full, conn, got, faults, rehashed>>

KeyCalls ==
  {[m |-> x[1], keys |-> x[2], host |-> None, n |-> calls + 1, ttl |-> ttl] :
     x \in {y \in Inputs : y[1] \in Writes \cup Reads}, ttl \in Ttls}

\* __call, mset, mget, del: HANDLE_MULTI_EXEC and the start of ra_forward_call.
CallKeys(c) ==
  CanCall(c) /\ \E o \in KeyCalls :
    /\ Enter(c, o) /\ (o.ttl # -1 <=> o.m = "setex")
    /\ Tear({}) /\ UNCHANGED multi
    /\ IF multi[c] # None
       THEN /\ \A k \in ToSet(o.keys) : HomeOf(k) = multi[c]
            /\ Go(c, "forward", NoFrame)
       ELSE Go(c, CASE o.m \in Writes -> "write"
                    [] o.m = "mget"   -> "mget"
                    [] OTHER          -> "read",
               [NoFrame EXCEPT !.nodes = NodesOf(o.keys)])
    /\ Observe

\* RedisArray::_rehash and ra_rehash.
CallRehash(c) ==
  /\ Enter(c, [NoOp EXCEPT !.m = "_rehash"])
  /\ Tear({}) /\ UNCHANGED multi
  /\ IF PrevHosts = <<>> THEN Go(c, "return", NoFrame)
     ELSE Go(c, "list", [NoFrame EXCEPT !.nodes = PrevHosts])
  /\ Observe

\* RedisArray::multi: z_multi_exec is set before MULTI is sent.
CallMulti(c) ==
  \E h \in ToSet(Hosts) :
    /\ Enter(c, [NoOp EXCEPT !.m = "multi", !.host = h])
    /\ multi' = [multi EXCEPT ![c] = h]
    /\ Tear(IF multi[c] \notin {None, h} THEN {"multiTwice"} ELSE {})
    /\ Go(c, "multi", NoFrame)
    /\ Observe

\* RedisArray::exec and discard.
CallEnd(c) ==
  \E m \in {"exec", "discard"} :
    /\ Enter(c, [NoOp EXCEPT !.m = m])
    /\ Tear({}) /\ UNCHANGED multi
    /\ Go(c, IF multi[c] = None THEN "return" ELSE m, NoFrame)
    /\ Observe

\* The method returns.
Return(c) ==
  /\ pc[c] = "return"
  /\ Go(c, "idle", NoFrame)
  /\ op' = [op EXCEPT ![c] = NoOp] /\ got' = [got EXCEPT ![c] = <<>>]
  /\ rehashed' = (rehashed \/ (op[c].m = "_rehash" /\ PrevHosts # <<>>))
  /\ Tear({})
  /\ UNCHANGED <<db, full, conn, multi, calls, faults>>
  /\ Observe

-----------------------------------------------------------------------------
(* Transactions of the application. *)

\* A command, MULTI, EXEC or DISCARD on the connection of z_multi_exec; the last two unset it.
Forward(c) ==
  /\ pc[c] \in {"forward", "multi", "exec", "discard"}
  /\ Ask(c) /\ Tear(Crossed(c))
  /\ multi' = IF pc[c] \in {"exec", "discard"} THEN [multi EXCEPT ![c] = None] ELSE multi
  /\ Go(c, "return", NoFrame)
  /\ UNCHANGED <<full, op, got, calls, faults, rehashed>>
  /\ Observe

-----------------------------------------------------------------------------
(* Writes: ra_forward_call, mset and ra_generic_del, for each host that has keys of the call. *)

NextNode(c, where) ==
  IF Len(frame[c].nodes) = 1 THEN Go(c, "return", NoFrame)
  ELSE Go(c, where, [frame[c] EXCEPT !.nodes = Tail(@)])

\* The command, with an index between ra_index_multi and ra_index_key, ra_index_keys or
\* ra_index_del and ra_index_exec.  del() gives up when a host does not say how many it deleted.
Write(c) ==
  /\ pc[c] = "write"
  /\ Ask(c) /\ Tear(Crossed(c))
  /\ IF op[c].m = "del" /\ Executes(c) = <<>> THEN Go(c, "return", NoFrame)
     ELSE NextNode(c, "write")
  /\ Quiet /\ UNCHANGED got
  /\ Observe

-----------------------------------------------------------------------------
(* Reads. *)

\* ra_call_failed: a missing key is FALSE or an empty array; for EXISTS it is 0, an answer.
ra_call_failed(c) == ~Of(c).tx /\ Fetched(c) = Nil /\ op[c].m # "exists"

Gives(c, vs) == got' = [got EXCEPT ![c] = vs]

\* ra_forward_call on the ring.
Read(c) ==
  /\ pc[c] = "read"
  /\ Ask(c) /\ Tear({}) /\ Quiet
  /\ IF PrevHosts # <<>> /\ ra_call_failed(c)
     THEN Go(c, "readPrev", frame[c]) /\ UNCHANGED got
     ELSE Go(c, "return", NoFrame) /\ Gives(c, IF Of(c).tx THEN <<>> ELSE <<Fetched(c)>>)
  /\ Observe

Moving(f, k, from, to) ==
  [f EXCEPT !.key = k, !.from = from, !.to = to, !.ttl = -1, !.item = Nil,
             !.success = FALSE]

\* ra_forward_call on the previous ring; ra->prev has no ring before it.
ReadPrev(c) ==
  /\ pc[c] = "readPrev"
  /\ Ask(c) /\ Tear({}) /\ Quiet
  /\ Gives(c, <<Fetched(c)>>)
  /\ IF AutoRehash /\ ~ra_call_failed(c)
     THEN LET k == op[c].keys[1] IN
          Go(c, "type", Moving(frame[c], k, Prev(PrevOf(k)), Ring(HomeOf(k))))
     ELSE Go(c, "return", NoFrame)
  /\ Observe

\* Variant: the values follow each other in the order of the hosts.
PlacedByHost(c, vs) == got[c] \o vs

\* RedisArray::mget: the values of one host go to the places of its keys.
Placed(c, vs) ==
  LET ks == op[c].keys  h == Head(frame[c].nodes) IN
  [i \in DOMAIN ks |->
     IF HomeOf(ks[i]) # h THEN (IF i \in DOMAIN got[c] THEN got[c][i] ELSE Nil)
     ELSE vs[Cardinality({j \in 1 .. i : HomeOf(ks[j]) = h})]]

Mget(c) ==
  /\ pc[c] = "mget"
  /\ Ask(c) /\ Tear({}) /\ Quiet
  /\ IF Of(c).tx THEN Gives(c, <<>>) /\ Go(c, "return", NoFrame)
     ELSE LET ks == Asked(c)[1].keys IN
          Gives(c, Placed(c, [i \in DOMAIN ks |-> At(HostOf(c), ks[i])])) /\ NextNode(c, "mget")
  /\ Observe

-----------------------------------------------------------------------------
(* Moving keys. *)

\* The steps with the target in MULTI.
MidMove == {"fetch", "store", "delKey", "moveExec"}

\* ra_rehash_server: SMEMBERS of the index or KEYS *.
List(c) ==
  /\ pc[c] = "list"
  /\ Ask(c) /\ Tear({}) /\ Quiet /\ UNCHANGED got
  /\ LET s == db[HostOf(c)] IN
     Go(c, "scan", [frame[c] EXCEPT !.keys =
                     IF Index THEN s.index ELSE {k \in Keys : s.data[k] # Nil}])
  /\ Observe

\* The loops of ra_rehash_server and ra_rehash: keys that have another host are moved.
Scan(c) ==
  /\ pc[c] = "scan"
  /\ Tear({}) /\ Quiet /\ UNCHANGED <<db, conn, got>>
  /\ LET f == frame[c] IN
     \/ \E k \in f.keys :
          IF HomeOf(k) = Head(f.nodes) THEN Go(c, "scan", [f EXCEPT !.keys = @ \ {k}])
          ELSE Go(c, "type", [Moving(f, k, Prev(Head(f.nodes)), Ring(HomeOf(k)))
                               EXCEPT !.keys = @ \ {k}])
     \/ f.keys = {} /\ NextNode(c, "list")
  /\ Observe

\* ra_move_key: the calls in their order.
MoveStep(c, here, next, f) ==
  /\ pc[c] = here
  /\ Ask(c) /\ Tear(Moved(c) \cup Crossed(c)) /\ Quiet /\ UNCHANGED got
  /\ Go(c, next, f)
  /\ Observe

\* ra_get_key_type: TYPE and TTL in one pipeline; a key that is gone has type 0.
MoveType(c) ==
  pc[c] = "type" /\ MoveStep(c, "type", "moveMulti", [frame[c] EXCEPT !.ttl = Fetched(c).ttl,
                                                                     !.item = Fetched(c)])

\* ra_index_multi on the target, and the switch on the type.
MoveMulti(c) ==
  MoveStep(c, "moveMulti",
           IF frame[c].item = Nil \/ TypeOf[frame[c].key] = "stream" THEN "moveExec" ELSE "fetch",
           [frame[c] EXCEPT !.item = Nil])

\* Variant: ra_move_key returns when the key is gone, without EXEC on the target.
MoveFetchReturns(c) ==
  /\ pc[c] = "fetch"
  /\ LET gone == Fetched(c) = Nil /\ TypeOf[frame[c].key] = "string" IN
     MoveStep(c, "fetch", IF ~gone THEN "store" ELSE IF op[c].m = "_rehash" THEN "scan" ELSE "return",
              [frame[c] EXCEPT !.item = Fetched(c), !.success = ~gone])

\* GET, SMEMBERS, LRANGE, ZRANGE or HGETALL.  success is 0 when a string is gone; other keys
\* are then empty arrays, which are moved like any other.
MoveFetch(c) ==
  /\ pc[c] = "fetch"
  /\ LET gone == Fetched(c) = Nil /\ TypeOf[frame[c].key] = "string" IN
     MoveStep(c, "fetch", IF gone THEN "moveExec" ELSE "store",
              [frame[c] EXCEPT !.item = Fetched(c), !.success = ~gone])

\* RPUSH, SADD or ZADD without elements throws (in PHP 7.4 it warns): the method returns with
\* its connection to the target in MULTI.
Throw(c) ==
  /\ pc[c] = "fetch" /\ Fetched(c) = Nil /\ TypeOf[frame[c].key] \in {"list", "set"}
  /\ Go(c, "idle", NoFrame) /\ Ask(c) /\ Tear({"leftOpen"})
  /\ op' = [op EXCEPT ![c] = NoOp] /\ got' = [got EXCEPT ![c] = <<>>]
  /\ UNCHANGED <<full, multi, calls, faults, rehashed>>
  /\ Observe

\* SET or SETEX, or the elements and ra_expire_key; its success is not looked at.
MoveStore(c) == MoveStep(c, "store", "delKey", frame[c])

\* ra_del_key: MULTI, DEL, SREM and EXEC on the source.
MoveDelete(c) == MoveStep(c, "delKey", "moveExec", frame[c])

\* ra_index_key, if the key was there, and EXEC on the target.
MoveExec(c) ==
  MoveStep(c, "moveExec", IF op[c].m = "_rehash" THEN "scan" ELSE "return",
           Moving(frame[c], None, None, None))

-----------------------------------------------------------------------------
(* Faults. *)

CanFail == faults < MaxFaults /\ calls + faults < MaxEvents /\ torn = {}

\* What the Redis object sends: no MULTI in MULTI, no EXEC or DISCARD outside.
Sends(c) == Waits(c) /\ CASE How(c) = "MULTI"   -> ~Of(c).tx
                          [] How(c) = "DISCARD" -> Of(c).tx
                          [] How(c) = "block"   -> Of(c).tx \/ Asked(c) # <<>>
                          [] How(c) = "send"    -> Asked(c) # <<>>

\* The connection is lost before or after the server has carried out the request.  The Redis
\* object throws; with the exception pending the array makes no other call and returns.
Lose(c) ==
  /\ CanFail /\ Sends(c)
  /\ faults' = faults + 1
  /\ multi' = IF pc[c] \in {"exec", "discard"} THEN [multi EXCEPT ![c] = None] ELSE multi
  /\ conn' = [conn EXCEPT ![c][Request(c)[1]] = Atomic]
  /\ \E reached \in BOOLEAN :
       /\ Serve(HostOf(c), IF reached THEN Executes(c) ELSE <<>>)
       /\ Tear((IF reached THEN Crossed(c) \cup Moved(c) ELSE {})
               \cup (IF \E cn \in Connections :
                           /\ conn'[c][cn].tx
                           /\ cn # Ring(multi'[c]) \/ (pc[c] \in MidMove /\ cn = frame[c].to)
                     THEN {"leftOpen"} ELSE {})
               \cup (IF \/ pc[c] = "delKey" /\ reached /\ frame[c].item # Nil
                        \/ pc[c] = "moveExec" /\ frame[c].item # Nil /\ ~reached
                     THEN {"lostInMove"} ELSE {}))
  /\ Go(c, "idle", NoFrame)
  /\ op' = [op EXCEPT ![c] = NoOp] /\ got' = [got EXCEPT ![c] = <<>>]
  /\ UNCHANGED <<full, calls, rehashed>>
  /\ Observe

\* A server reaches maxmemory.
Fill(h) ==
  /\ CanFail /\ h \notin full
  /\ faults' = faults + 1 /\ full' = full \cup {h}
  /\ UNCHANGED <<db, conn, multi, pc, op, frame, got, seen, rehashed, torn, calls>>

-----------------------------------------------------------------------------
(* The keys were written through the previous ring, or through the ring without one. *)
Init ==
  /\ LET Where(k)   == IF PrevHosts = <<>> THEN HomeOf(k) ELSE PrevOf(k)
         KeysOf(h)  == {k \in Keys : Where(k) = h /\ AtFirst[k] # 2}
     IN db = [h \in Servers |->
                [data  |-> [k \in Keys |-> IF k \in KeysOf(h)
                              THEN [items |-> <<<<k, 0>>>>, ttl |-> AtFirst[k]] ELSE Nil],
                 index |-> IF Index THEN KeysOf(h) ELSE {}]]
  /\ full = {} /\ conn = [c \in Clients |-> [cn \in Connections |-> Atomic]]
  /\ multi = [c \in Clients |-> None]
  /\ pc = [c \in Clients |-> "idle"] /\ op = [c \in Clients |-> NoOp]
  /\ frame = [c \in Clients |-> NoFrame] /\ got = [c \in Clients |-> <<>>]
  /\ seen = [c \in Clients |-> [k \in Keys |-> {}]]
  /\ rehashed = FALSE /\ torn = {} /\ calls = 0 /\ faults = 0

Move(c) == \/ MoveType(c) \/ MoveMulti(c) \/ MoveFetch(c) \/ Throw(c) \/ MoveStore(c)
           \/ MoveDelete(c) \/ MoveExec(c)

Step(c) == \/ Forward(c) \/ Write(c) \/ Read(c) \/ ReadPrev(c) \/ Mget(c) \/ List(c) \/ Scan(c) \/ Move(c) \/ Return(c)

Next == \/ \E c \in Clients : \/ CallKeys(c) \/ CallRehash(c) \/ CallMulti(c) \/ CallEnd(c)
                              \/ Step(c) \/ Lose(c)
        \/ \E h \in Servers : Fill(h)

Spec == Init /\ [][Next]_vars

-----------------------------------------------------------------------------
(* Properties. *)

Steps == {"idle", "return", "forward", "multi", "exec", "discard", "write", "mget", "read",
          "readPrev", "list", "scan", "type", "moveMulti", "fetch", "store", "delKey", "moveExec"}

\* Every variable has its type.
TypeOK ==
  /\ db \in [Servers -> [data : [Keys -> Value], index : SUBSET Keys]]
  /\ full \subseteq Servers
  /\ conn \in [Clients -> [Connections -> Connection]]
  /\ multi \in [Clients -> ToSet(Hosts) \cup {None}]
  /\ pc \in [Clients -> Steps]
  /\ \A c \in Clients :
       /\ op[c].m \in AllMethods \cup {"none"} /\ op[c].keys \in Seq(Keys)
       /\ op[c].host \in ToSet(Hosts) \cup {None} /\ op[c].n \in Nat /\ op[c].ttl \in {-1, 0, 1}
       /\ frame[c].nodes \in Seq(Servers) /\ frame[c].keys \subseteq Keys
       /\ frame[c].key \in Keys \cup {None} /\ {frame[c].from, frame[c].to} \subseteq
            Connections \cup {None}
       /\ frame[c].ttl \in {-1, 0, 1} /\ frame[c].item \in Value
       /\ frame[c].success \in BOOLEAN
       /\ got[c] \in Seq(Value)
  /\ seen \in [Clients -> [Keys -> SUBSET Value]]
  /\ rehashed \in BOOLEAN /\ torn \subseteq Tears
  /\ calls \in 0 .. MaxEvents /\ faults \in 0 .. MaxFaults

\* A migration does not show: whatever the processes move, and whatever fails, the value the
\* applications see of a key changes only by their own commands, as on one server.
View == [k \in Keys |-> Logical(k)]
Stepped(c) == <<pc[c], frame[c], op[c]>>' # <<pc[c], frame[c], op[c]>>
OnlyWritesShow ==
  [][torn' = {} => \/ View' = View
                   \/ \E c \in Clients :
                        /\ Stepped(c) /\ Waits(c)
                        /\ LET cmds == Only(Executes(c), {x \in ToSet(Executes(c)) : x.user})
                           IN View' = RunAll([data |-> View, index |-> {}], cmds).data]_vars

\* A read returns what its key was at some moment of the call, each value of mget() for its own
\* key: a fallback that races with writes and moves gives no value of its own.
ReadsFresh ==
  \A c \in Clients : pc[c] = "return" =>
    \A i \in DOMAIN got[c] : got[c][i] \in seen[c][op[c].keys[i]]

\* The index of a server names every key it holds, so that _rehash() will find them.
IndexCovers ==
  Index /\ "unindexed" \notin torn =>
    \A h \in Servers, k \in Keys : At(h, k) # Nil => k \in db[h].index

\* After _rehash() no key is left where only the fallback finds it, except of a type that
\* ra_move_key does not know.
RehashedHome ==
  rehashed => \A k \in Keys : TypeOf[k] # "stream" /\ PrevOf(k) # HomeOf(k) => Before(k) = Nil

\* What rehashing relies on and what it leaves.
RehashFindsAll == IndexCovers /\ RehashedHome

\* Between calls only the connection of the application's own transaction is in MULTI.
NothingLeftOpen ==
  torn \cap {"leftOpen", "multiTwice"} = {} =>
    \A c \in Clients : pc[c] \in {"idle", "return"} =>
      \A cn \in Connections : conn[c][cn].tx => cn = Ring(multi[c])
=============================================================================
