------------------------------ MODULE Cluster ------------------------------
(***************************************************************************)
(* A RedisCluster object: the slot table, the command loop with its MOVED   *)
(* and ASK redirections, and transactions that span the nodes of a cluster  *)
(* (cluster_library.c, and the methods of redis_cluster.c that drive them). *)
(*                                                                         *)
(* Every step is one write or one read on the socket of one node, so slots   *)
(* move, nodes die and connections close between any two of them.  A link    *)
(* is one connection, the client's record of it (RedisSock) beside what the  *)
(* server holds for it; the properties are about the two agreeing.           *)
(***************************************************************************)
EXTENDS Naturals, Sequences, FiniteSets, SequencesExt

CONSTANTS
  Nodes,      \* the servers
  Slots,      \* hash slots; each stands for one key of that slot
  Home,       \* [Slots -> Nodes] the masters that serve them at first
  ReplicaOf,  \* [Nodes -> Nodes \cup {None}] the master a replica copies
  Failover,   \* RedisCluster::OPT_SLAVE_FAILOVER
  Calls,      \* methods the application calls
  Happens,    \* what may happen to the cluster
  Timeouts,   \* TRUE if a reply may come after the read timeout
  MaxCalls,   \* bound on the calls of the application
  MaxEvents,  \* bound on what happens to the cluster
  Explored,   \* bound: after other events of torn the application stops
  None

AllCalls   == {"write", "read", "directed", "multi", "exec", "discard", "watch", "unwatch",
               "close", "reconnect"}
AllHappens == {"touch", "move", "ask", "drop", "crash", "refuse", "unmapped"}

\* What leaves the object with a connection whose state it does not know.
Tears == {"abort",        \* cluster_abort_exec went on after a DISCARD that failed
          "splitExec",    \* exec() gave up with replies of some node unread
          "oldRefusal",   \* multi_len is that of an earlier transaction: a reply is passed over
          "orphanMulti",  \* MULTI sent to a node where nothing was queued
          "lateReply",    \* a read timed out and the connection was kept (READONLY's too)
          "watchLeft",    \* a node still watches, and its socket says it does not
          "watchLost",    \* watched keys that no server watches, or not the one EXEC will go to
          "oldAsk",       \* redir_type still says ASK when a command has failed
          "queueLost",    \* the connection a command was queued on is closed; exec() counts on it
          "fellBack"}     \* a command of a transaction, or EXEC, tried at a node without its MULTI

ASSUME HomeAssumption   == Home \in [Slots -> Nodes] /\ ReplicaOf \in [Nodes -> Nodes \cup {None}]
ASSUME NoneAssumption   == None \notin Nodes \cup Slots
ASSUME OptionAssumption == /\ Failover \in {"NONE", "ERROR", "DISTRIBUTE", "DISTRIBUTE_SLAVES"}
                           /\ Calls \subseteq AllCalls /\ Happens \subseteq AllHappens
                           /\ Timeouts \in BOOLEAN /\ Explored \subseteq Tears
ASSUME BoundAssumption  == MaxCalls \in Nat /\ MaxEvents \in Nat

VARIABLES
  owner,     \* the cluster: the master of each slot,
  moving,    \*   the node its key has moved to while the slot migrates,
  alive,     \*   and the nodes that run
  link,      \* the connection to each node
  master,    \* redisCluster.master
  nodes,     \* redisCluster.nodes
  slaves,    \* redisClusterNode.slaves of each node
  nodeSlot,  \* redisClusterNode.slot
  mode,      \* redisCluster.flags->mode
  fold,      \* redisCluster.multi_head: the commands queued
  refused,   \* the slots with multi_len[slot] = -1
  cmdSlot,   \* redisCluster.cmd_slot
  cmdSock,   \* the node of redisCluster.cmd_sock
  redir,     \* redisCluster.redir_type, redir_slot and redir_host:redir_port
  missed,    \* the attempts of cluster_sock_write that have failed: <<phase, node>>
  pc, op, pos,  \* the call in progress, and where it is; op.readonly is redisCluster.readonly,
                \*   which a call that does not set it finds as an earlier one left it
  ret,       \* what the last call returned: commands, each with the reply it was given
  effects,   \* history: the commands that took effect in the course of the call
  guarded,   \* history: the slots the application believes are watched,
  stale,     \*   and those another client has written since
  torn,      \* history: see Tears
  events     \* number of things that have happened

cluster == <<owner, moving, alive, events>>
table   == <<master, nodes, slaves, nodeSlot>>
target  == <<cmdSlot, cmdSock, redir, missed>>
tx      == <<mode, fold, refused>>
call    == <<pc, op, pos, ret>>
history == <<effects, guarded, stale, torn>>
vars    == <<cluster, link, table, tx, target, call, history>>

-----------------------------------------------------------------------------
(* Connections. *)

\* ro: the server does not take it for a write.
Command == [name : {"DATA", "NODE", "WATCH", "MULTI", "EXEC", "DISCARD", "UNWATCH", "ASKING",
                    "READONLY"},
            id : Nat, slot : Slots \cup {None}, ro : BOOLEAN]
Control(name) == [name |-> name, id |-> 0, slot |-> None, ro |-> FALSE]

Kinds == {"ok", "queued", "value", "error", "down", "moved", "ask", "array", "nil",
          "rest"}  \* an error line without its first byte
Reply == [for : Nat, kind : Kinds, to : Nodes \cup {None}, slot : Slots \cup {None}]

Queued == [id : Nat, slot : Slots \cup {None}]

\* open, multi, watching, readonly: RedisSock.stream, mode, watching and readonly.
\* The rest is the server's: has it closed, replies unread, and its client state.
Link == [open : BOOLEAN, multi : BOOLEAN, watching : BOOLEAN, readonly : BOOLEAN,
         eof : BOOLEAN, wire : Seq(Reply), tx : {"none", "open", "doomed"},
         queue : Seq(Queued), watched : SUBSET Slots, touched : BOOLEAN, asking : BOOLEAN]

Closed == [open |-> FALSE, multi |-> FALSE, watching |-> FALSE, readonly |-> FALSE,
           eof |-> FALSE, wire |-> <<>>, tx |-> "none", queue |-> <<>>,
           watched |-> {}, touched |-> FALSE, asking |-> FALSE]
Fresh  == [Closed EXCEPT !.open = TRUE]

AtEof(l) == l.eof /\ l.wire = <<>>

\* Variant: a socket that watches is reopened like any other.
LiveAnyway(n) ==
  IF link[n].open /\ ~AtEof(link[n]) THEN link[n]
  ELSE IF n \in alive /\ (link[n].open => ~link[n].multi) THEN Fresh
  ELSE Closed

\* redis_sock_server_open and redis_check_eof: a closed connection is opened, one the
\* server has closed is replaced unless it is in MULTI or watching.
Live(n) ==
  IF link[n].open /\ ~AtEof(link[n]) THEN link[n]
  ELSE IF n \in alive /\ (link[n].open => ~link[n].multi /\ ~link[n].watching) THEN Fresh
  ELSE Closed
Reachable(n) == Live(n).open

\* cluster_disconnect: the nodes of the table and their replicas.
Attached == nodes \cup UNION {slaves[n] : n \in nodes}
Disconnected(ls) == [n \in Nodes |-> IF n \in Attached THEN Closed ELSE ls[n]]

-----------------------------------------------------------------------------
(* The servers, as the client relies on them. *)

\* Who serves a key: the master of its slot, the node it moved to when asked, a replica
\* for a reader that sent READONLY.
Verdict(n, l, c) ==
  CASE c.slot = None                                   -> "here"
    [] c.slot # None /\ owner[c.slot] \notin alive     -> "down"
    [] c.slot # None /\ n = owner[c.slot] /\ owner[c.slot] \in alive ->
         IF moving[c.slot] = None THEN "here" ELSE "ask"
    [] OTHER -> IF \/ moving[c.slot] = n /\ l.asking
                   \/ c.ro /\ l.readonly /\ ReplicaOf[n] = owner[c.slot]
                THEN "here" ELSE "moved"

\* EXEC checks the slots of all it has queued, which must be one slot served here.
QueuedSlots(l) == {q.slot : q \in ToSet(l.queue)} \ {None}
KeySlot(l, c)  == IF c.name = "EXEC" /\ QueuedSlots(l) # {} THEN CHOOSE s \in QueuedSlots(l) : TRUE
                  ELSE c.slot
ExecVerdict(n, l, c) == IF Cardinality(QueuedSlots(l)) > 1 THEN "error"
                        ELSE Verdict(n, l, [c EXCEPT !.slot = KeySlot(l, c)])

KindOf(n, l, c, refuse) ==
  CASE c.name \in {"DATA", "NODE", "WATCH"} ->
         IF Verdict(n, l, c) # "here" THEN Verdict(n, l, c)
         ELSE IF refuse THEN "error"
         ELSE IF c.name = "WATCH" THEN "ok"
         ELSE IF l.tx # "none" THEN "queued" ELSE "value"
    [] c.name = "EXEC" -> IF l.tx # "open" THEN "error"
                          ELSE IF ExecVerdict(n, l, c) # "here" THEN ExecVerdict(n, l, c)
                          ELSE IF l.touched THEN "nil" ELSE "array"
    [] c.name = "DISCARD" -> IF l.tx = "none" THEN "error" ELSE "ok"
    [] c.name = "MULTI"   -> IF l.tx = "none" THEN "ok" ELSE "error"
    [] OTHER -> "ok"

RepliesTo(n, l, c, kind) ==
  LET s  == KeySlot(l, c)
      to == CASE kind = "moved" -> owner[s] [] kind = "ask" -> moving[s] [] OTHER -> None
      elements == [i \in 1..Len(l.queue) |->
                     [for |-> l.queue[i].id, kind |-> "value", to |-> None, slot |-> None]]
  IN  <<[for |-> c.id, kind |-> kind, to |-> to, slot |-> s]>>
        \o (IF kind = "array" THEN elements ELSE <<>>)

\* The connection after the server has handled c, if the server still has it.
Served(n, l, c, refuse) ==
  LET kind == KindOf(n, l, c, refuse)
      ends == c.name \in {"EXEC", "DISCARD"}
  IN IF l.eof THEN l ELSE
     [l EXCEPT
       !.wire    = @ \o RepliesTo(n, l, c, kind),
       !.tx      = CASE ends -> "none"
                     [] c.name = "MULTI" -> "open"
                     [] c.name \in {"DATA", "NODE", "WATCH"} /\ @ # "none" /\ kind # "queued" -> "doomed"
                     [] OTHER -> @,
       !.queue   = CASE ends -> <<>>
                     [] kind = "queued" -> Append(@, [id |-> c.id, slot |-> c.slot])
                     [] OTHER -> @,
       !.watched = CASE ends \/ c.name = "UNWATCH" -> {}
                     [] c.name = "WATCH" /\ kind = "ok" -> @ \cup {c.slot}
                     [] OTHER -> @,
       !.touched = @ /\ ~(ends \/ c.name = "UNWATCH"),
       !.asking  = c.name = "ASKING"]

\* What took effect: whether by EXEC or not, and the commands.
Effects(n, l, c, refuse) ==
  LET kind == KindOf(n, l, c, refuse)
  IN  CASE l.eof -> <<>>
        [] kind = "value" /\ ~l.eof -> <<[id |-> c.id, slot |-> c.slot, by |-> "itself"]>>
        [] kind = "array" /\ ~l.eof ->
             [i \in 1..Len(l.queue) |-> [id |-> l.queue[i].id, slot |-> l.queue[i].slot, by |-> "EXEC"]]
        [] OTHER -> <<>>

-----------------------------------------------------------------------------
(* What happens to the cluster. *)

Happening(e) == e \in Happens /\ events < MaxEvents /\ events' = events + 1

\* A write to a watched key, or its migration, dooms the transaction that watches it.
Touched(ls, s) == [n \in Nodes |->
  IF s \in ls[n].watched THEN [ls[n] EXCEPT !.touched = TRUE] ELSE ls[n]]

KeyWritten(s) == /\ "touch" \in Happens
                 /\ \/ s \in guarded \ stale
                    \/ \E n \in Nodes : s \in link[n].watched /\ ~link[n].touched
                 /\ link' = Touched(link, s)
                 /\ stale' = stale \cup ({s} \cap guarded)
                 /\ UNCHANGED <<cluster, table, tx, target, call, effects, guarded, torn>>

SlotMoves(s, n) == /\ Happening("move")
                   /\ n \in alive \ {owner[s]} /\ ReplicaOf[n] = None /\ moving[s] = None
                   /\ owner' = [owner EXCEPT ![s] = n]
                   /\ link' = Touched(link, s)
                   /\ UNCHANGED <<moving, alive, table, tx, target, call, history>>

KeyMoves(s, n) == /\ Happening("ask")
                  /\ n \in alive \ {owner[s]} /\ ReplicaOf[n] = None /\ moving[s] = None
                  /\ moving' = [moving EXCEPT ![s] = n]
                  /\ link' = Touched(link, s)
                  /\ UNCHANGED <<owner, alive, table, tx, target, call, history>>

MigrationEnds(s) == /\ moving[s] # None
                    /\ owner' = [owner EXCEPT ![s] = moving[s]]
                    /\ moving' = [moving EXCEPT ![s] = None]
                    /\ UNCHANGED <<alive, events, link, table, tx, target, call, history>>

Dropped(l) == IF l.open THEN [Closed EXCEPT !.open = TRUE, !.multi = l.multi, !.eof = TRUE,
                                            !.watching = l.watching, !.readonly = l.readonly]
              ELSE l

ServerCloses(n) == /\ Happening("drop")
                   /\ link[n].open /\ ~link[n].eof
                   /\ link' = [link EXCEPT ![n] = Dropped(@)]
                   /\ UNCHANGED <<owner, moving, alive, table, tx, target, call, history>>

\* A replica takes over from a master that dies.
NodeDies(n, r) == /\ Happening("crash")
                  /\ n \in alive /\ r \in alive /\ ReplicaOf[r] = n
                  /\ \A s \in Slots : moving[s] = None
                  /\ alive' = alive \ {n}
                  /\ owner' = [s \in Slots |-> IF owner[s] = n THEN r ELSE owner[s]]
                  /\ link' = [link EXCEPT ![n] = Dropped(@)]
                  /\ UNCHANGED <<moving, table, tx, target, call, history>>

Environment == \/ \E s \in Slots : KeyWritten(s) \/ MigrationEnds(s)
               \/ \E s \in Slots, n \in Nodes : SlotMoves(s, n) \/ KeyMoves(s, n)
               \/ \E n \in Nodes : ServerCloses(n)
               \/ \E n, r \in Nodes : NodeDies(n, r)

-----------------------------------------------------------------------------
(* The start of a call, and its end. *)

Op == [m : AllCalls \cup {"none"}, slot : Slots \cup {None}, cmd : Command, readonly : BOOLEAN]
NoOp == [m |-> "none", slot |-> None, cmd |-> Control("NODE"), readonly |-> FALSE]

Idle(m) == pc = "idle" /\ m \in Calls /\ torn \subseteq Explored

\* A call is numbered after the one before it.
NextId == op.cmd.id + 1
Numbered(m, name) == /\ op.cmd.id < MaxCalls
                     /\ effects' = <<>>
                     /\ op' = [op EXCEPT !.m = m, !.slot = None,
                                          !.cmd = [Control(name) EXCEPT !.id = NextId]]

Answered(id, reply) == [id |-> id, for |-> reply.for, kind |-> reply.kind]
NoAnswer(id) == [id |-> id, for |-> id, kind |-> "false"]

\* The application knows that nothing is watched any more.
Unguarded == guarded' = {} /\ stale' = {}

Returns(answers) == pc' = "idle" /\ ret' = answers

\* What is sent next: ASKING after an ASK redirection, or the command.
Sending(type)  == IF type = "ASK" THEN "asking" ELSE "write"

\* cluster_send_command and cluster_send_slot: point cmd_slot and cmd_sock at the slot, or
\* throw if no node covers it.
Send(m, name, s, readonly) ==
  /\ op.cmd.id < MaxCalls
  /\ op' = [m |-> m, slot |-> s, readonly |-> readonly,
            cmd |-> [name |-> name, id |-> NextId, ro |-> m \in {"read", "watch"},
                     slot |-> IF name = "NODE" THEN None ELSE s]]
  /\ effects' = <<>>
  /\ IF master[s] = None
     THEN Returns(<<NoAnswer(NextId)>>) /\ UNCHANGED <<cmdSlot, cmdSock>>
     ELSE /\ cmdSlot' = s
          /\ cmdSock' = master[s]
          /\ pc' = IF mode = "MULTI" /\ ~link[master[s]].multi THEN "multi" ELSE Sending(redir.type)
          /\ ret' = <<>>
  /\ UNCHANGED <<cluster, link, table, redir, missed, tx, pos, guarded, stale, torn>>

\* A method for keys says whether it reads.  Of those for a node some do, some say that they
\* write, and some (cluster_empty_node_cmd) leave the flag alone, as watch() does.
CallCommand(s)  == Idle("write") /\ Send("write", "DATA", s, FALSE)
CallRead(s)     == Idle("read") /\ mode = "ATOMIC" /\ Send("read", "DATA", s, TRUE)
CallDirected(s) == /\ Idle("directed")
                   /\ \E readonly \in IF mode = "ATOMIC" THEN BOOLEAN ELSE {op.readonly, FALSE} :
                        Send("directed", "NODE", s, readonly)
CallWatch(s)    == Idle("watch") /\ mode = "ATOMIC" /\ Send("watch", "WATCH", s, op.readonly)

CallMulti == /\ Idle("multi") /\ mode = "ATOMIC" /\ Numbered("multi", "MULTI")
             /\ mode' = "MULTI"
             /\ Returns(<<>>)
             /\ UNCHANGED <<cluster, link, table, fold, refused, target, pos, guarded, stale, torn>>

CallExec == /\ Idle("exec") /\ mode = "MULTI" /\ Numbered("exec", "EXEC")
            /\ pc' = "exec" /\ pos' = 1 /\ ret' = <<>>
            /\ UNCHANGED <<cluster, link, table, tx, target, guarded, stale, torn>>

CallDiscard == /\ Idle("discard") /\ mode = "MULTI" /\ Numbered("discard", "DISCARD")
               /\ pc' = "abort" /\ pos' = 1 /\ ret' = <<>>
               /\ UNCHANGED <<cluster, link, table, tx, target, guarded, stale, torn>>

CallUnwatch == /\ Idle("unwatch") /\ mode = "ATOMIC" /\ Numbered("unwatch", "UNWATCH")
               /\ pc' = "unwatch" /\ ret' = <<>> /\ Unguarded
               /\ UNCHANGED <<cluster, link, table, tx, target, pos, torn>>

\* What is in the queue of the transaction is no longer in that of a server.
QueueLost(ls) == IF \E i \in 1..Len(fold) : fold[i].id \notin {q.id : q \in ToSet(ls[master[fold[i].slot]].queue)}
                 THEN {"queueLost"} ELSE {}

\* close() disconnects, and leaves the transaction and its queue as they are.
CallClose == /\ Idle("close") /\ Numbered("close", "NODE")
             /\ link' = Disconnected(link)
             /\ Returns(<<>>) /\ Unguarded
             /\ torn' = torn \cup QueueLost(link')
             /\ UNCHANGED <<cluster, table, tx, target, pos>>

\* reconnect() opens each master again, and each replica that was connected, or none; it
\* throws at once if there is no node.
CallReconnect ==
  LET again == nodes \cup {n \in Attached : link[n].open} IN
  /\ Idle("reconnect") /\ Numbered("reconnect", "NODE")
  /\ IF nodes = {} THEN UNCHANGED <<link, mode, fold>>
     ELSE /\ link' = [n \in Nodes |-> IF n \in again /\ again \subseteq alive THEN Fresh
                                       ELSE Disconnected(link)[n]]
          /\ mode' = "ATOMIC" /\ fold' = <<>>
  /\ Returns(<<>>) /\ Unguarded
  /\ UNCHANGED <<cluster, table, refused, target, pos, torn>>

\* MULTI reached the node, nothing was queued there, and the node or its socket keeps it.
Orphaned(ls) == IF \E n \in Nodes : /\ ls[n].open /\ (ls[n].multi \/ ls[n].tx # "none")
                                    /\ \A i \in 1..Len(fold) : master[fold[i].slot] # n
                THEN {"orphanMulti"} ELSE {}
OldAsk(type) == IF type = "ASK" THEN {"oldAsk"} ELSE {}

\* EXEC fails on one node when another has run its part.
Split == IF \E j \in 1..(pos - 1) : fold[j].slot \notin refused THEN {"splitExec"} ELSE {}

\* The call fails: an exception, or FALSE.  exec() goes on to discard.
Fails(ls, type, tears) ==
  /\ link' = ls
  /\ torn' = torn \cup tears \cup Orphaned(ls) \cup OldAsk(type)
                   \cup IF op.m = "exec" THEN Split ELSE QueueLost(ls)
  /\ IF op.m = "exec" THEN pc' = "abort" /\ pos' = 1 /\ UNCHANGED ret
     ELSE Returns(<<NoAnswer(op.cmd.id)>>) /\ UNCHANGED pos
  /\ Unguarded
GoesOn == UNCHANGED <<pos, ret, guarded, stale, torn>>

\* cluster_send_exec sets multi_len from reply_len, that of some earlier reply if EXEC could
\* not be written.
Unsent == IF op.m = "exec" THEN refused' \in {refused \cup {cmdSlot}, refused \ {cmdSlot}}
          ELSE UNCHANGED refused

-----------------------------------------------------------------------------
(* Control commands: MULTI, ASKING, READONLY and DISCARD, written and read at once. *)

\* cluster_send_direct.  A reply of another type loses its first byte; a reply that is
\* late, or a connection that is lost, fails too.
Direct(n, name) ==
  LET l == Served(n, Live(n), Control(name), FALSE)
      first == l.wire[1]
      answered == IF first.kind = "ok" THEN [l EXCEPT !.wire = Tail(@)]
                  ELSE [l EXCEPT !.wire = <<[first EXCEPT !.kind = "rest"]>> \o Tail(@)]
  IN  IF ~Reachable(n) \/ l.wire = <<>> THEN {[ok |-> FALSE, l |-> Closed, late |-> FALSE]}
      ELSE {[ok |-> first.kind = "ok", l |-> answered, late |-> FALSE]}
           \cup {[ok |-> FALSE, l |-> l, late |-> TRUE] : t \in {TRUE} \cap {Timeouts}}
           \cup {[ok |-> FALSE, l |-> Closed, late |-> FALSE] : e \in {"drop"} \cap Happens}

Late(o) == IF o.late THEN {"lateReply"} ELSE {}

\* Variant: MULTI is not recorded on the socket.
SendMultiUnrecorded ==
  /\ pc = "multi"
  /\ \E o \in Direct(master[op.slot], "MULTI") :
       LET sent == [link EXCEPT ![master[op.slot]] = o.l] IN
       IF o.ok THEN link' = sent /\ pc' = Sending(redir.type) /\ GoesOn
       ELSE Fails(sent, redir.type, Late(o))
  /\ UNCHANGED <<cluster, table, tx, target, op, effects>>

\* cluster_send_multi: written to the master of the slot, recorded on cmd_sock.
SendMulti ==
  /\ pc = "multi"
  /\ \E o \in Direct(master[op.slot], "MULTI") :
       LET sent == [link EXCEPT ![master[op.slot]] = o.l] IN
       IF o.ok
       THEN /\ link' = [sent EXCEPT ![cmdSock].multi = TRUE]
            /\ pc' = Sending(redir.type)
            /\ GoesOn
       ELSE Fails(sent, redir.type, Late(o))
  /\ UNCHANGED <<cluster, table, tx, target, op, effects>>

\* A failure of ASKING ends the call: "Can't communicate with any node".
SendAsking ==
  /\ pc = "asking"
  /\ \E o \in Direct(cmdSock, "ASKING") :
       LET sent == [link EXCEPT ![cmdSock] = o.l] IN
       IF o.ok THEN link' = sent /\ pc' = "write" /\ GoesOn /\ UNCHANGED refused
       ELSE Fails(sent, redir.type, Late(o)) /\ Unsent
  /\ UNCHANGED <<cluster, table, mode, fold, target, op, effects>>

-----------------------------------------------------------------------------
(* cluster_sock_write. *)

IsDirect == op.m \in {"directed", "exec", "unwatch"}
Strategy == IF op.readonly THEN Failover ELSE "NONE"
Replicas == slaves[master[cmdSlot]]

\* The nodes tried, in order: any of the first set, then of the second, then of the third.
\* DISTRIBUTE does not look at cmd_sock.
Tried == <<CASE Strategy = "DISTRIBUTE"        -> {master[cmdSlot]} \cup Replicas
             [] Strategy = "DISTRIBUTE_SLAVES" -> Replicas
             [] OTHER                          -> {cmdSock},
           IF Strategy = "ERROR" THEN Replicas ELSE {},
           IF IsDirect THEN {} ELSE nodes \ {cmdSock}>>
Trying(n, k) == /\ n \in Tried[k] /\ <<k, n>> \notin missed
                /\ \A j \in 1..(k - 1) : {j} \X Tried[j] \subseteq missed

\* cluster_dist_write sends a replica READONLY first.
ByDist(n, k) == /\ n \in Replicas
                /\ k = 2 \/ (k = 1 /\ Strategy \in {"DISTRIBUTE", "DISTRIBUTE_SLAVES"})

\* The connection the command is written to, or why it is not; a connection lost between
\* READONLY and the command is like one lost before the reply to either.
Readied(n, k) ==
  IF ByDist(n, k) /\ Reachable(n) /\ ~Live(n).readonly
  THEN {[o EXCEPT !.l.readonly = o.ok] : o \in Direct(n, "READONLY")}
  ELSE {[ok |-> Reachable(n), l |-> Live(n), late |-> FALSE]}

\* A connection that watched has been closed, and the call goes on with another.
WatchLost == IF \E k \in 1..3, s \in guarded : <<k, master[s]>> \in missed THEN {"watchLost"} ELSE {}

\* In a transaction cmd_sock, until it fails, is the node that has been sent MULTI.
FellBack(n) == IF mode = "MULTI" /\ (n # cmdSock \/ missed # {}) THEN {"fellBack"} ELSE {}

WriteTo(n, k, refuse) ==
  /\ Trying(n, k)
  /\ refuse => "refuse" \in Happens
  /\ \E o \in Readied(n, k) :
       /\ o.ok
       /\ link' = [link EXCEPT ![n] = Served(n, o.l, op.cmd, refuse)]
       /\ effects' = effects \o Effects(n, o.l, op.cmd, refuse)
  /\ cmdSock' = n
  /\ cmdSlot' = IF k = 3 THEN nodeSlot[n] ELSE cmdSlot
  /\ missed' = {}
  /\ pc' = "read"
  /\ torn' = torn \cup WatchLost \cup FellBack(n)
  /\ UNCHANGED <<pos, ret, guarded, stale, refused>>

\* A socket that cannot be written to, or not told READONLY; only a late +OK leaves it open.
Miss(n, k) ==
  /\ Trying(n, k)
  /\ \E o \in Readied(n, k) :
       /\ ~o.ok
       /\ link' = [link EXCEPT ![n] = o.l]
       /\ torn' = torn \cup Late(o) \cup FellBack(n)
  /\ missed' = missed \cup {<<k, n>>}
  /\ UNCHANGED <<cmdSlot, cmdSock, effects, pc, pos, ret, guarded, stale, refused>>

NobodyToWriteTo ==
  /\ \A k \in 1..3 : {k} \X Tried[k] \subseteq missed
  /\ Fails(link, redir.type, {})
  /\ Unsent
  /\ missed' = {}
  /\ UNCHANGED <<cmdSlot, cmdSock, effects>>

Write == /\ pc = "write"
         /\ \/ \E k \in 1..3, n \in Nodes : \/ \E refuse \in BOOLEAN : WriteTo(n, k, refuse)
                                           \/ Miss(n, k)
            \/ NobodyToWriteTo
         /\ UNCHANGED <<cluster, table, redir, mode, fold, op>>

-----------------------------------------------------------------------------
(* cluster_check_response, and the redirections. *)

\* What a read on n finds: a reply, the end of the stream, or nothing in time.
NoReply == [for |-> 0, kind |-> "lost", to |-> None, slot |-> None]
Reads(n) ==
  LET l == link[n] IN
  (IF l.wire = <<>> THEN {[r |-> NoReply, l |-> IF l.eof THEN Closed ELSE l, late |-> FALSE]}
   ELSE {[r |-> IF Head(l.wire).kind = "rest" THEN NoReply ELSE Head(l.wire),
          l |-> [l EXCEPT !.wire = Tail(@)], late |-> FALSE]})
  \cup {[r |-> NoReply, l |-> l, late |-> TRUE] : t \in {TRUE} \cap {Timeouts /\ l.open}}

\* CLUSTER SLOTS: any node that runs tells who serves what, and who copies whom.
Owners == {owner[s] : s \in Slots}
NodesAre(ns) ==
  /\ nodes' = ns
  /\ slaves' = [n \in Nodes |-> {r \in alive : ReplicaOf[r] = n /\ n \in ns}]
  /\ nodeSlot' = [n \in Nodes |-> IF n \in ns THEN CHOOSE s \in Slots : owner[s] = n ELSE None]

\* Mapping anew frees every node, and the connections with them.
Mapped == NodesAre(Owners) /\ master' = owner /\ link' = [n \in Nodes |-> Closed]

\* No seed answers, and nothing changes; or one answers with an entry that is not valid, after
\* some that are, and no slot is mapped any more.
MappingFails(ls) ==
  /\ "unmapped" \in Happens
  /\ \/ UNCHANGED table /\ Fails(ls, "MOVED", {})
     \/ \E ns \in SUBSET Owners :
          /\ NodesAre(ns) /\ master' = [s \in Slots |-> None]
          /\ Fails([n \in Nodes |-> Closed], "MOVED", {})

\* A slot that is watched has another master now, or another connection.
WatchMoved == IF \E s \in guarded : master'[s] # master[s] \/ ~link'[master[s]].open
              THEN {"watchLost"} ELSE {}

\* The loop goes round, with another cmd_sock.
GoesRound(type) == /\ pc' = Sending(type)
                   /\ torn' = torn \cup WatchMoved
                   /\ UNCHANGED <<pos, ret, guarded, stale>>
ToItsMaster == cmdSock' = master'[op.slot] /\ GoesRound("MOVED")

Points(r, ns) == /\ nodes' = ns
                 /\ master' = [master EXCEPT ![r.slot] = r.to]
                 /\ nodeSlot' = [nodeSlot EXCEPT ![r.to] = r.slot]
                 /\ UNCHANGED slaves

\* Variant: a node never heard of is given the slot and not added to the nodes.
UpdateSlotOnly(r, ls) ==
  /\ IF master[r.slot] = r.to THEN UNCHANGED table ELSE Points(r, nodes)
  /\ link' = ls /\ ToItsMaster

\* cluster_update_slot, for a node that is not in the nodes: one of the replicas of the old
\* master has been promoted; the old master has none, which is an invalid state; or the node is
\* new.  A node for a slot that was not mapped is not added to the nodes.
Promoted(r)   == r.to \in slaves[master[r.slot]]
Incomplete(r) == slaves[master[r.slot]] = {}
UpdateSlot(r, ls) ==
  IF master[r.slot] = None
  THEN Points(r, nodes) /\ link' = ls /\ ToItsMaster
  ELSE IF master[r.slot] = r.to
  THEN UNCHANGED table /\ link' = ls /\ ToItsMaster
  ELSE IF r.to \notin nodes /\ Promoted(r)
  THEN \/ Mapped /\ ToItsMaster
       \/ MappingFails(ls) /\ UNCHANGED cmdSock
  ELSE IF r.to \notin nodes /\ Incomplete(r)
  THEN Fails(ls, "MOVED", {}) /\ UNCHANGED <<table, cmdSock>>
  ELSE Points(r, nodes \cup {r.to}) /\ link' = ls /\ ToItsMaster

\* Variant: the loop goes round without a look at the redirection.
FollowNothing(r, ls) ==
  /\ r.kind = "moved"
  /\ link' = ls
  /\ UNCHANGED <<table, cmdSock>>
  /\ GoesRound("MOVED")

FollowMoved(r, ls) == r.kind = "moved" /\ UpdateSlot(r, ls)

FollowAsk(r, ls) ==
  /\ r.kind = "ask"
  /\ nodes' = nodes \cup {r.to}
  /\ nodeSlot' = [nodeSlot EXCEPT ![r.to] = IF r.to \in nodes THEN @ ELSE r.slot]
  /\ link' = ls
  /\ cmdSock' = r.to
  /\ UNCHANGED <<master, slaves>>
  /\ GoesRound("ASK")

\* In a transaction a redirection is an error; outside, it is followed.
Redirected(o, ls) ==
  /\ redir' = [type |-> IF o.r.kind = "ask" THEN "ASK" ELSE "MOVED"]
  /\ IF mode = "MULTI"
     THEN Fails(ls, redir'.type, {}) /\ UNCHANGED <<table, cmdSock>>
     ELSE FollowMoved(o.r, ls) \/ FollowAsk(o.r, ls)
  /\ UNCHANGED fold

\* Variant: a command with no reply is sent again.
FailedAgain(o, ls) ==
  /\ redir' = [type |-> IF o.r.kind = "error" THEN "NONE" ELSE redir.type]
  /\ IF o.r.kind = "lost"
     THEN link' = [ls EXCEPT ![cmdSock] = Closed] /\ pc' = Sending(redir.type) /\ GoesOn
     ELSE Fails(ls, redir'.type, {})
  /\ UNCHANGED <<table, cmdSock, fold>>

\* Variant: the socket is kept when no reply comes.
FailedKept(o, ls) ==
  /\ redir' = [type |-> IF o.r.kind = "error" THEN "NONE" ELSE redir.type]
  /\ Fails(ls, redir'.type, {})
  /\ UNCHANGED <<table, cmdSock, fold>>

\* An error, CLUSTERDOWN or no reply at all: only the last disconnects the socket.
Failed(o, ls) ==
  /\ redir' = [type |-> IF o.r.kind = "error" THEN "NONE" ELSE redir.type]
  /\ Fails(IF o.r.kind = "lost" THEN [ls EXCEPT ![cmdSock] = Closed] ELSE ls, redir'.type, {})
  /\ UNCHANGED <<table, cmdSock, fold>>

\* The reply is handed to the caller, or its handler is queued for exec().
Hands(o) ==
  /\ fold' = IF mode = "MULTI" THEN Append(fold, [id |-> op.cmd.id, slot |-> op.slot]) ELSE fold
  /\ Returns(IF mode = "MULTI" THEN <<>> ELSE <<Answered(op.cmd.id, o.r)>>)
  /\ UNCHANGED <<table, cmdSock, pos, stale>>

\* watch() marks the socket of the master, whichever node it was that answered.
WatchedElsewhere == IF cmdSock # master[op.slot] THEN {"watchLost"} ELSE {}

Succeeded(o, ls) ==
  /\ redir' = [type |-> "NONE"]
  /\ Hands(o)
  /\ IF op.m = "watch"
     THEN /\ link' = [ls EXCEPT ![master[op.slot]].watching = TRUE]
          /\ guarded' = guarded \cup {op.slot}
          /\ torn' = torn \cup WatchedElsewhere
     ELSE link' = ls /\ UNCHANGED <<guarded, torn>>

\* watch() asks whether an answer came, not whether it was an error, and returns TRUE.
WatchRefused(o, ls) ==
  /\ redir' = [type |-> "NONE"]
  /\ link' = [ls EXCEPT ![master[op.slot]].watching = TRUE]
  /\ guarded' = guarded \cup {op.slot}
  /\ torn' = torn \cup {"watchLost"}
  /\ Returns(<<Answered(op.cmd.id, o.r)>>)
  /\ UNCHANGED <<table, cmdSock, fold, pos, stale>>

\* cluster_send_slot knows no redirection and leaves the socket as it is.
SlotFailed(o, ls) ==
  /\ redir' = IF o.r.kind \in {"moved", "ask"}
              THEN [type |-> IF o.r.kind = "ask" THEN "ASK" ELSE "MOVED"] ELSE redir
  /\ Fails(ls, redir'.type, Late(o))
  /\ UNCHANGED <<table, cmdSock, fold>>
SlotSucceeded(o, ls) == Hands(o) /\ link' = ls /\ UNCHANGED <<redir, guarded, torn>>

StillWatching(ls) == IF \E n \in Nodes : ls[n].watched # {} /\ ~ls[n].watching
                     THEN {"watchLeft"} ELSE {}

\* unwatch() unmarks the socket of the master, whichever node it was that answered.
UnwatchAnswered(o, ls) ==
  /\ link' = [ls EXCEPT ![master[cmdSlot]].watching = FALSE]
  /\ torn' = torn \cup StillWatching(link')
  /\ pc' = "unwatch"
  /\ UNCHANGED <<table, cmdSock, fold, redir, pos, ret, guarded, stale>>

Good == {"ok", "queued", "value", "array", "nil"}

Read ==
  /\ pc = "read" /\ op.m # "exec"
  /\ \E o \in Reads(cmdSock) :
       LET ls == [link EXCEPT ![cmdSock] = o.l] IN
       CASE op.m = "directed" /\ o.r.kind \in Good             -> SlotSucceeded(o, ls)
         [] op.m = "unwatch" /\ o.r.kind \in {"ok", "queued"}  -> UnwatchAnswered(o, ls)
         [] \/ op.m = "directed" /\ o.r.kind \notin Good
            \/ op.m = "unwatch" /\ o.r.kind \notin {"ok", "queued"} -> SlotFailed(o, ls)
         [] ~IsDirect /\ o.r.kind \in Good                    -> Succeeded(o, ls)
         [] ~IsDirect /\ o.r.kind \in {"moved", "ask"}        -> Redirected(o, ls)
         [] op.m = "watch" /\ o.r.kind = "error"              -> WatchRefused(o, ls)
         [] OTHER                                             -> Failed(o, ls)
  /\ UNCHANGED <<cluster, mode, refused, cmdSlot, missed, op, effects>>

-----------------------------------------------------------------------------
(* EXEC on each node of the transaction, and the replies of each. *)

\* The transaction is over: cluster_free_queue and cluster_reset_multi.
Reset(ls) == [n \in Nodes |-> IF n \in nodes THEN [ls[n] EXCEPT !.multi = FALSE, !.watching = FALSE]
                              ELSE ls[n]]
EndsTx(ls, answers, tears) ==
  /\ link' = Reset(ls)
  /\ mode' = "ATOMIC" /\ fold' = <<>>
  /\ torn' = torn \cup tears \cup StillWatching(Reset(ls))
  /\ Returns(answers)
  /\ Unguarded

Item == fold[pos]

\* A node that has had its EXEC already is passed over.
ExecNode ==
  /\ pc = "exec" /\ pos <= Len(fold)
  /\ LET n == master[Item.slot] IN
     IF link[n].multi
     THEN /\ cmdSlot' = Item.slot /\ cmdSock' = n
          /\ pc' = Sending(redir.type)
          /\ UNCHANGED pos
     ELSE pos' = pos + 1 /\ UNCHANGED <<cmdSlot, cmdSock, pc>>
  /\ UNCHANGED <<cluster, link, table, tx, redir, missed, op, ret, history>>

ReadExec ==
  /\ pc = "read" /\ op.m = "exec"
  /\ \E o \in Reads(cmdSock) :
       LET ls == [link EXCEPT ![cmdSock] = o.l] IN
       /\ refused' = IF o.r.kind = "array" THEN refused \ {cmdSlot} ELSE refused \cup {cmdSlot}
       /\ IF o.r.kind \in {"array", "nil"}
          THEN /\ link' = [ls EXCEPT ![cmdSock].multi = FALSE, ![cmdSock].watching = FALSE]
               /\ pc' = "exec" /\ pos' = pos + 1
               /\ UNCHANGED <<redir, ret, guarded, stale, torn>>
          ELSE /\ redir' = CASE o.r.kind = "ask"   -> [type |-> "ASK"]
                             [] o.r.kind = "moved" -> [type |-> "MOVED"]
                             [] OTHER -> redir
               /\ Fails(ls, redir'.type, Late(o))
  /\ UNCHANGED <<cluster, table, mode, fold, cmdSlot, cmdSock, missed, op, effects>>

ExecSent == /\ pc = "exec" /\ pos > Len(fold)
            /\ pc' = "collect" /\ pos' = 1
            /\ UNCHANGED <<cluster, link, table, tx, target, op, ret, history>>

\* multi_len is set for the slot that EXEC was sent with.  Another slot of the same node has
\* an older one, and the node has the reply that is not read.
OldRefusal == IF link[master[Item.slot]].wire # <<>> THEN {"oldRefusal"} ELSE {}

\* cluster_multi_mbulk_resp: one element for each command queued; FALSE if its node
\* refused, and nothing at all if a reply does not come.
CollectReply ==
  /\ pc = "collect" /\ pos <= Len(fold)
  /\ IF Item.slot \in refused
     THEN /\ ret' = Append(ret, NoAnswer(Item.id))
          /\ pos' = pos + 1
          /\ torn' = torn \cup OldRefusal
          /\ UNCHANGED <<link, cmdSlot, cmdSock, pc, mode, fold, guarded, stale>>
     ELSE LET n == master[Item.slot] IN
          /\ cmdSlot' = Item.slot /\ cmdSock' = n
          /\ \E o \in Reads(n) :
               LET ls == [link EXCEPT ![n] = o.l] IN
               IF o.r.kind = "lost"
               THEN EndsTx(ls, <<NoAnswer(op.cmd.id)>>, {"splitExec"} \cup Late(o)) /\ UNCHANGED pos
               ELSE /\ link' = ls
                    /\ ret' = Append(ret, Answered(Item.id, o.r))
                    /\ pos' = pos + 1
                    /\ UNCHANGED <<pc, mode, fold, guarded, stale, torn>>
  /\ UNCHANGED <<cluster, table, refused, redir, missed, op, effects>>

Collected == /\ pc = "collect" /\ pos > Len(fold)
             /\ EndsTx(link, ret, {})
             /\ UNCHANGED <<cluster, table, refused, target, op, pos, effects>>

\* cluster_abort_exec.  cluster_send_discard returns -1 for a DISCARD that succeeded,
\* and then every node is disconnected; one that failed is taken for done.
DiscardNode ==
  /\ pc = "abort" /\ pos <= Len(fold)
  /\ LET n == master[Item.slot] IN
     IF link[n].multi
     THEN \E o \in Direct(n, "DISCARD") :
            IF o.ok THEN /\ EndsTx(Disconnected([link EXCEPT ![n] = o.l]), <<NoAnswer(op.cmd.id)>>, {})
                         /\ UNCHANGED pos
            ELSE /\ link' = [link EXCEPT ![n] = [o.l EXCEPT !.multi = FALSE, !.watching = FALSE]]
                 /\ torn' = torn \cup {"abort"} \cup Late(o)
                 /\ pos' = pos + 1
                 /\ UNCHANGED <<pc, ret, mode, fold, guarded, stale>>
     ELSE pos' = pos + 1 /\ UNCHANGED <<link, pc, ret, mode, fold, guarded, stale, torn>>
  /\ UNCHANGED <<cluster, table, refused, target, op, effects>>

\* exec() resets every socket; discard() does so only when it has disconnected.
Discarded ==
  /\ pc = "abort" /\ pos > Len(fold)
  /\ IF op.m = "exec"
     THEN EndsTx(link, <<NoAnswer(op.cmd.id)>>, {})
     ELSE /\ mode' = "ATOMIC" /\ fold' = <<>>
          /\ Returns(<<>>)
          /\ Unguarded
          /\ UNCHANGED <<link, torn>>
  /\ UNCHANGED <<cluster, table, refused, target, op, pos, effects>>

\* unwatch() tells each master that watches, through cluster_send_slot.
Watchers == {s \in Slots : master[s] # None /\ link[master[s]].watching}
UnwatchNode ==
  /\ pc = "unwatch"
  /\ \E s \in Watchers : /\ cmdSlot' = s /\ cmdSock' = master[s]
                         /\ pc' = Sending(redir.type)
  /\ UNCHANGED <<cluster, link, table, tx, redir, missed, op, pos, ret, history>>

Unwatched == /\ pc = "unwatch" /\ Watchers = {}
             /\ Returns(<<>>)
             /\ UNCHANGED <<cluster, link, table, tx, target, op, pos, history>>

-----------------------------------------------------------------------------
(* Specification. *)

Init == /\ owner = Home /\ moving = [s \in Slots |-> None]
        /\ alive = Nodes /\ events = 0
        /\ link = [n \in Nodes |-> Closed]
        /\ master = Home
        /\ nodes = {Home[s] : s \in Slots}
        /\ slaves = [n \in Nodes |-> {r \in Nodes : ReplicaOf[r] = n /\ n \in nodes}]
        /\ nodeSlot = [n \in Nodes |-> IF n \in nodes THEN CHOOSE s \in Slots : Home[s] = n ELSE None]
        /\ mode = "ATOMIC" /\ fold = <<>> /\ refused = {}
        /\ cmdSlot = None /\ cmdSock = None /\ redir = [type |-> "NONE"] /\ missed = {}
        /\ pc = "idle" /\ op = NoOp /\ pos = 1 /\ ret = <<>>
        /\ effects = <<>> /\ guarded = {} /\ stale = {} /\ torn = {}

Begin == \/ \E s \in Slots : CallCommand(s) \/ CallRead(s) \/ CallDirected(s) \/ CallWatch(s)
         \/ CallMulti \/ CallExec \/ CallDiscard \/ CallUnwatch \/ CallClose \/ CallReconnect

Continue == \/ SendMulti \/ SendAsking \/ Write \/ Read
            \/ ExecNode \/ ReadExec \/ ExecSent \/ CollectReply \/ Collected
            \/ DiscardNode \/ Discarded
            \/ UnwatchNode \/ Unwatched

Next == Begin \/ Continue \/ Environment
Spec == Init /\ [][Next]_vars

\* A call in progress goes on, and a migration ends.
FairSpec == Spec /\ WF_vars(Continue) /\ \A s \in Slots : WF_vars(MigrationEnds(s))

-----------------------------------------------------------------------------
(* Properties. *)

LinkOK(l) == /\ l.open \in BOOLEAN /\ l.multi \in BOOLEAN /\ l.watching \in BOOLEAN
             /\ l.readonly \in BOOLEAN /\ l.eof \in BOOLEAN /\ l.touched \in BOOLEAN
             /\ l.asking \in BOOLEAN /\ l.watched \subseteq Slots
             /\ l.tx \in {"none", "open", "doomed"}
             /\ ToSet(l.wire) \subseteq Reply /\ ToSet(l.queue) \subseteq Queued

\* Every variable has its type, and every slot that is mapped is a node of redisCluster.nodes: the
\* others have been freed.  While a command is on its way every slot is mapped.
TypeOK == /\ owner \in [Slots -> Nodes] /\ moving \in [Slots -> Nodes \cup {None}]
          /\ alive \subseteq Nodes /\ events \in 0..MaxEvents
          /\ DOMAIN link = Nodes /\ \A n \in Nodes : LinkOK(link[n])
          /\ nodes \subseteq Nodes /\ master \in [Slots -> nodes \cup {None}]
          /\ pc \in {"multi", "asking", "write", "read"} => None \notin {master[s] : s \in Slots}
          /\ slaves \in [Nodes -> SUBSET Nodes] /\ nodeSlot \in [Nodes -> Slots \cup {None}]
          /\ mode \in {"ATOMIC", "MULTI"} /\ ToSet(fold) \subseteq Queued /\ refused \subseteq Slots
          /\ cmdSlot \in Slots \cup {None} /\ cmdSock \in Nodes \cup {None}
          /\ redir.type \in {"NONE", "MOVED", "ASK"} /\ missed \subseteq (1..3) \X Nodes
          /\ pc \in {"idle", "multi", "asking", "write", "read", "exec", "collect", "abort", "unwatch"}
          /\ op \in Op /\ pos \in 1..(MaxCalls + 1)
          /\ guarded \subseteq Slots /\ stale \subseteq guarded /\ torn \subseteq Tears

\* The reply handed to the application for a command is the reply to that command, whatever
\* redirections, lost connections and transactions came before (cluster_check_response reads
\* the next reply of the socket, whichever it is).
ReplyIsOurs == torn = {} => \A i \in 1..Len(ret) : ret[i].for = ret[i].id

\* Between two calls no connection holds an unread reply; cluster_abort_exec disconnects
\* because otherwise "it would leave us in an undefined state".
NothingUnread == pc = "idle" /\ torn = {} => \A n \in Nodes : link[n].wire = <<>>

\* Each reply is read to its end and by the command it answers.
RepliesMatched == ReplyIsOurs /\ NothingUnread

\* The same of an exec() that aborts, which the comment at cluster_abort_exec is about.
NothingUnreadAfterAbort == pc = "idle" /\ torn \subseteq {"abort"} => \A n \in Nodes : link[n].wire = <<>>

\* The mode of each socket is that of the server, so that a command is never queued by a
\* server when the application is not in a transaction, nor run when it is.
TxMirrored == pc = "idle" /\ torn = {} =>
  \A n \in Nodes : link[n].open /\ ~link[n].eof =>
    /\ link[n].multi <=> link[n].tx # "none"
    /\ link[n].tx # "none" => mode = "MULTI"

\* A command takes effect at most once, however often cluster_send_command sends it again: in
\* its own call, or in the exec() of the transaction it was queued in.
AtMostOnce == torn = {} =>
  /\ \A i, j \in 1..Len(effects) : effects[i].id = effects[j].id => i = j
  /\ pc # "idle" =>
       \A i \in 1..Len(effects) :
         effects[i].id \in {op.cmd.id} \cup IF op.m = "exec" THEN {fold[k].id : k \in 1..Len(fold)} ELSE {}

\* EXEC runs a command only if no slot it touches was written since the application watched
\* it, or the application has been told that a call failed.
WatchHonoured ==
  [][torn' = {} => \A i \in (Len(effects) + 1)..Len(effects') :
       effects'[i].by = "EXEC" => effects'[i].slot \notin stale]_vars

\* What is queued between multi() and exec() is run by EXEC or not at all, and everything runs at
\* most once (MULTI with the first command for a node, cluster_library.c).
RunsAsAsked ==
  [][/\ AtMostOnce'
     /\ mode = "MULTI" /\ torn' = {} =>
          \A i \in (Len(effects) + 1)..Len(effects') : effects'[i].by = "EXEC"]_vars

\* The command loop ends, without the bound of waitms, in a reply or an exception: a slot that has
\* moved is followed, or the call throws because its old master has no replicas.
CallReturns == pc # "idle" ~> pc = "idle"
=============================================================================
