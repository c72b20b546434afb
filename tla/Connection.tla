----------------------------- MODULE Connection -----------------------------
(***************************************************************************)
(* One connection of phpredis: the RedisSock of library.c, the methods of   *)
(* the Redis object that drive it (redis.c), and the server at the other    *)
(* end of the stream.                                                       *)
(*                                                                         *)
(* A method call opens the connection if it has to (redis_sock_server_open), *)
(* checks it for EOF, writes, and reads the replies one at a time; the       *)
(* server may close the connection, be late or refuse a command between any  *)
(* two of these steps.  The client keeps its own record of what the server   *)
(* holds for the connection (transaction, watched keys, database, queued     *)
(* commands), and the properties are about the two records agreeing.         *)
(***************************************************************************)
EXTENDS Naturals, Sequences

CONSTANTS
  Data,        \* ordinary commands of the application (GET, SET, ...)
  Dbs,         \* databases the application selects, other than 0
  Methods,     \* methods of the Redis object the application calls
  Persistent,  \* TRUE for pconnect: redis_sock_disconnect frees the callbacks
  Shapes,      \* replies to ordinary commands: "line", "bulk"
  Refusals,    \* TRUE if the server may refuse a command
  MaxQueue,    \* bound on the commands queued in a block, and on the replies unread
  Explored,    \* bound: after other events of torn, connect() is the only call
  None         \* no argument

AllMethods == {"command", "select", "watch", "unwatch", "multi", "pipeline", "exec",
               "discard", "reset", "close", "reconnect", "connect", "destruct"}

\* What can set the records of the client and of the server apart.
Events == {"leftover", "pipelineLost", "gaveUp", "stoppedShort", "dbUnseen"}

ASSUME DbsAssumption     == Dbs \subseteq Nat \ {0}
ASSUME MethodsAssumption == Methods \subseteq AllMethods
ASSUME ShapesAssumption  == Shapes \subseteq {"line", "bulk"} /\ Shapes # {}
ASSUME FlagsAssumption   == Persistent \in BOOLEAN /\ Refusals \in BOOLEAN
ASSUME BoundsAssumption  == MaxQueue \in Nat /\ Explored \subseteq Events
ASSUME DataAssumption    == None \notin Data

VARIABLES
  status,       \* RedisSock.status; "NONE" when the object has no RedisSock
  stream,       \* RedisSock.stream # NULL
  mode,         \* RedisSock.mode: {} is ATOMIC
  watching,     \* RedisSock.watching
  dbNumber,     \* RedisSock.dbNumber
  callbacks,    \* RedisSock.reply_callback: the command each callback is for
  pipelineCmd,  \* RedisSock.pipeline_cmd
  pc,           \* where the method call in progress is
  op,           \* the method call in progress
  pos,          \* i of redis_sock_read_multibulk_multi_reply_loop, from 1
  left,         \* elements redis_read_multibulk_recursive has to read
  got,          \* header of the bulk reply whose payload is read next
  server,       \* what the server holds for this connection
  wire,         \* commands written and not yet handled by the server
  replies,      \* replies sent by the server and not yet read
  torn          \* history: what has set the two records apart on this stream

sock == <<status, stream, mode, watching, dbNumber, callbacks, pipelineCmd>>
call == <<pc, op, pos, left, got>>
net  == <<server, wire, replies>>
vars == <<sock, call, net, torn>>

-----------------------------------------------------------------------------
(* Commands and replies. *)

Request == [cmd : {"DATA"}, arg : Data]
             \cup [cmd : {"SELECT"}, arg : Dbs \cup {0}]
             \cup [cmd : {"WATCH", "UNWATCH", "MULTI", "EXEC", "DISCARD", "RESET"},
                   arg : {None}]
Req(c) == [cmd |-> c, arg |-> None]

Kinds   == {"ok", "queued", "error", "reset", "line", "bulk", "array", "nil",
            "payload",  \* what is left of a bulk reply when its header has been read
            "header"}   \* what is left when its payload was lost

\* n is the length an array announces, elems what was sent of it.
Element == [for : Request, kind : Kinds, n : {0}, elems : {<<>>}]
Reply   == [for : Request, kind : Kinds, n : Nat, elems : Seq(Element)]
Rep(r, k) == [for |-> r, kind |-> k, n |-> 0, elems |-> <<>>]
NoReply == [for |-> Req("RESET"), kind |-> "none", n |-> 0, elems |-> <<>>]

Ops  == [m : AllMethods \cup {"execMulti", "execPipe", "none"}, req : Request]
NoOp == [m |-> "none", req |-> Req("RESET")]

\* A callback without a function: MULTI and EXEC queued in a pipeline.
Marker(r)  == r.cmd \in {"MULTI", "EXEC"}
InMulti    == "MULTI" \in mode
InPipeline == "PIPELINE" \in mode
Atomic     == mode = {}

\* php_stream_eof: the server has closed and nothing it sent is left to read.
Eof == ~server.alive /\ replies = <<>>

Fresh(db) == [alive |-> TRUE, db |-> db, tx |-> "none", queue |-> <<>>,
              watch |-> FALSE, touched |-> FALSE]
Gone == [Fresh(0) EXCEPT !.alive = FALSE]

-----------------------------------------------------------------------------
(* The server, as the client relies on it. *)

\* The replies to the commands of a transaction: the elements of an array.
Elements(queue, shape) ==
  [i \in 1..Len(queue) |-> Rep(queue[i], IF queue[i].cmd = "DATA" THEN shape[i] ELSE "ok")]

\* The last SELECT of a transaction is its command i, or it has none and i is 0.
LastSelect(queue, i) ==
  /\ i > 0 => queue[i].cmd = "SELECT"
  /\ \A j \in i+1..Len(queue) : queue[j].cmd # "SELECT"

EndOfTx(s) == [s EXCEPT !.tx = "none", !.queue = <<>>, !.watch = FALSE, !.touched = FALSE]

Replied(reply) == /\ wire' = Tail(wire)
                  /\ replies' = Append(replies, reply)
                  /\ UNCHANGED <<sock, call, torn>>

Handles(cmds) == server.alive /\ wire # <<>> /\ Head(wire).cmd \in cmds

\* Inside MULTI a command is queued, or refused, which dooms the transaction.
ServerQueues ==
  /\ Handles({"DATA", "SELECT", "UNWATCH"}) /\ server.tx # "none"
  /\ server' = [server EXCEPT !.queue = Append(@, Head(wire))]
  /\ Replied(Rep(Head(wire), "queued"))

ServerRefusesToQueue ==
  /\ Handles({"DATA", "WATCH", "MULTI"}) /\ server.tx # "none"
  /\ Refusals \/ Head(wire).cmd # "DATA"
  /\ server' = [server EXCEPT !.tx = "doomed"]
  /\ Replied(Rep(Head(wire), "error"))

ServerRuns ==
  /\ Handles({"DATA"}) /\ server.tx = "none"
  /\ \E shape \in Shapes : Replied(Rep(Head(wire), shape))
  /\ UNCHANGED server

ServerRefuses ==
  /\ Refusals
  /\ Handles({"DATA", "SELECT", "WATCH", "RESET"}) /\ server.tx = "none"
  /\ Replied(Rep(Head(wire), "error"))
  /\ UNCHANGED server

ServerSelects ==
  /\ Handles({"SELECT"}) /\ server.tx = "none"
  /\ server' = [server EXCEPT !.db = Head(wire).arg]
  /\ Replied(Rep(Head(wire), "ok"))

ServerWatches ==
  /\ Handles({"WATCH"}) /\ server.tx = "none"
  /\ server' = [server EXCEPT !.watch = TRUE]
  /\ Replied(Rep(Head(wire), "ok"))

ServerUnwatches ==
  /\ Handles({"UNWATCH"}) /\ server.tx = "none"
  /\ server' = [server EXCEPT !.watch = FALSE, !.touched = FALSE]
  /\ Replied(Rep(Head(wire), "ok"))

ServerBegins ==
  /\ Handles({"MULTI"}) /\ server.tx = "none"
  /\ server' = [server EXCEPT !.tx = "open"]
  /\ Replied(Rep(Head(wire), "ok"))

ServerDiscards ==
  /\ Handles({"DISCARD"})
  /\ server' = EndOfTx(server)
  /\ Replied(Rep(Head(wire), IF server.tx = "none" THEN "error" ELSE "ok"))

ServerResets ==
  /\ Handles({"RESET"})
  /\ server' = Fresh(0)
  /\ Replied(Rep(Head(wire), "reset"))

\* EXEC: aborted, given up because a watched key was touched, or run.
ServerExecFails ==
  /\ Handles({"EXEC"})
  /\ server.tx # "open" \/ server.touched
  /\ server' = EndOfTx(server)
  /\ Replied(Rep(Head(wire), IF server.tx = "open" THEN "nil" ELSE "error"))

ServerExecs ==
  /\ Handles({"EXEC"}) /\ server.tx = "open" /\ ~server.touched
  /\ \E i \in 0..Len(server.queue) :
       /\ LastSelect(server.queue, i)
       /\ server' = EndOfTx([server EXCEPT !.db = IF i = 0 THEN @ ELSE server.queue[i].arg])
  /\ \E shape \in [1..Len(server.queue) -> Shapes] :
       Replied([Rep(Head(wire), "array") EXCEPT !.n = Len(server.queue),
                                                !.elems = Elements(server.queue, shape)])

\* Another client writes to a watched key.
ServerTouches ==
  /\ server.alive /\ server.watch /\ ~server.touched
  /\ server' = [server EXCEPT !.touched = TRUE]
  /\ UNCHANGED <<sock, call, wire, replies, torn>>

\* What has arrived of a sequence of replies when the rest is lost: the first
\* of them, the last of which may be a bulk reply without its payload.
Arrives(seq) ==
  {SubSeq(seq, 1, n) : n \in 0..Len(seq)}
    \cup {Append(SubSeq(seq, 1, n - 1), [seq[n] EXCEPT !.kind = "header"]) :
            n \in {i \in 1..Len(seq) : seq[i].kind = "bulk"}}

\* The server closes the connection (timeout, CLIENT KILL, restart): what it
\* had not handled is lost, and so may be the end of what it had sent.
ServerCloses ==
  /\ stream /\ server.alive
  /\ server' = [server EXCEPT !.alive = FALSE]
  /\ wire' = <<>>
  /\ \/ replies' \in Arrives(replies)
     \/ \E n \in 1..Len(replies) : \E elems \in Arrives(replies[n].elems) :
          replies' = Append(SubSeq(replies, 1, n - 1), [replies[n] EXCEPT !.elems = elems])
  /\ UNCHANGED <<sock, call, torn>>

Server ==
  \/ ServerQueues \/ ServerRefusesToQueue \/ ServerRuns \/ ServerRefuses
  \/ ServerSelects \/ ServerWatches \/ ServerUnwatches \/ ServerBegins
  \/ ServerDiscards \/ ServerResets \/ ServerExecFails \/ ServerExecs

Environment == ServerTouches \/ ServerCloses

-----------------------------------------------------------------------------
(* Parts of the actions of the client. *)

\* The method returns, or throws, to the application.
Returns == /\ pc' = "idle" /\ op' = NoOp
           /\ pos' = 0 /\ left' = 0 /\ got' = NoReply

\* The next step of the method, with nothing of a loop in progress.
Goes(next) == pc' = next /\ UNCHANGED <<op, pos, left, got>>

\* redis_sock_disconnect(redis_sock, 1, 1), then the status its caller leaves.
Disconnected(st) ==
  /\ status' = st /\ stream' = FALSE /\ mode' = {} /\ watching' = FALSE
  /\ callbacks' = IF Persistent /\ stream THEN <<>> ELSE callbacks
  /\ server' = Gone /\ wire' = <<>> /\ replies' = <<>>
  /\ torn' = {}
  /\ UNCHANGED <<dbNumber, pipelineCmd>>

NewConnection(db) == server' = Fresh(db) /\ wire' = <<>> /\ replies' = <<>>

\* Where a method goes when its command could not be written.
WriteFailed == CASE op.m = "execPipe" -> Goes("execdone")
                 [] op.m = "destruct" -> Goes("freed")
                 [] OTHER             -> Returns

-----------------------------------------------------------------------------
(* A call, up to the point where the method has a connection. *)

Queueing == {"command", "select", "watch", "unwatch"}

Requested(m) ==
  CASE m = "command" -> [cmd : {"DATA"}, arg : Data]
    [] m = "select"  -> [cmd : {"SELECT"}, arg : Dbs \cup {0}]
    [] m = "watch"   -> {Req("WATCH")}
    [] m = "unwatch" -> {Req("UNWATCH")}
    [] m = "multi"   -> {Req("MULTI")}
    [] m = "exec"    -> {Req("EXEC")}
    [] m \in {"discard", "destruct"} -> {Req("DISCARD")}
    [] OTHER         -> {Req("RESET")}

\* Commands of an earlier block are still queued when no block is open.
Leftover == Atomic /\ status # "FAILED" /\ (callbacks # <<>> \/ pipelineCmd # <<>>)

\* The calls left out are those that end the script with a fatal error, and
\* those the bounds MaxQueue and Explored forbid.
Callable(m) ==
  /\ m \in Methods /\ pc = "idle"
  /\ \/ m = "connect"
     \/ /\ torn \subseteq Explored
        /\ Len(wire) + Len(replies) <= MaxQueue /\ Len(server.queue) <= MaxQueue
  /\ status = "NONE" => m = "connect"
  /\ m = "pipeline" => ~InMulti
  /\ m = "reset" => ~InPipeline
  /\ m \in Queueing \cup {"multi"} =>
       Atomic \/ (Len(callbacks) < MaxQueue /\ Len(pipelineCmd) < MaxQueue)

Call(m) ==
  /\ Callable(m) /\ m \notin {"connect", "destruct", "reconnect"}
  /\ \E r \in Requested(m) : op' = [m |-> m, req |-> r]
  /\ pc' = IF status = "READY" THEN "ready" ELSE "open"
  /\ torn' = IF Leftover THEN torn \cup {"leftover"} ELSE torn
  /\ UNCHANGED <<sock, pos, left, got, net>>

\* The handshake on a stream that is open, on one the server has closed when
\* nothing is written to it, and on a new one.
Handshake(end) ==
  \/ /\ stream /\ server.alive
     /\ server' = [server EXCEPT !.db = IF end = "READY" /\ dbNumber # 0 THEN dbNumber ELSE @]
     /\ UNCHANGED <<wire, replies, torn>>
  \/ /\ stream /\ ~server.alive /\ end = "READY" /\ dbNumber = 0
     /\ UNCHANGED <<net, torn>>
  \/ /\ ~server.alive
     /\ NewConnection(IF end = "READY" THEN dbNumber ELSE 0)
     /\ torn' = torn \cap {"leftover"}

\* redis_sock_server_open: connect, AUTH and SELECT as far as the status
\* requires.  "end" is the status it stops at.
ServerOpen ==
  /\ pc = "open"
  /\ \E end \in {"FAILED", "DISCONNECTED", "CONNECTED", "AUTHENTICATED", "READY"} :
       LET kept == IF status = "FAILED" THEN <<>> ELSE callbacks IN
       /\ end = "AUTHENTICATED" => dbNumber # 0
       /\ status' = end
       /\ stream' = (end \notin {"FAILED", "DISCONNECTED"})
       /\ callbacks' = kept \/ (Persistent /\ ~stream' /\ callbacks' = <<>>)
       /\ pipelineCmd' = IF status = "FAILED" THEN <<>> ELSE pipelineCmd
       /\ IF stream' THEN Handshake(end)
          ELSE server' = Gone /\ wire' = <<>> /\ replies' = <<>> /\ torn' = torn \cap {"leftover"}
       /\ IF end = "READY" THEN Goes("ready") ELSE Returns
  /\ UNCHANGED <<mode, watching, dbNumber>>

\* Redis::reconnect throws "Not connected" when the status is DISCONNECTED.
NotConnected == status = "DISCONNECTED"

Reconnect ==
  /\ Callable("reconnect") /\ ~NotConnected
  /\ \E end \in {"FAILED", "READY"} :
       /\ status' = end /\ stream' = (end = "READY")
       /\ IF end = "READY" THEN NewConnection(dbNumber)
                           ELSE server' = Gone /\ wire' = <<>> /\ replies' = <<>>
  /\ mode' = {} /\ watching' = FALSE
  /\ callbacks' = <<>> /\ pipelineCmd' = <<>> /\ torn' = {}
  /\ UNCHANGED <<dbNumber, call>>

\* Redis::__destruct, the freeing of the object, and Redis::connect, which
\* frees the RedisSock of the object before it makes another.
Destruct ==
  /\ Callable("destruct")
  /\ op' = [m |-> "destruct", req |-> Req("DISCARD")]
  /\ pc' = IF mode = {"MULTI"} /\ stream THEN "check" ELSE "freed"
  /\ UNCHANGED <<sock, pos, left, got, net, torn>>

Connect ==
  /\ Callable("connect")
  /\ op' = [m |-> "connect", req |-> Req("RESET")]
  /\ pc' = "freed"
  /\ UNCHANGED <<sock, pos, left, got, net, torn>>

NewObject ==
  /\ pc = "freed"
  /\ \E end \in {"NONE", "CONNECTED"} :
       /\ status' = end /\ stream' = (end = "CONNECTED")
       /\ IF stream' THEN NewConnection(0)
                     ELSE server' = Gone /\ wire' = <<>> /\ replies' = <<>>
  /\ mode' = {} /\ watching' = FALSE /\ dbNumber' = 0
  /\ callbacks' = <<>> /\ pipelineCmd' = <<>> /\ torn' = {}
  /\ Returns

-----------------------------------------------------------------------------
(* What a method does once it has the connection: change the mode, queue in  *)
(* the pipeline, or write.                                                   *)

\* redis_process_cmd in a pipeline: pipeline_enqueue_cmd, redis_save_callback.
Enqueue ==
  /\ pc = "ready" /\ op.m \in Queueing /\ InPipeline
  /\ callbacks' = Append(callbacks, op.req)
  /\ pipelineCmd' = Append(pipelineCmd, op.req)
  /\ Returns
  /\ UNCHANGED <<status, stream, mode, watching, dbNumber, net, torn>>

EnterPipeline ==
  /\ pc = "ready" /\ op.m = "pipeline"
  /\ mode' = {"PIPELINE"}
  /\ Returns
  /\ UNCHANGED <<status, stream, watching, dbNumber, callbacks, pipelineCmd, net, torn>>

\* Variant: EXEC in a pipeline saves no callback.
EnqueueMarkerForExec ==
  /\ pc = "ready" /\ InPipeline
  /\ \/ /\ op.m = "multi" /\ ~InMulti /\ mode' = mode \cup {"MULTI"}
        /\ callbacks' = Append(callbacks, op.req)
     \/ /\ op.m = "exec" /\ InMulti /\ mode' = mode \ {"MULTI"}
        /\ UNCHANGED callbacks
  /\ pipelineCmd' = Append(pipelineCmd, op.req)
  /\ Returns
  /\ UNCHANGED <<status, stream, watching, dbNumber, net, torn>>

\* multi() and exec() inside a pipeline: queued, with a callback without function.
EnqueueMarker ==
  /\ pc = "ready" /\ InPipeline
  /\ \/ op.m = "multi" /\ ~InMulti /\ mode' = mode \cup {"MULTI"}
     \/ op.m = "exec"  /\ InMulti  /\ mode' = mode \ {"MULTI"}
  /\ callbacks' = Append(callbacks, op.req)
  /\ pipelineCmd' = Append(pipelineCmd, op.req)
  /\ Returns
  /\ UNCHANGED <<status, stream, watching, dbNumber, net, torn>>

\* multi() when already in MULTI; exec() and discard() when in no block.
NothingToDo ==
  /\ pc = "ready"
  /\ \/ op.m = "multi" /\ InMulti
     \/ op.m \in {"exec", "discard"} /\ Atomic
  /\ Returns
  /\ UNCHANGED <<sock, net, torn>>

\* discard() in a pipeline, exec() of an empty one.
EmptyPipeline ==
  /\ pc = "ready" /\ InPipeline
  /\ op.m = "discard" \/ (op.m = "exec" /\ ~InMulti /\ pipelineCmd = <<>>)
  /\ callbacks' = <<>> /\ pipelineCmd' = <<>> /\ mode' = {}
  /\ Returns
  /\ UNCHANGED <<status, stream, watching, dbNumber, net, torn>>

Close ==
  /\ pc = "ready" /\ op.m = "close"
  /\ Disconnected("DISCONNECTED")
  /\ Returns

StartWrite ==
  /\ pc = "ready" /\ pc' = "check"
  /\ \/ op.m \in Queueing /\ ~InPipeline /\ UNCHANGED op
     \/ op.m = "multi"    /\ Atomic /\ UNCHANGED op
     \/ op.m = "discard"  /\ mode = {"MULTI"} /\ UNCHANGED op
     \/ op.m = "reset"    /\ UNCHANGED op
     \/ op.m = "exec"     /\ mode = {"MULTI"} /\ op' = [op EXCEPT !.m = "execMulti"]
     \/ op.m = "exec"     /\ mode = {"PIPELINE"} /\ pipelineCmd # <<>>
                          /\ op' = [op EXCEPT !.m = "execPipe"]
  /\ UNCHANGED <<sock, pos, left, got, net, torn>>

-----------------------------------------------------------------------------
(* redis_sock_write: redis_check_eof, which may reconnect, then the write.   *)

\* Variant: WATCH is not thought of.
MayReconnectUnlessMulti == mode # {"MULTI"}

MayReconnect == mode # {"MULTI"} /\ ~watching

CheckEofLive ==
  /\ pc = "check" /\ ~Eof
  /\ Goes("write")
  /\ UNCHANGED <<sock, net, torn>>

\* Lost in a transaction or while watching, or no reconnection succeeded.
CheckEofFails ==
  /\ pc = "check" /\ Eof
  /\ Disconnected("FAILED")
  /\ WriteFailed

\* The mode is kept; redis_sock_disconnect(redis_sock, 1, 0) frees the callbacks
\* of a persistent connection and the pipeline buffer of none.
CheckEofReconnects ==
  /\ pc = "check" /\ Eof /\ MayReconnect
  /\ NewConnection(dbNumber)
  /\ status' = "READY" /\ watching' = FALSE
  /\ callbacks' = IF Persistent THEN <<>> ELSE callbacks
  /\ torn' = (torn \cap {"leftover"})
               \cup IF Persistent /\ callbacks # <<>> THEN {"pipelineLost"} ELSE {}
  /\ Goes("write")
  /\ UNCHANGED <<stream, mode, dbNumber, pipelineCmd>>

Out == IF op.m = "execPipe" THEN pipelineCmd ELSE <<op.req>>

\* What is written to a connection the server has just closed is lost.
WriteRaw ==
  /\ pc = "write"
  /\ wire' = IF server.alive THEN wire \o Out ELSE wire
  /\ pc' = CASE op.m = "execMulti" -> "exec"
             [] op.m = "execPipe"  -> "element"
             [] OTHER              -> "reply"
  /\ pos' = IF op.m = "execPipe" THEN 1 ELSE pos
  /\ UNCHANGED <<sock, op, left, got, server, replies, torn>>

\* A failed or short write closes the connection.
WriteRawFails ==
  /\ pc = "write"
  /\ Disconnected("FAILED")
  /\ WriteFailed

-----------------------------------------------------------------------------
(* Reading.  redis_sock_read takes a line and, if it announces a bulk string, *)
(* the payload; redis_sock_gets takes a line.                                *)

\* The callback the loop of exec() is at is one with a function, or without.
\* Past the end of the array, inside a transaction, it may be taken for either.
AtCallback == IF pos <= Len(callbacks) THEN ~Marker(callbacks[pos]) ELSE pc = "txqueued"
AtMarker   == IF pos <= Len(callbacks) THEN Marker(callbacks[pos]) ELSE pc = "txqueued"

\* The steps that read with redis_sock_read, with redis_sock_gets, and with
\* redis_read_reply_type and redis_read_variant_bulk.
SockReads == pc = "reply" \/ (pc \in {"element", "txqueued"} /\ AtCallback)
SockGets  == pc = "exec" \/ (pc \in {"element", "txqueued"} /\ AtMarker)
VariantReads == pc = "txelement"
Reading   == SockReads \/ SockGets \/ VariantReads

Connected == stream /\ status # "FAILED"
Arrived   == Connected /\ replies # <<>>

\* What is left on the stream when a line, or a payload, has been read.
Rest == LET line == Head(replies) IN
        IF line.kind = "bulk" THEN <<[line EXCEPT !.kind = "payload"]>> \o Tail(replies)
                              ELSE line.elems \o Tail(replies)

ReadBulkHeader ==
  /\ (SockReads \/ VariantReads) /\ Arrived /\ got = NoReply
  /\ Head(replies).kind \in {"bulk", "header"}
  /\ got' = Head(replies) /\ replies' = Rest
  /\ UNCHANGED <<sock, pc, op, pos, left, server, wire, torn>>

\* The last piece of a reply has arrived, and is read.
TheReply  == IF got = NoReply THEN Head(replies) ELSE got
ReadsIt   == /\ Arrived
             /\ got = NoReply /\ ~SockGets => Head(replies).kind \notin {"bulk", "header"}
             /\ replies' = Rest
             /\ UNCHANGED <<server, wire>>

Positive(r) == r.kind \in {"ok", "queued", "reset"}

\* Variant: the callback of SELECT is given to every command.
AnsweredAsSelect(q, r) ==
  /\ dbNumber' = IF Positive(r) THEN q.arg ELSE dbNumber
  /\ UNCHANGED watching

\* What the callback of request q does to the record of the connection.
Answered(q, r) ==
  /\ dbNumber' = IF q.cmd = "SELECT" /\ Positive(r) THEN q.arg ELSE dbNumber
  /\ watching' = IF q.cmd \in {"WATCH", "UNWATCH"} /\ Positive(r) THEN q.cmd = "WATCH" ELSE watching

ReadAnswer ==
  /\ pc = "reply" /\ op.m \in Queueing /\ Atomic
  /\ ReadsIt
  /\ Answered(op.req, TheReply)
  /\ Returns
  /\ UNCHANGED <<status, stream, mode, callbacks, pipelineCmd, torn>>

\* Variant: the answer of redis_response_enqueued is not looked at.
ReadQueuedAnyway ==
  /\ pc = "reply" /\ op.m \in Queueing /\ ~Atomic
  /\ ReadsIt
  /\ callbacks' = Append(callbacks, op.req)
  /\ Returns
  /\ UNCHANGED <<status, stream, mode, watching, dbNumber, pipelineCmd, torn>>

\* In MULTI: the callback is saved if the command was queued.
ReadQueued ==
  /\ pc = "reply" /\ op.m \in Queueing /\ ~Atomic
  /\ ReadsIt
  /\ callbacks' = IF TheReply.kind = "queued" THEN Append(callbacks, op.req) ELSE callbacks
  /\ Returns
  /\ UNCHANGED <<status, stream, mode, watching, dbNumber, pipelineCmd, torn>>

ReadMulti ==
  /\ pc = "reply" /\ op.m = "multi"
  /\ ReadsIt
  /\ mode' = IF TheReply.kind = "ok" THEN mode \cup {"MULTI"} ELSE mode
  /\ Returns
  /\ UNCHANGED <<status, stream, watching, dbNumber, callbacks, pipelineCmd, torn>>

ReadDiscard ==
  /\ pc = "reply" /\ op.m = "discard"
  /\ ReadsIt
  /\ IF TheReply.kind = "ok" THEN mode' = {} /\ callbacks' = <<>>
                             ELSE UNCHANGED <<mode, callbacks>>
  /\ Returns
  /\ UNCHANGED <<status, stream, watching, dbNumber, pipelineCmd, torn>>

ReadReset ==
  /\ pc = "reply" /\ op.m = "reset"
  /\ ReadsIt
  /\ IF TheReply.kind = "reset"
     THEN /\ callbacks' = <<>> /\ status' = "CONNECTED" /\ mode' = {}
          /\ dbNumber' = 0 /\ watching' = FALSE
     ELSE UNCHANGED <<callbacks, status, mode, dbNumber, watching>>
  /\ Returns
  /\ UNCHANGED <<stream, pipelineCmd, torn>>

ReadFarewell ==
  /\ pc = "reply" /\ op.m = "destruct"
  /\ ReadsIt
  /\ pc' = "freed" /\ got' = NoReply
  /\ UNCHANGED <<sock, op, pos, left, torn>>

-----------------------------------------------------------------------------
(* exec(): redis_sock_read_multibulk_multi_reply reads the header of the      *)
(* reply to EXEC, and ..._loop calls the callbacks in order.                  *)

ReadExec ==
  /\ pc = "exec"
  /\ ReadsIt
  /\ IF TheReply.kind = "array" /\ callbacks # <<>>
     THEN pc' = "element" /\ pos' = 1
     ELSE pc' = "execdone" /\ UNCHANGED pos
  /\ UNCHANGED <<sock, op, left, got, torn>>

ReadElement ==
  /\ pc = "element" /\ AtCallback
  /\ ReadsIt
  /\ Answered(callbacks[pos], TheReply)
  /\ pos' = pos + 1 /\ got' = NoReply
  /\ UNCHANGED <<status, stream, mode, callbacks, pipelineCmd, pc, op, left, torn>>

EndOfLoop ==
  /\ pc = "element" /\ pos > Len(callbacks)
  /\ Goes("execdone")
  /\ UNCHANGED <<sock, net, torn>>

\* A transaction in a pipeline: +OK to MULTI, +QUEUED for each command, then
\* the array, read without the callbacks.
ReadTxOpen ==
  /\ pc = "element" /\ AtMarker
  /\ ReadsIt
  /\ IF TheReply.kind = "ok"
     THEN pc' = "txqueued" /\ pos' = pos + 1 /\ UNCHANGED torn
     ELSE pc' = "execdone" /\ torn' = torn \cup {"gaveUp"} /\ UNCHANGED pos
  /\ UNCHANGED <<sock, op, left, got>>

ReadTxQueued ==
  /\ pc = "txqueued" /\ AtCallback
  /\ ReadsIt
  /\ IF TheReply.kind = "queued"
     THEN pos' = pos + 1 /\ UNCHANGED <<pc, torn>>
     ELSE pc' = "execdone" /\ torn' = torn \cup {"gaveUp"} /\ UNCHANGED pos
  /\ got' = NoReply
  /\ UNCHANGED <<sock, op, left>>

ReadTxExec ==
  /\ pc = "txqueued" /\ AtMarker
  /\ ReadsIt
  /\ left' = TheReply.n
  /\ IF TheReply.n > 0 THEN pc' = "txelement" /\ UNCHANGED pos
                       ELSE pc' = "element" /\ pos' = pos + 1
  /\ UNCHANGED <<sock, op, got, torn>>

\* The callbacks end inside a transaction, and the loop reads past their end: it
\* goes on with what it finds there (AtCallback, AtMarker), or the process dies.
PastTheEnd ==
  /\ pc = "txqueued" /\ pos > Len(callbacks)
  /\ Goes("freed")
  /\ UNCHANGED <<sock, net, torn>>

\* The next element of the array, or the next callback after the last.
NextTxElement ==
  /\ left' = left - 1
  /\ IF left = 1 THEN pc' = "element" /\ pos' = pos + 1 ELSE UNCHANGED <<pc, pos>>

\* No callback runs: a SELECT in the array is not recorded.
ReadTxElement ==
  /\ pc = "txelement"
  /\ ReadsIt
  /\ torn' = IF TheReply.for.cmd = "SELECT" THEN torn \cup {"dbUnseen"} ELSE torn
  /\ NextTxElement
  /\ got' = NoReply
  /\ UNCHANGED <<sock, op>>

ExecDone ==
  /\ pc = "execdone"
  /\ callbacks' = <<>>
  /\ IF op.m = "execMulti"
     THEN mode' = mode \ {"MULTI"} /\ watching' = FALSE /\ UNCHANGED pipelineCmd
     ELSE mode' = mode \ {"PIPELINE"} /\ pipelineCmd' = <<>> /\ UNCHANGED watching
  /\ Returns
  /\ UNCHANGED <<status, stream, dbNumber, net, torn>>

-----------------------------------------------------------------------------
(* A read that fails.  redis_check_eof does not reconnect here.              *)

\* Where the method goes on.  A callback that fails does not end the loop of
\* exec(); the reader of the elements of a transaction ends it unless it is
\* the payload of an element that failed.
ReadFailed ==
  /\ got' = NoReply
  /\ CASE pc = "reply" ->
            IF op.m = "destruct" THEN pc' = "freed" /\ UNCHANGED <<op, pos, left>>
            ELSE pc' = "idle" /\ op' = NoOp /\ pos' = 0 /\ left' = 0
       [] pc = "element" /\ AtCallback ->
            pos' = pos + 1 /\ UNCHANGED <<pc, op, left>>
       [] pc = "txelement" /\ got # NoReply -> NextTxElement /\ UNCHANGED op
       [] OTHER -> pc' = "execdone" /\ UNCHANGED <<op, pos, left>>

\* redis_check_eof sees that the server has closed.
ReadSeesEof ==
  /\ Reading /\ Connected /\ Eof
  /\ Disconnected("FAILED")
  /\ ReadFailed

\* Variants: after the timeout the connection stays open, or the read is retried.
ReadTimesOutOpen ==
  /\ Reading /\ Connected /\ ~Eof /\ got = NoReply
  /\ ReadFailed
  /\ UNCHANGED <<sock, net, torn>>

ReadTimesOutRetries ==
  /\ Reading /\ Connected /\ ~Eof /\ got = NoReply
  /\ UNCHANGED vars

\* redis_sock_gets: no complete line within the read timeout.
ReadTimesOut ==
  /\ Reading /\ Connected /\ ~Eof /\ got = NoReply
  /\ Disconnected("DISCONNECTED")
  /\ ReadFailed

\* redis_sock_read_bulk_reply: the payload is not there within the read
\* timeout; redis_read_reply_type: the type byte is not.  Both leave the
\* connection open.
ReadStopsShort ==
  /\ Connected /\ ~Eof
  /\ (SockReads /\ got # NoReply) \/ VariantReads
  /\ torn' = torn \cup {"stoppedShort"}
  /\ ReadFailed
  /\ UNCHANGED <<sock, net>>

\* The callbacks that come after the one that closed the connection.
ReadClosed ==
  /\ Reading /\ ~Connected
  /\ ReadFailed
  /\ UNCHANGED <<sock, net, torn>>

-----------------------------------------------------------------------------

Client ==
  \/ ServerOpen \/ NewObject
  \/ Enqueue \/ EnterPipeline \/ EnqueueMarker \/ NothingToDo \/ EmptyPipeline \/ Close
  \/ StartWrite \/ CheckEofLive \/ CheckEofFails \/ CheckEofReconnects
  \/ WriteRaw \/ WriteRawFails
  \/ ReadBulkHeader \/ ReadAnswer \/ ReadQueued \/ ReadMulti \/ ReadDiscard
  \/ ReadReset \/ ReadFarewell
  \/ ReadExec \/ ReadElement \/ EndOfLoop \/ ReadTxOpen \/ ReadTxQueued
  \/ ReadTxExec \/ PastTheEnd \/ ReadTxElement \/ ExecDone
  \/ ReadSeesEof \/ ReadTimesOut \/ ReadStopsShort \/ ReadClosed

Application ==
  \/ \E m \in Methods : Call(m)
  \/ Reconnect \/ Destruct \/ Connect

Next == Application \/ Client \/ Server \/ Environment

\* The object after its constructor, or after connect().
Init ==
  /\ status \in {"DISCONNECTED", "CONNECTED"} /\ stream = (status = "CONNECTED")
  /\ mode = {} /\ watching = FALSE
  /\ dbNumber = 0 /\ callbacks = <<>> /\ pipelineCmd = <<>>
  /\ pc = "idle" /\ op = NoOp /\ pos = 0 /\ left = 0 /\ got = NoReply
  /\ server = IF stream THEN Fresh(0) ELSE Gone
  /\ wire = <<>> /\ replies = <<>>
  /\ torn = {}

Spec == Init /\ [][Next]_vars

\* A method in progress takes its next step: no wait of the client is
\* unbounded, as each read ends with a reply, an EOF or the read timeout.
FairSpec == Spec /\ WF_vars(Client)

-----------------------------------------------------------------------------
(* Properties. *)

TypeOK ==
  /\ status \in {"NONE", "FAILED", "DISCONNECTED", "CONNECTED", "AUTHENTICATED", "READY"}
  /\ stream \in BOOLEAN /\ watching \in BOOLEAN
  /\ mode \subseteq {"MULTI", "PIPELINE"}
  /\ dbNumber \in Dbs \cup {0}
  /\ callbacks \in Seq(Request) /\ pipelineCmd \in Seq(Request)
  /\ pc \in {"idle", "open", "ready", "check", "write", "reply", "exec", "element",
             "txqueued", "txelement", "execdone", "freed"}
  /\ op \in Ops /\ pos \in Nat /\ left \in Nat
  /\ got \in Reply \cup {NoReply}
  /\ server \in [alive : BOOLEAN, db : Dbs \cup {0}, tx : {"none", "open", "doomed"},
                 queue : Seq(Request), watch : BOOLEAN, touched : BOOLEAN]
  /\ wire \in Seq(Request) /\ replies \in Seq(Reply)
  /\ torn \subseteq Events

\* The request whose reply the next read is meant to take.
Expected == CASE pc \in {"reply", "exec"} -> op.req
              [] pc \in {"element", "txqueued"} -> callbacks[pos]

\* A method never takes the reply of another command for its own: unless one
\* of the events in torn happened on this stream, what it reads next answers
\* the command it sent (redis_process_cmd, exec, and the loop of exec).
ReplyIsOurs ==
  (torn \subseteq {"dbUnseen"} /\ Reading /\ ~VariantReads /\ got = NoReply /\ replies # <<>>)
     => Head(replies).for = Expected

\* A method that returns leaves nothing to read for the next one.
NothingUnread ==
  (torn \subseteq {"dbUnseen"} /\ pc = "idle") => wire = <<>> /\ replies = <<>>

\* Each reply is read by the command it answers, and all of it before the call returns.
RepliesMatched == ReplyIsOurs /\ NothingUnread

\* Between calls the client is in MULTI exactly when the server is in a
\* transaction, and the callbacks are those of the commands the server queued.
TxMirrored ==
  (torn \subseteq {"dbUnseen"} /\ pc = "idle" /\ stream /\ server.alive)
     => IF mode = {"MULTI"} THEN server.tx # "none" /\ callbacks = server.queue
                            ELSE server.tx = "none"

\* A pipeline has one callback for each command it will send.
PipelineMirrored ==
  (torn \cap {"leftover", "pipelineLost"} = {} /\ pc \in {"idle", "check", "write"} /\ InPipeline)
     => callbacks = pipelineCmd

\* Keys watched on the server are known to be watched by the client, which
\* is what keeps redis_check_eof from reconnecting.
WatchMirrored ==
  (torn \subseteq {"dbUnseen"} /\ pc = "idle" /\ stream /\ server.watch) => watching

\* Between calls on an open connection the database of the server is dbNumber.
DbMirrored ==
  (torn = {} /\ pc = "idle" /\ status = "READY" /\ server.alive) => server.db = dbNumber

\* What the client remembers of the connection is what the server holds for it.
ServerMirrored == TxMirrored /\ WatchMirrored /\ DbMirrored

\* A write never goes to another connection than the one that holds the
\* transaction or the watched keys of the application.
NoSilentReconnect ==
  [][(torn \subseteq {"dbUnseen"} /\ pc = "check" /\ pc' = "write" /\ server' # server)
        => server.tx = "none" /\ ~server.watch]_vars

-----------------------------------------------------------------------------
(* What the documentation says and the code does not do. *)

\* "Execute either a MULTI or PIPELINE block and return the array of replies":
\* exec() has one callback for each element of the array it got.
ExecAnswersTheBlock ==
  (pc = "exec" /\ replies # <<>> /\ Head(replies).kind = "array")
     => Head(replies).n = Len(callbacks)

-----------------------------------------------------------------------------
\* Every call returns to the application.
CallsReturn == pc # "idle" ~> pc = "idle"

=============================================================================
