-------------------------- MODULE ConnectionProofs --------------------------
(***************************************************************************)
(* The theorems about Connection, for any commands, databases and bounds.  *)
(* First the types, and the mirror of the pipeline: what a pipeline has    *)
(* queued and the callbacks that will read the replies agree.              *)
(*                                                                         *)
(* Then the two records of a connection: each reply is read by the command *)
(* it answers and none is left (RepliesMatched), what the client remembers *)
(* of the transaction, the watched keys and the database is what the       *)
(* server holds (ServerMirrored), and a reconnection never leaves either   *)
(* behind (NoSilentReconnect).                                             *)
(***************************************************************************)
EXTENDS Connection, SequenceTheorems, TLAPS

-----------------------------------------------------------------------------
(* Types *)

SockTypes ==
  /\ status \in {"NONE", "FAILED", "DISCONNECTED", "CONNECTED", "AUTHENTICATED", "READY"}
  /\ stream \in BOOLEAN /\ watching \in BOOLEAN
  /\ mode \subseteq {"MULTI", "PIPELINE"}
  /\ dbNumber \in Dbs \cup {0}
  /\ callbacks \in Seq(Request) /\ pipelineCmd \in Seq(Request)

PCs == {"idle", "open", "ready", "check", "write", "reply", "exec", "element",
        "txqueued", "txelement", "execdone", "freed"}

CallTypes ==
  /\ pc \in PCs /\ op \in Ops /\ pos \in Nat /\ left \in Nat
  /\ got \in Reply \cup {NoReply}

Servers == [alive : BOOLEAN, db : Dbs \cup {0}, tx : {"none", "open", "doomed"},
            queue : Seq(Request), watch : BOOLEAN, touched : BOOLEAN]

NetTypes ==
  /\ server \in Servers
  /\ wire \in Seq(Request) /\ replies \in Seq(Reply)

LEMMA TypeParts ==
  TypeOK <=> SockTypes /\ CallTypes /\ NetTypes /\ torn \subseteq Events
BY DEF TypeOK, SockTypes, CallTypes, NetTypes, PCs, Servers

LEMMA TypePartsNext ==
  SockTypes' /\ CallTypes' /\ NetTypes' /\ (torn \subseteq Events)' => TypeOK'
BY DEF TypeOK, SockTypes, CallTypes, NetTypes, PCs, Servers

\* The loop of exec() is at a callback, and the reader of a transaction has an
\* element to read.
Shape == /\ pc \in {"element", "txqueued", "txelement"} => pos \in Nat \ {0}
         /\ pc = "txelement" => left \in Nat \ {0}

-----------------------------------------------------------------------------
(* What the parts of the actions leave. *)

LEMMA EmptyIsSeq ==
  ASSUME NEW S
  PROVE  <<>> \in Seq(S)
OBVIOUS

LEMMA RequestType ==
  /\ \A c \in {"WATCH", "UNWATCH", "MULTI", "EXEC", "DISCARD", "RESET"} : Req(c) \in Request
  /\ \A r \in Request : r.cmd = "SELECT" => r.arg \in Dbs \cup {0}
  /\ NoOp \in Ops
BY DEF Request, Req, NoOp, Ops

LEMMA RepType ==
  ASSUME NEW r \in Request, NEW k \in Kinds
  PROVE  Rep(r, k) \in Reply /\ Rep(r, k) \in Element
<1>1. <<>> \in Seq(Element)
  OBVIOUS
<1>2. QED
  BY <1>1 DEF Rep, Reply, Element

\* An element of an array is read as a reply of its own.
LEMMA ElementsAreReplies ==
  ASSUME NEW seq \in Seq(Element)
  PROVE  seq \in Seq(Reply)
<1>1. <<>> \in Seq(Element)
  OBVIOUS
<1>2. ASSUME NEW e \in Element
      PROVE  e \in Reply
  <2>1. /\ e = [for |-> e.for, kind |-> e.kind, n |-> e.n, elems |-> e.elems]
        /\ e.for \in Request /\ e.kind \in Kinds /\ e.n = 0 /\ e.elems = <<>>
    BY DEF Element
  <2>2. e.n \in Nat /\ e.elems \in Seq(Element)
    BY <1>1, <2>1
  <2>3. QED
    BY <2>1, <2>2 DEF Reply
<1>3. \A i \in 1..Len(seq) : seq[i] \in Reply
  BY <1>2
<1>4. QED
  BY <1>3

LEMMA RequestedType ==
  ASSUME NEW m \in AllMethods
  PROVE  Requested(m) \subseteq Request
BY DEF Requested, Request, Req

LEMMA FreshType ==
  /\ \A db \in Dbs \cup {0} : Fresh(db) \in Servers
  /\ Gone \in Servers
<1>1. <<>> \in Seq(Request)
  OBVIOUS
<1>2. \A db \in Dbs \cup {0} : Fresh(db) \in Servers
  BY <1>1 DEF Fresh, Servers
<1>3. Fresh(0) \in Servers
  BY <1>2
<1>4. Gone \in Servers
  BY <1>3 DEF Gone, Servers
<1>5. QED
  BY <1>2, <1>4

LEMMA NewConnectionTypes ==
  ASSUME NEW db \in Dbs \cup {0}, NewConnection(db)
  PROVE  NetTypes'
BY FreshType DEF NewConnection, NetTypes

LEMMA GoneTypes ==
  server' = Gone /\ wire' = <<>> /\ replies' = <<>> => NetTypes'
BY FreshType DEF NetTypes

LEMMA DisconnectedTypes ==
  ASSUME TypeOK, NEW st \in {"FAILED", "DISCONNECTED"}, Disconnected(st)
  PROVE  SockTypes' /\ NetTypes' /\ (torn \subseteq Events)'
<1>1. SockTypes'
  <2>1. SockTypes
    BY TypeParts
  <2>2. callbacks' \in Seq(Request)
    BY <2>1 DEF Disconnected, SockTypes
  <2>3. QED
    BY <2>1, <2>2 DEF Disconnected, SockTypes
<1>2. NetTypes'
  BY GoneTypes DEF Disconnected
<1>3. QED
  BY <1>1, <1>2 DEF Disconnected, Events

LEMMA ReturnsTypes ==
  Returns => CallTypes'
BY RequestType DEF Returns, CallTypes, PCs

LEMMA GoesTypes ==
  ASSUME TypeOK, NEW next \in PCs, Goes(next)
  PROVE  CallTypes'
BY TypeParts DEF Goes, CallTypes

LEMMA WriteFailedTypes ==
  TypeOK /\ WriteFailed => CallTypes' /\ pc' \in {"execdone", "freed", "idle"}
BY ReturnsTypes, GoesTypes DEF WriteFailed, Goes, Returns, PCs

LEMMA RestType ==
  ASSUME TypeOK, replies # <<>>
  PROVE  Head(replies) \in Reply /\ Rest \in Seq(Reply)
<1> DEFINE line == Head(replies)
<1>1. replies \in Seq(Reply)
  BY TypeParts DEF NetTypes
<1>2. line \in Reply /\ Tail(replies) \in Seq(Reply)
  BY <1>1, HeadTailProperties
<1>3. [line EXCEPT !.kind = "payload"] \in Reply
  BY <1>2 DEF Reply, Kinds
<1>4. <<[line EXCEPT !.kind = "payload"]>> \in Seq(Reply)
  BY <1>3
<1>5. line.elems \in Seq(Reply)
  BY <1>2, ElementsAreReplies DEF Reply
<1>6. <<[line EXCEPT !.kind = "payload"]>> \o Tail(replies) \in Seq(Reply)
  BY <1>2, <1>4, ConcatProperties
<1>7. line.elems \o Tail(replies) \in Seq(Reply)
  BY <1>2, <1>5, ConcatProperties
<1>8. QED
  BY <1>2, <1>6, <1>7 DEF Rest

LEMMA ReadsItTypes ==
  TypeOK /\ ReadsIt => NetTypes' /\ TheReply \in Reply
<1> SUFFICES ASSUME TypeOK, ReadsIt PROVE NetTypes' /\ TheReply \in Reply
  OBVIOUS
<1>1. replies # <<>>
  BY DEF ReadsIt, Arrived
<1>2. replies' \in Seq(Reply) /\ Head(replies) \in Reply
  BY <1>1, RestType DEF ReadsIt
<1>3. NetTypes'
  BY <1>2, TypeParts DEF NetTypes, ReadsIt
<1>4. got \in Reply \cup {NoReply}
  BY TypeParts DEF CallTypes
<1>5. QED
  BY <1>2, <1>3, <1>4 DEF TheReply

LEMMA ReadFailedTypes ==
  TypeOK /\ Shape /\ ReadFailed => CallTypes' /\ Shape'
<1> SUFFICES ASSUME TypeOK, Shape, ReadFailed PROVE CallTypes' /\ Shape'
  OBVIOUS
<1>1. CallTypes /\ NoOp \in Ops /\ got' = NoReply
  BY TypeParts, RequestType DEF ReadFailed
<1>2. CASE pc = "reply"
  BY <1>1, <1>2 DEF ReadFailed, CallTypes, Shape, PCs
<1>3. CASE pc = "element" /\ AtCallback
  BY <1>1, <1>3 DEF ReadFailed, CallTypes, Shape, PCs
<1>4. CASE pc = "txelement" /\ got # NoReply
  BY <1>1, <1>4 DEF ReadFailed, CallTypes, Shape, PCs, NextTxElement
<1>5. CASE /\ pc # "reply" /\ ~(pc = "element" /\ AtCallback)
           /\ ~(pc = "txelement" /\ got # NoReply)
  BY <1>1, <1>5 DEF ReadFailed, CallTypes, Shape, PCs
<1>6. QED
  BY <1>2, <1>3, <1>4, <1>5

LEMMA AnsweredTypes ==
  ASSUME TypeOK, NEW q \in Request, NEW r, Answered(q, r)
  PROVE  dbNumber' \in Dbs \cup {0} /\ watching' \in BOOLEAN
BY TypeParts, RequestType DEF Answered, SockTypes

-----------------------------------------------------------------------------
(* The server *)

LEMMA RepliedTypes ==
  ASSUME TypeOK, Shape, wire # <<>>, NEW r \in Reply, Replied(r), server' \in Servers
  PROVE  TypeOK' /\ Shape'
<1>1. SockTypes' /\ CallTypes' /\ (torn \subseteq Events)' /\ Shape'
  BY TypeParts DEF Replied, sock, call, SockTypes, CallTypes, Shape
<1>2. wire \in Seq(Request) /\ replies \in Seq(Reply)
  BY TypeParts DEF NetTypes
<1>3. wire' \in Seq(Request)
  BY <1>2, HeadTailProperties DEF Replied
<1>4. replies' \in Seq(Reply)
  BY <1>2, AppendProperties DEF Replied
<1>5. QED
  BY <1>1, <1>3, <1>4, TypePartsNext DEF NetTypes

LEMMA HandledType ==
  ASSUME TypeOK, NEW cmds, Handles(cmds)
  PROVE  wire # <<>> /\ Head(wire) \in Request /\ server \in Servers
<1>1. wire \in Seq(Request) /\ wire # <<>> /\ server \in Servers
  BY TypeParts DEF NetTypes, Handles
<1>2. QED
  BY <1>1, HeadTailProperties

LEMMA OneReplyTypes ==
  ASSUME TypeOK, Shape, NEW r \in Request, NEW k \in Kinds, wire # <<>>,
         Replied(Rep(r, k)), server' \in Servers
  PROVE  TypeOK' /\ Shape'
BY RepType, RepliedTypes

LEMMA EndOfTxType ==
  ASSUME NEW s \in Servers
  PROVE  EndOfTx(s) \in Servers
<1>1. <<>> \in Seq(Request)
  OBVIOUS
<1>2. QED
  BY <1>1 DEF EndOfTx, Servers

LEMMA ExecsTypes ==
  TypeOK /\ Shape /\ ServerExecs => TypeOK' /\ Shape'
<1> SUFFICES ASSUME TypeOK, Shape, ServerExecs PROVE TypeOK' /\ Shape'
  OBVIOUS
<1>1. wire # <<>> /\ Head(wire) \in Request /\ server \in Servers
  BY HandledType DEF ServerExecs
<1>2. server.queue \in Seq(Request) /\ Len(server.queue) \in Nat
  BY <1>1 DEF Servers
<1>3. server' \in Servers
  <2>1. PICK i \in 0..Len(server.queue) :
          /\ LastSelect(server.queue, i)
          /\ server' = EndOfTx([server EXCEPT !.db = IF i = 0 THEN @ ELSE server.queue[i].arg])
    BY DEF ServerExecs
  <2>2. i # 0 => server.queue[i] \in Request /\ server.queue[i].cmd = "SELECT"
    BY <1>2, <2>1 DEF LastSelect
  <2>3. i # 0 => server.queue[i].arg \in Dbs \cup {0}
    BY <2>2, RequestType
  <2>4. [server EXCEPT !.db = IF i = 0 THEN @ ELSE server.queue[i].arg] \in Servers
    BY <1>1, <2>3 DEF Servers
  <2>5. QED
    BY <2>1, <2>4, EndOfTxType
<1>4. PICK shape \in [1..Len(server.queue) -> Shapes] :
        Replied([Rep(Head(wire), "array") EXCEPT !.n = Len(server.queue),
                                                 !.elems = Elements(server.queue, shape)])
  BY DEF ServerExecs
<1>5. Elements(server.queue, shape) \in Seq(Element)
  <2> DEFINE kind(i) == IF server.queue[i].cmd = "DATA" THEN shape[i] ELSE "ok"
  <2>1. \A i \in 1..Len(server.queue) : shape[i] \in Shapes
    BY <1>4
  <2>2. \A i \in 1..Len(server.queue) : server.queue[i] \in Request
    BY <1>2
  <2>3. \A i \in 1..Len(server.queue) : kind(i) \in Kinds
    BY <2>1, ShapesAssumption DEF Kinds
  <2>4. \A i \in 1..Len(server.queue) : Rep(server.queue[i], kind(i)) \in Element
    BY <2>2, <2>3, RepType
  <2>5. QED
    BY <1>2, <2>4 DEF Elements
<1>6. [Rep(Head(wire), "array") EXCEPT !.n = Len(server.queue),
                                       !.elems = Elements(server.queue, shape)] \in Reply
  BY <1>1, <1>2, <1>5 DEF Rep, Reply, Kinds
<1>7. QED
  BY <1>1, <1>3, <1>4, <1>6, RepliedTypes

LEMMA ServerTypes ==
  TypeOK /\ Shape /\ Server => TypeOK' /\ Shape'
<1> SUFFICES ASSUME TypeOK, Shape, Server PROVE TypeOK' /\ Shape'
  OBVIOUS
<1>1. CASE ServerQueues
  <2>1. wire # <<>> /\ Head(wire) \in Request /\ server \in Servers
    BY <1>1, HandledType DEF ServerQueues
  <2>2. Append(server.queue, Head(wire)) \in Seq(Request)
    BY <2>1, AppendProperties DEF Servers
  <2>3. server' \in Servers
    BY <1>1, <2>1, <2>2 DEF ServerQueues, Servers
  <2>4. QED
    BY <1>1, <2>1, <2>3, OneReplyTypes DEF ServerQueues, Kinds
<1>2. CASE ServerRefusesToQueue
  <2>1. wire # <<>> /\ Head(wire) \in Request /\ server \in Servers
    BY <1>2, HandledType DEF ServerRefusesToQueue
  <2>2. server' \in Servers
    BY <1>2, <2>1 DEF ServerRefusesToQueue, Servers
  <2>3. QED
    BY <1>2, <2>1, <2>2, OneReplyTypes DEF ServerRefusesToQueue, Kinds
<1>3. CASE ServerRuns
  <2>1. wire # <<>> /\ Head(wire) \in Request /\ server \in Servers
    BY <1>3, HandledType DEF ServerRuns
  <2>2. server' \in Servers
    BY <1>3, <2>1 DEF ServerRuns, Servers
  <2>3. QED
    BY <1>3, <2>1, <2>2, OneReplyTypes, ShapesAssumption DEF ServerRuns, Kinds
<1>4. CASE ServerRefuses
  <2>1. wire # <<>> /\ Head(wire) \in Request /\ server \in Servers
    BY <1>4, HandledType DEF ServerRefuses
  <2>2. server' \in Servers
    BY <1>4, <2>1 DEF ServerRefuses, Servers
  <2>3. QED
    BY <1>4, <2>1, <2>2, OneReplyTypes DEF ServerRefuses, Kinds
<1>5. CASE ServerSelects
  <2>1. wire # <<>> /\ Head(wire) \in Request /\ server \in Servers
    BY <1>5, HandledType DEF ServerSelects
  <2>2. server' \in Servers
    BY <1>5, <2>1, RequestType DEF ServerSelects, Servers, Handles
  <2>3. QED
    BY <1>5, <2>1, <2>2, OneReplyTypes DEF ServerSelects, Kinds
<1>6. CASE ServerWatches
  <2>1. wire # <<>> /\ Head(wire) \in Request /\ server \in Servers
    BY <1>6, HandledType DEF ServerWatches
  <2>2. server' \in Servers
    BY <1>6, <2>1 DEF ServerWatches, Servers
  <2>3. QED
    BY <1>6, <2>1, <2>2, OneReplyTypes DEF ServerWatches, Kinds
<1>7. CASE ServerUnwatches
  <2>1. wire # <<>> /\ Head(wire) \in Request /\ server \in Servers
    BY <1>7, HandledType DEF ServerUnwatches
  <2>2. server' \in Servers
    BY <1>7, <2>1 DEF ServerUnwatches, Servers
  <2>3. QED
    BY <1>7, <2>1, <2>2, OneReplyTypes DEF ServerUnwatches, Kinds
<1>8. CASE ServerBegins
  <2>1. wire # <<>> /\ Head(wire) \in Request /\ server \in Servers
    BY <1>8, HandledType DEF ServerBegins
  <2>2. server' \in Servers
    BY <1>8, <2>1 DEF ServerBegins, Servers
  <2>3. QED
    BY <1>8, <2>1, <2>2, OneReplyTypes DEF ServerBegins, Kinds
<1>9. CASE ServerDiscards
  <2>1. wire # <<>> /\ Head(wire) \in Request /\ server \in Servers
    BY <1>9, HandledType DEF ServerDiscards
  <2>2. server' \in Servers
    BY <1>9, <2>1, EndOfTxType DEF ServerDiscards
  <2>3. QED
    BY <1>9, <2>1, <2>2, OneReplyTypes DEF ServerDiscards, Kinds
<1>10. CASE ServerResets
  <2>1. wire # <<>> /\ Head(wire) \in Request /\ server \in Servers
    BY <1>10, HandledType DEF ServerResets
  <2>2. server' \in Servers
    BY <1>10, <2>1, FreshType DEF ServerResets
  <2>3. QED
    BY <1>10, <2>1, <2>2, OneReplyTypes DEF ServerResets, Kinds
<1>11. CASE ServerExecFails
  <2>1. wire # <<>> /\ Head(wire) \in Request /\ server \in Servers
    BY <1>11, HandledType DEF ServerExecFails
  <2>2. server' \in Servers
    BY <1>11, <2>1, EndOfTxType DEF ServerExecFails
  <2>3. QED
    BY <1>11, <2>1, <2>2, OneReplyTypes DEF ServerExecFails, Kinds
<1>12. CASE ServerExecs
  BY <1>12, ExecsTypes
<1>13. QED
  BY <1>1, <1>2, <1>3, <1>4, <1>5, <1>6, <1>7, <1>8, <1>9, <1>10, <1>11, <1>12 DEF Server

-----------------------------------------------------------------------------
(* The calls, and the methods up to their write *)

LEMMA CallTypesNext ==
  ASSUME TypeOK, Shape, NEW m \in Methods, Call(m)
  PROVE  TypeOK' /\ Shape'
<1>1. m \in AllMethods
  BY MethodsAssumption
<1>2. PICK r \in Requested(m) : op' = [m |-> m, req |-> r]
  BY DEF Call
<1>3. op' \in Ops
  BY <1>1, <1>2, RequestedType DEF Ops
<1>4. pc' \in {"ready", "open"} /\ UNCHANGED <<sock, pos, left, got, net>>
  BY DEF Call
<1>5. torn' \subseteq Events
  BY TypeParts DEF Call, Events
<1>6. SockTypes' /\ NetTypes'
  BY <1>4, TypeParts DEF sock, net, SockTypes, NetTypes
<1>7. CallTypes' /\ Shape'
  BY <1>3, <1>4, TypeParts DEF CallTypes, Shape, PCs
<1>8. QED
  BY <1>5, <1>6, <1>7, TypePartsNext

LEMMA ServerOpenTypes ==
  TypeOK /\ Shape /\ ServerOpen => TypeOK' /\ Shape'
<1> SUFFICES ASSUME TypeOK, Shape, ServerOpen PROVE TypeOK' /\ Shape'
  OBVIOUS
<1>0. SockTypes /\ CallTypes /\ NetTypes /\ torn \subseteq Events
  BY TypeParts
<1>1. PICK end \in {"FAILED", "DISCONNECTED", "CONNECTED", "AUTHENTICATED", "READY"} :
       LET kept == IF status = "FAILED" THEN <<>> ELSE callbacks IN
       /\ end = "AUTHENTICATED" => dbNumber # 0
       /\ status' = end
       /\ stream' = (end \notin {"FAILED", "DISCONNECTED"})
       /\ callbacks' = kept \/ (Persistent /\ ~stream' /\ callbacks' = <<>>)
       /\ pipelineCmd' = IF status = "FAILED" THEN <<>> ELSE pipelineCmd
       /\ IF stream' THEN Handshake(end)
          ELSE server' = Gone /\ wire' = <<>> /\ replies' = <<>> /\ torn' = torn \cap {"leftover"}
       /\ IF end = "READY" THEN Goes("ready") ELSE Returns
  BY DEF ServerOpen
<1>2. callbacks' \in Seq(Request) /\ pipelineCmd' \in Seq(Request)
  <2>1. callbacks' \in {callbacks, <<>>} /\ pipelineCmd' \in {pipelineCmd, <<>>}
    BY <1>1
  <2>2. QED
    BY <1>0, <2>1, EmptyIsSeq DEF SockTypes
<1>3. SockTypes'
  BY <1>0, <1>1, <1>2 DEF ServerOpen, SockTypes
<1>4. NetTypes' /\ torn' \subseteq Events
  <2>1. CASE stream'
    <3>1. Handshake(end)
      BY <1>1, <2>1
    <3>2. dbNumber \in Dbs \cup {0}
      BY <1>0 DEF SockTypes
    <3>3. CASE /\ stream /\ server.alive
               /\ server' = [server EXCEPT !.db = IF end = "READY" /\ dbNumber # 0 THEN dbNumber ELSE @]
               /\ UNCHANGED <<wire, replies, torn>>
      BY <1>0, <3>2, <3>3 DEF NetTypes, Servers
    <3>4. CASE UNCHANGED <<net, torn>>
      BY <1>0, <3>4 DEF NetTypes, net
    <3>5. CASE /\ NewConnection(IF end = "READY" THEN dbNumber ELSE 0)
               /\ torn' = torn \cap {"leftover"}
      <4>1. (IF end = "READY" THEN dbNumber ELSE 0) \in Dbs \cup {0}
        BY <3>2
      <4>2. NetTypes'
        BY <3>5, <4>1, NewConnectionTypes
      <4>3. QED
        BY <1>0, <3>5, <4>2
    <3>6. QED
      BY <3>1, <3>3, <3>4, <3>5 DEF Handshake
  <2>2. CASE ~stream'
    BY <1>0, <1>1, <2>2, GoneTypes
  <2>3. QED
    BY <2>1, <2>2
<1>5. CallTypes' /\ pc' \in {"ready", "idle"}
  <2>1. CASE end = "READY"
    BY <1>1, <2>1, GoesTypes DEF Goes, PCs
  <2>2. CASE end # "READY"
    BY <1>1, <2>2, ReturnsTypes DEF Returns
  <2>3. QED
    BY <2>1, <2>2
<1>6. QED
  BY <1>3, <1>4, <1>5, TypePartsNext DEF Shape

\* Steps that leave the connection alone, or only its net.
LEMMA ReconnectTypes ==
  TypeOK /\ Shape /\ Reconnect => TypeOK' /\ Shape'
<1> SUFFICES ASSUME TypeOK, Shape, Reconnect PROVE TypeOK' /\ Shape'
  OBVIOUS
<1>0. SockTypes /\ CallTypes /\ NetTypes
  BY TypeParts
<1>1. NetTypes'
  BY <1>0, GoneTypes, NewConnectionTypes DEF Reconnect, SockTypes
<1>2. SockTypes'
  <2>1. status' \in {"FAILED", "READY"} /\ stream' \in BOOLEAN
    BY DEF Reconnect
  <2>2. callbacks' \in Seq(Request) /\ pipelineCmd' \in Seq(Request)
    BY EmptyIsSeq DEF Reconnect
  <2>3. QED
    BY <1>0, <2>1, <2>2 DEF Reconnect, SockTypes
<1>3. CallTypes' /\ torn' \subseteq Events /\ Shape'
  BY <1>0 DEF Reconnect, call, CallTypes, Shape
<1>4. QED
  BY <1>1, <1>2, <1>3, TypePartsNext

LEMMA NewObjectTypes ==
  TypeOK /\ Shape /\ NewObject => TypeOK' /\ Shape'
<1> SUFFICES ASSUME TypeOK, Shape, NewObject PROVE TypeOK' /\ Shape'
  OBVIOUS
<1>1. NetTypes'
  BY GoneTypes, NewConnectionTypes DEF NewObject
<1>2. SockTypes'
  <2>1. callbacks' \in Seq(Request) /\ pipelineCmd' \in Seq(Request)
    BY EmptyIsSeq DEF NewObject
  <2>2. QED
    BY <2>1 DEF NewObject, SockTypes
<1>3. CallTypes' /\ torn' \subseteq Events /\ Shape'
  BY ReturnsTypes DEF NewObject, Returns, Shape
<1>4. QED
  BY <1>1, <1>2, <1>3, TypePartsNext

-----------------------------------------------------------------------------
(* Queueing and writing *)

\* A step that changes no more than the given parts has its types.
LEMMA NetKept ==
  TypeOK /\ UNCHANGED net => NetTypes'
BY TypeParts DEF net, NetTypes

LEMMA SockKept ==
  TypeOK /\ UNCHANGED sock => SockTypes'
BY TypeParts DEF sock, SockTypes

LEMMA ReturnsShape ==
  Returns => Shape'
BY DEF Returns, Shape

LEMMA GoesShape ==
  ASSUME NEW next \in PCs \ {"element", "txqueued", "txelement"}, Goes(next)
  PROVE  Shape'
BY DEF Goes, Shape

LEMMA QueueTypes ==
  TypeOK /\ Shape /\ (Enqueue \/ EnterPipeline \/ EnqueueMarker \/ EmptyPipeline)
    => TypeOK' /\ Shape'
<1> SUFFICES ASSUME TypeOK, Shape, Enqueue \/ EnterPipeline \/ EnqueueMarker \/ EmptyPipeline
             PROVE  TypeOK' /\ Shape'
  OBVIOUS
<1>0. SockTypes /\ CallTypes /\ torn \subseteq Events
  BY TypeParts
<1>1. UNCHANGED <<status, stream, watching, dbNumber, net, torn>> /\ Returns
  BY DEF Enqueue, EnterPipeline, EnqueueMarker, EmptyPipeline
<1>2. NetTypes' /\ CallTypes' /\ Shape' /\ torn' \subseteq Events
  BY <1>0, <1>1, NetKept, ReturnsTypes, ReturnsShape
<1>3. mode' \subseteq {"MULTI", "PIPELINE"}
  BY <1>0 DEF Enqueue, EnterPipeline, EnqueueMarker, EmptyPipeline, SockTypes
<1>4. op.req \in Request
  BY <1>0 DEF CallTypes, Ops
<1>5. Append(callbacks, op.req) \in Seq(Request) /\ Append(pipelineCmd, op.req) \in Seq(Request)
  BY <1>0, <1>4, AppendProperties DEF SockTypes
<1>6. callbacks' \in Seq(Request) /\ pipelineCmd' \in Seq(Request)
  BY <1>0, <1>5, EmptyIsSeq DEF Enqueue, EnterPipeline, EnqueueMarker, EmptyPipeline, SockTypes
<1>7. SockTypes'
  BY <1>0, <1>1, <1>3, <1>6 DEF SockTypes
<1>8. QED
  BY <1>2, <1>7, TypePartsNext

LEMMA CloseTypes ==
  TypeOK /\ Shape /\ Close => TypeOK' /\ Shape'
BY DisconnectedTypes, ReturnsTypes, ReturnsShape, TypePartsNext DEF Close

LEMMA WriteFailsTypes ==
  TypeOK /\ Shape /\ Disconnected("FAILED") /\ WriteFailed => TypeOK' /\ Shape'
BY DisconnectedTypes, WriteFailedTypes, TypePartsNext DEF Shape

LEMMA StartWriteTypes ==
  TypeOK /\ Shape /\ StartWrite => TypeOK' /\ Shape'
<1> SUFFICES ASSUME TypeOK, Shape, StartWrite PROVE TypeOK' /\ Shape'
  OBVIOUS
<1>0. CallTypes /\ torn \subseteq Events
  BY TypeParts
<1>1. op' = op \/ op' \in {[op EXCEPT !.m = "execMulti"], [op EXCEPT !.m = "execPipe"]}
  BY DEF StartWrite
<1>2. op' \in Ops
  BY <1>0, <1>1 DEF CallTypes, Ops
<1>3. CallTypes' /\ Shape'
  BY <1>0, <1>2 DEF StartWrite, CallTypes, Shape, PCs
<1>4. QED
  BY <1>0, <1>3, SockKept, NetKept, TypePartsNext DEF StartWrite

LEMMA ReconnectsTypes ==
  TypeOK /\ Shape /\ CheckEofReconnects => TypeOK' /\ Shape'
<1> SUFFICES ASSUME TypeOK, Shape, CheckEofReconnects PROVE TypeOK' /\ Shape'
  OBVIOUS
<1>0. SockTypes /\ CallTypes /\ torn \subseteq Events
  BY TypeParts
<1>1. NetTypes'
  BY <1>0, NewConnectionTypes DEF CheckEofReconnects, SockTypes
<1>2. callbacks' \in Seq(Request)
  BY <1>0, EmptyIsSeq DEF CheckEofReconnects, SockTypes
<1>3. SockTypes'
  BY <1>0, <1>2 DEF CheckEofReconnects, SockTypes
<1>4. CallTypes' /\ Shape'
  BY GoesTypes, GoesShape DEF CheckEofReconnects, PCs
<1>5. torn' \subseteq Events
  BY <1>0 DEF CheckEofReconnects, Events
<1>6. QED
  BY <1>1, <1>3, <1>4, <1>5, TypePartsNext

LEMMA WriteRawTypes ==
  TypeOK /\ Shape /\ WriteRaw => TypeOK' /\ Shape'
<1> SUFFICES ASSUME TypeOK, Shape, WriteRaw PROVE TypeOK' /\ Shape'
  OBVIOUS
<1>0. SockTypes /\ CallTypes /\ NetTypes /\ torn \subseteq Events
  BY TypeParts
<1>1. <<op.req>> \in Seq(Request)
  BY <1>0 DEF CallTypes, Ops
<1>2. Out \in Seq(Request)
  BY <1>0, <1>1 DEF Out, SockTypes
<1>3. wire \o Out \in Seq(Request)
  BY <1>0, <1>2, ConcatProperties DEF NetTypes
<1>4. NetTypes'
  BY <1>0, <1>3 DEF WriteRaw, NetTypes
<1>5. pc' \in {"exec", "element", "reply"} /\ (pc' = "element" => pos' = 1) /\ pos' \in Nat
  <2>1. pos \in Nat
    BY <1>0 DEF CallTypes
  <2>2. CASE op.m = "execPipe"
    BY <2>2 DEF WriteRaw
  <2>3. CASE op.m # "execPipe"
    BY <2>1, <2>3 DEF WriteRaw
  <2>4. QED
    BY <2>2, <2>3
<1>6. CallTypes' /\ Shape'
  BY <1>0, <1>5 DEF WriteRaw, CallTypes, Shape, PCs
<1>7. QED
  BY <1>0, <1>4, <1>6, SockKept, TypePartsNext DEF WriteRaw

-----------------------------------------------------------------------------
(* Reading *)

LEMMA BulkHeaderTypes ==
  TypeOK /\ Shape /\ ReadBulkHeader => TypeOK' /\ Shape'
<1> SUFFICES ASSUME TypeOK, Shape, ReadBulkHeader PROVE TypeOK' /\ Shape'
  OBVIOUS
<1>0. CallTypes /\ NetTypes /\ torn \subseteq Events
  BY TypeParts
<1>1. Head(replies) \in Reply /\ Rest \in Seq(Reply)
  BY RestType DEF ReadBulkHeader, Arrived
<1>2. NetTypes'
  BY <1>0, <1>1 DEF ReadBulkHeader, NetTypes
<1>3. CallTypes' /\ Shape'
  BY <1>0, <1>1 DEF ReadBulkHeader, CallTypes, Shape
<1>4. QED
  BY <1>0, <1>2, <1>3, SockKept, TypePartsNext DEF ReadBulkHeader

\* A method takes its reply and returns.
LEMMA MethodReplyTypes ==
  TypeOK /\ Shape /\ (ReadAnswer \/ ReadQueued \/ ReadMulti \/ ReadDiscard \/ ReadReset)
    => TypeOK' /\ Shape'
<1> SUFFICES ASSUME TypeOK, Shape,
                    ReadAnswer \/ ReadQueued \/ ReadMulti \/ ReadDiscard \/ ReadReset
             PROVE  TypeOK' /\ Shape'
  OBVIOUS
<1>0. SockTypes /\ CallTypes /\ torn \subseteq Events /\ op.req \in Request
  BY TypeParts DEF CallTypes, Ops
<1>1. ReadsIt /\ Returns /\ UNCHANGED <<stream, pipelineCmd, torn>>
  BY DEF ReadAnswer, ReadQueued, ReadMulti, ReadDiscard, ReadReset
<1>2. NetTypes' /\ CallTypes' /\ Shape' /\ torn' \subseteq Events
  BY <1>0, <1>1, ReadsItTypes, ReturnsTypes, ReturnsShape
<1>3. SockTypes'
  <2>1. CASE ReadAnswer
    BY <1>0, <2>1, AnsweredTypes DEF ReadAnswer, SockTypes
  <2>2. CASE ReadQueued
    <3>1. Append(callbacks, op.req) \in Seq(Request)
      BY <1>0, AppendProperties DEF SockTypes
    <3>2. callbacks' \in Seq(Request)
      BY <1>0, <2>2, <3>1 DEF ReadQueued, SockTypes
    <3>3. QED
      BY <1>0, <2>2, <3>2 DEF ReadQueued, SockTypes
  <2>3. CASE ReadMulti
    BY <1>0, <2>3 DEF ReadMulti, SockTypes
  <2>4. CASE ReadDiscard
    <3>1. callbacks' \in Seq(Request)
      BY <1>0, <2>4, EmptyIsSeq DEF ReadDiscard, SockTypes
    <3>2. mode' \subseteq {"MULTI", "PIPELINE"}
      BY <1>0, <2>4 DEF ReadDiscard, SockTypes
    <3>3. QED
      BY <1>0, <2>4, <3>1, <3>2 DEF ReadDiscard, SockTypes
  <2>5. CASE ReadReset
    <3>1. callbacks' \in Seq(Request)
      BY <1>0, <2>5, EmptyIsSeq DEF ReadReset, SockTypes
    <3>2. /\ mode' \subseteq {"MULTI", "PIPELINE"} /\ dbNumber' \in Dbs \cup {0}
          /\ watching' \in BOOLEAN
          /\ status' \in {status, "CONNECTED"}
      BY <1>0, <2>5 DEF ReadReset, SockTypes
    <3>3. QED
      BY <1>0, <2>5, <3>1, <3>2 DEF ReadReset, SockTypes
  <2>6. QED
    BY <2>1, <2>2, <2>3, <2>4, <2>5
<1>4. QED
  BY <1>2, <1>3, TypePartsNext

\* exec() takes a reply without a callback, and the destructor its last one.
LEMMA LoopReplyTypes ==
  TypeOK /\ Shape /\ (ReadFarewell \/ ReadExec \/ ReadTxOpen \/ ReadTxQueued \/ ReadTxExec
                       \/ ReadTxElement)
    => TypeOK' /\ Shape'
<1> SUFFICES ASSUME TypeOK, Shape,
                    ReadFarewell \/ ReadExec \/ ReadTxOpen \/ ReadTxQueued \/ ReadTxExec
                      \/ ReadTxElement
             PROVE  TypeOK' /\ Shape'
  OBVIOUS
<1>0. CallTypes /\ torn \subseteq Events
  BY TypeParts
<1>1. ReadsIt /\ UNCHANGED <<sock, op>>
  BY DEF ReadFarewell, ReadExec, ReadTxOpen, ReadTxQueued, ReadTxExec, ReadTxElement
<1>2. NetTypes' /\ SockTypes' /\ TheReply \in Reply
  BY <1>1, ReadsItTypes, SockKept
<1>3. TheReply.n \in Nat
  BY <1>2 DEF Reply
<1>4. torn' \subseteq Events
  BY <1>0 DEF ReadFarewell, ReadExec, ReadTxOpen, ReadTxQueued, ReadTxExec, ReadTxElement, Events
<1>5. CallTypes' /\ Shape'
  <2>1. CASE ReadFarewell
    BY <1>0, <2>1 DEF ReadFarewell, CallTypes, Shape, PCs
  <2>2. CASE ReadExec
    BY <1>0, <2>2 DEF ReadExec, CallTypes, Shape, PCs
  <2>3. CASE ReadTxOpen
    BY <1>0, <2>3 DEF ReadTxOpen, CallTypes, Shape, PCs
  <2>4. CASE ReadTxQueued
    BY <1>0, <2>4 DEF ReadTxQueued, CallTypes, Shape, PCs
  <2>5. CASE ReadTxExec
    BY <1>0, <1>3, <2>5 DEF ReadTxExec, CallTypes, Shape, PCs
  <2>6. CASE ReadTxElement
    BY <1>0, <2>6 DEF ReadTxElement, NextTxElement, CallTypes, Shape, PCs
  <2>7. QED
    BY <2>1, <2>2, <2>3, <2>4, <2>5, <2>6
<1>6. QED
  BY <1>2, <1>4, <1>5, TypePartsNext

LEMMA ElementTypes ==
  TypeOK /\ Shape /\ ReadElement => TypeOK' /\ Shape'
<1> SUFFICES ASSUME TypeOK, Shape, ReadElement PROVE TypeOK' /\ Shape'
  OBVIOUS
<1>0. SockTypes /\ CallTypes /\ torn \subseteq Events
  BY TypeParts
<1>1. pos \in 1..Len(callbacks)
  BY <1>0 DEF ReadElement, AtCallback, Shape, SockTypes
<1>2. callbacks[pos] \in Request
  BY <1>0, <1>1 DEF SockTypes
<1>3. SockTypes'
  BY <1>0, <1>2, AnsweredTypes DEF ReadElement, SockTypes
<1>4. NetTypes'
  BY ReadsItTypes DEF ReadElement
<1>5. CallTypes' /\ Shape'
  BY <1>0 DEF ReadElement, CallTypes, Shape
<1>6. QED
  BY <1>0, <1>3, <1>4, <1>5, TypePartsNext DEF ReadElement

LEMMA ExecDoneTypes ==
  TypeOK /\ Shape /\ ExecDone => TypeOK' /\ Shape'
<1> SUFFICES ASSUME TypeOK, Shape, ExecDone PROVE TypeOK' /\ Shape'
  OBVIOUS
<1>0. SockTypes /\ torn \subseteq Events
  BY TypeParts
<1>1. callbacks' \in Seq(Request) /\ pipelineCmd' \in Seq(Request)
  BY <1>0, EmptyIsSeq DEF ExecDone, SockTypes
<1>2. mode' \subseteq {"MULTI", "PIPELINE"} /\ watching' \in BOOLEAN
  BY <1>0 DEF ExecDone, SockTypes
<1>3. SockTypes'
  BY <1>0, <1>1, <1>2 DEF ExecDone, SockTypes
<1>4. QED
  BY <1>0, <1>3, NetKept, ReturnsTypes, ReturnsShape, TypePartsNext DEF ExecDone

\* A read that fails, with the connection closed or not.
LEMMA FailedReadTypes ==
  TypeOK /\ Shape /\ (ReadSeesEof \/ ReadTimesOut \/ ReadStopsShort \/ ReadClosed)
    => TypeOK' /\ Shape'
<1> SUFFICES ASSUME TypeOK, Shape, ReadSeesEof \/ ReadTimesOut \/ ReadStopsShort \/ ReadClosed
             PROVE  TypeOK' /\ Shape'
  OBVIOUS
<1>0. torn \subseteq Events
  BY TypeParts
<1>1. CallTypes' /\ Shape'
  BY ReadFailedTypes DEF ReadSeesEof, ReadTimesOut, ReadStopsShort, ReadClosed
<1>2. CASE ReadSeesEof \/ ReadTimesOut
  BY <1>1, <1>2, DisconnectedTypes, TypePartsNext DEF ReadSeesEof, ReadTimesOut
<1>3. CASE ReadStopsShort \/ ReadClosed
  <2>1. torn' \subseteq Events /\ UNCHANGED <<sock, net>>
    BY <1>0, <1>3 DEF ReadStopsShort, ReadClosed, Events
  <2>2. QED
    BY <1>1, <2>1, SockKept, NetKept, TypePartsNext
<1>4. QED
  BY <1>2, <1>3

\* Steps that only move the method on.
LEMMA MoveTypes ==
  TypeOK /\ Shape /\ (NothingToDo \/ CheckEofLive \/ EndOfLoop \/ PastTheEnd \/ Destruct \/ Connect)
    => TypeOK' /\ Shape'
<1> SUFFICES ASSUME TypeOK, Shape,
                    NothingToDo \/ CheckEofLive \/ EndOfLoop \/ PastTheEnd \/ Destruct \/ Connect
             PROVE  TypeOK' /\ Shape'
  OBVIOUS
<1>0. CallTypes /\ torn \subseteq Events
  BY TypeParts
<1>1. UNCHANGED <<sock, net, torn>>
  BY DEF NothingToDo, CheckEofLive, EndOfLoop, PastTheEnd, Destruct, Connect
<1>2. CallTypes' /\ Shape'
  <2>1. CASE NothingToDo
    BY <2>1, ReturnsTypes, ReturnsShape DEF NothingToDo
  <2>2. CASE CheckEofLive \/ EndOfLoop \/ PastTheEnd
    BY <2>2, GoesTypes, GoesShape DEF CheckEofLive, EndOfLoop, PastTheEnd, PCs
  <2>3. CASE Destruct \/ Connect
    <3>1. op' \in Ops /\ pc' \in {"check", "freed"} /\ UNCHANGED <<pos, left, got>>
      BY <2>3, RequestType DEF Destruct, Connect, Ops, AllMethods
    <3>2. QED
      BY <1>0, <3>1 DEF CallTypes, Shape, PCs
  <2>4. QED
    BY <2>1, <2>2, <2>3
<1>3. QED
  BY <1>0, <1>1, <1>2, SockKept, NetKept, TypePartsNext

\* What arrives of a sequence of replies, or of elements, is one.
LEMMA ArrivesType ==
  ASSUME NEW S, \A r \in S : [r EXCEPT !.kind = "header"] \in S,
         NEW seq \in Seq(S), NEW part \in Arrives(seq)
  PROVE  part \in Seq(S)
<1>1. \A n \in 0..Len(seq) : SubSeq(seq, 1, n) \in Seq(S)
  <2>1. \A i \in 1..Len(seq) : seq[i] \in S
    OBVIOUS
  <2>2. QED
    BY <2>1, SubSeqProperties
<1>2. ASSUME NEW n \in 1..Len(seq)
      PROVE  Append(SubSeq(seq, 1, n - 1), [seq[n] EXCEPT !.kind = "header"]) \in Seq(S)
  <2>1. n - 1 \in 0..Len(seq) /\ seq[n] \in S
    OBVIOUS
  <2>2. QED
    BY <1>1, <2>1, AppendProperties
<1>3. QED
  BY <1>1, <1>2 DEF Arrives

LEMMA EnvironmentTypes ==
  TypeOK /\ Shape /\ Environment => TypeOK' /\ Shape'
<1> SUFFICES ASSUME TypeOK, Shape, Environment PROVE TypeOK' /\ Shape'
  OBVIOUS
<1>0. NetTypes /\ CallTypes /\ torn \subseteq Events /\ Len(replies) \in Nat
  BY TypeParts DEF NetTypes
<1>1. UNCHANGED <<sock, call, torn>>
  BY DEF Environment, ServerTouches, ServerCloses
<1>2. server' \in Servers
  BY <1>0 DEF Environment, ServerTouches, ServerCloses, NetTypes, Servers
<1>3. wire' \in Seq(Request)
  BY <1>0, EmptyIsSeq DEF Environment, ServerTouches, ServerCloses, NetTypes
<1>4. replies' \in Seq(Reply)
  <2>1. replies \in Seq(Reply) /\ \A r \in Reply : [r EXCEPT !.kind = "header"] \in Reply
    BY <1>0 DEF NetTypes, Reply, Kinds
  <2>2. CASE ServerTouches
    BY <2>1, <2>2 DEF ServerTouches
  <2>3. CASE ServerCloses /\ replies' \in Arrives(replies)
    BY <2>1, <2>3, ArrivesType
  <2>4. ASSUME NEW n \in 1..Len(replies), NEW elems \in Arrives(replies[n].elems),
               replies' = Append(SubSeq(replies, 1, n - 1), [replies[n] EXCEPT !.elems = elems])
        PROVE  replies' \in Seq(Reply)
    <3>1. replies[n] \in Reply /\ replies[n].elems \in Seq(Element)
      <4>1. replies[n] \in Reply
        BY <2>1
      <4>2. QED
        BY <4>1 DEF Reply
    <3>2. \A e \in Element : [e EXCEPT !.kind = "header"] \in Element
      BY DEF Element, Kinds
    <3>3. elems \in Seq(Element)
      BY <3>1, <3>2, ArrivesType
    <3>4. [replies[n] EXCEPT !.elems = elems] \in Reply
      BY <3>1, <3>3 DEF Reply
    <3>5. SubSeq(replies, 1, n - 1) \in Seq(Reply)
      <4>1. \A i \in 1..n-1 : replies[i] \in Reply
        BY <2>1
      <4>2. QED
        BY <2>1, <4>1, SubSeqProperties
    <3>6. QED
      BY <2>4, <3>4, <3>5, AppendProperties
  <2>5. QED
    BY <2>2, <2>3, <2>4 DEF Environment, ServerCloses
<1>5. CallTypes' /\ Shape'
  BY <1>0, <1>1 DEF call, CallTypes, Shape
<1>6. QED
  BY <1>0, <1>1, <1>2, <1>3, <1>4, <1>5, SockKept, TypePartsNext DEF NetTypes

-----------------------------------------------------------------------------
LEMMA InitTypes ==
  Init => TypeOK /\ Shape
<1> SUFFICES ASSUME Init PROVE TypeOK /\ Shape
  OBVIOUS
<1>1. SockTypes
  BY EmptyIsSeq DEF Init, SockTypes
<1>2. CallTypes
  BY RequestType DEF Init, CallTypes, PCs
<1>3. NetTypes
  BY EmptyIsSeq, FreshType DEF Init, NetTypes
<1>4. QED
  BY <1>1, <1>2, <1>3, TypeParts DEF Init, Shape

LEMMA NextTypes ==
  TypeOK /\ Shape /\ [Next]_vars => TypeOK' /\ Shape'
<1> SUFFICES ASSUME TypeOK, Shape, [Next]_vars PROVE TypeOK' /\ Shape'
  OBVIOUS
<1>1. CASE Application
  BY <1>1, CallTypesNext, ReconnectTypes, MoveTypes DEF Application
<1>2. CASE Client
  BY <1>2, ServerOpenTypes, NewObjectTypes, QueueTypes, MoveTypes, CloseTypes, StartWriteTypes,
     WriteFailsTypes, ReconnectsTypes, WriteRawTypes, BulkHeaderTypes, MethodReplyTypes,
     LoopReplyTypes, ElementTypes, ExecDoneTypes, FailedReadTypes
  DEF Client, CheckEofFails, WriteRawFails
<1>3. CASE Server
  BY <1>3, ServerTypes
<1>4. CASE Environment
  BY <1>4, EnvironmentTypes
<1>5. CASE UNCHANGED vars
  <2>1. UNCHANGED <<sock, call, net, torn>>
    BY <1>5 DEF vars
  <2>2. CallTypes' /\ Shape' /\ torn' \subseteq Events
    BY <2>1, TypeParts DEF call, CallTypes, Shape
  <2>3. QED
    BY <2>1, <2>2, SockKept, NetKept, TypePartsNext
<1>6. QED
  BY <1>1, <1>2, <1>3, <1>4, <1>5 DEF Next

\* Every variable of the connection has its type in every reachable state, for
\* any number of commands, databases and queued commands (RedisSock, the
\* methods of redis.c).
THEOREM TypeCorrect ==
  Spec => []TypeOK
<1>1. Spec => [](TypeOK /\ Shape)
  BY InitTypes, NextTypes, PTL DEF Spec
<1>2. QED
  BY <1>1, PTL

-----------------------------------------------------------------------------
(* The mirror of the pipeline.  A pipeline is left by every disconnection     *)
(* but the reconnection of redis_check_eof, so its two records can only be    *)
(* changed together, or by an event of torn.                                  *)

\* The pipeline is being sent; nothing is added to it before it is left.
Sending == pc \in {"write", "element", "txqueued", "txelement", "execdone", "freed"}

Intact == "leftover" \notin torn /\ (Sending => "pipelineLost" \notin torn)

\* A pipeline is opened on nothing that an earlier block left, and only exec()
\* writes in one.
PipelineCalls ==
  /\ pc \in {"open", "ready"} /\ Atomic /\ "leftover" \notin torn
       => status = "FAILED" \/ (callbacks = <<>> /\ pipelineCmd = <<>>)
  /\ pc \in {"open", "ready"} => /\ op.m = "pipeline" => ~InMulti
                                 /\ op.m = "reset" => ~InPipeline
  /\ pc = "ready" => status = "READY"
  /\ pc \in {"check", "write"} /\ InPipeline => op.m = "execPipe"
  /\ pc \in {"open", "reply", "exec"} \/ op.m = "execMulti" => ~InPipeline

PipelineInv ==
  /\ InPipeline => status = "READY"
  /\ InPipeline /\ Intact => callbacks = pipelineCmd
  /\ PipelineCalls

LEMMA PipelineKept ==
  ASSUME PipelineInv, UNCHANGED <<status, mode, callbacks, pipelineCmd, pc, op, torn>>
  PROVE  PipelineInv'
BY DEF PipelineInv, PipelineCalls, Intact, Sending, InPipeline, InMulti, Atomic

\* Outside of the steps up to the write and the last read, the calls are no matter.
LEMMA CallsOver ==
  ASSUME pc' \notin {"open", "ready", "check", "write", "reply", "exec"},
         op'.m = "execMulti" => ~InPipeline'
  PROVE  PipelineCalls'
BY DEF PipelineCalls

LEMMA ReturnsOver ==
  Returns => PipelineCalls'
BY DEF Returns, NoOp, PipelineCalls

\* When the connection is closed no pipeline is open.
LEMMA NoPipeline ==
  ASSUME ~InPipeline', PipelineCalls'
  PROVE  PipelineInv'
BY DEF PipelineInv

\* The steps of exec() keep the records, its method and the mode.
LEMMA ExecKept ==
  ASSUME PipelineInv, Sending \/ pc = "exec", UNCHANGED <<status, mode, callbacks, pipelineCmd, op>>,
         "leftover" \in torn => "leftover" \in torn',
         "pipelineLost" \in torn => "pipelineLost" \in torn',
         pc' \in {"element", "txqueued", "txelement", "execdone", "freed"}
  PROVE  PipelineInv'
BY DEF PipelineInv, PipelineCalls, Intact, Sending, InPipeline

LEMMA CallPipeline ==
  ASSUME PipelineInv, NEW m \in Methods, Call(m)
  PROVE  PipelineInv'
<1>1. PICK r \in Requested(m) : op' = [m |-> m, req |-> r]
  BY DEF Call
<1>2. op'.m = m /\ UNCHANGED <<status, mode, callbacks, pipelineCmd>>
  BY <1>1 DEF Call, sock
<1>3. m \in AllMethods /\ (m = "pipeline" => ~InMulti) /\ (m = "reset" => ~InPipeline)
  BY MethodsAssumption DEF Call, Callable
<1>4. torn \subseteq torn'
  BY DEF Call
<1>5. Intact' => Intact
  BY <1>4 DEF Intact, Sending, Call, Callable
<1>6. Atomic /\ "leftover" \notin torn'
        => status = "FAILED" \/ (callbacks = <<>> /\ pipelineCmd = <<>>)
  BY DEF Call, Leftover
<1>7. pc' = IF status = "READY" THEN "ready" ELSE "open"
  BY DEF Call
<1>8. QED
  BY <1>2, <1>3, <1>5, <1>6, <1>7
  DEF PipelineInv, PipelineCalls, InPipeline, InMulti, Atomic, AllMethods

LEMMA ServerOpenPipeline ==
  TypeOK /\ PipelineInv /\ ServerOpen => PipelineInv'
<1> SUFFICES ASSUME TypeOK, PipelineInv, ServerOpen PROVE PipelineInv'
  OBVIOUS
<1>1. ~InPipeline'
  BY DEF ServerOpen, PipelineInv, PipelineCalls, InPipeline
<1>2. PICK end \in {"FAILED", "DISCONNECTED", "CONNECTED", "AUTHENTICATED", "READY"} :
       LET kept == IF status = "FAILED" THEN <<>> ELSE callbacks IN
       /\ status' = end
       /\ stream' = (end \notin {"FAILED", "DISCONNECTED"})
       /\ callbacks' = kept \/ (Persistent /\ ~stream' /\ callbacks' = <<>>)
       /\ pipelineCmd' = IF status = "FAILED" THEN <<>> ELSE pipelineCmd
       /\ IF stream' THEN Handshake(end)
          ELSE server' = Gone /\ wire' = <<>> /\ replies' = <<>> /\ torn' = torn \cap {"leftover"}
       /\ IF end = "READY" THEN Goes("ready") ELSE Returns
  BY DEF ServerOpen
<1>3. CASE end = "READY"
  <2>1. pc = "open" /\ pc' = "ready" /\ UNCHANGED <<op, mode>> /\ status' = "READY"
    BY <1>2, <1>3 DEF Goes, ServerOpen
  <2>2. "leftover" \in torn => "leftover" \in torn'
    BY <1>2, <1>3 DEF Handshake
  <2>3. Atomic' /\ "leftover" \notin torn' => callbacks' = <<>> /\ pipelineCmd' = <<>>
    <3>1. Atomic' /\ "leftover" \notin torn'
            => status = "FAILED" \/ (callbacks = <<>> /\ pipelineCmd = <<>>)
      BY <2>1, <2>2 DEF PipelineInv, PipelineCalls, Atomic
    <3>2. QED
      BY <1>2, <3>1
  <2>4. PipelineCalls'
    BY <1>1, <2>1, <2>3 DEF PipelineInv, PipelineCalls, InMulti
  <2>5. QED
    BY <1>1, <2>4, NoPipeline
<1>4. CASE end # "READY"
  BY <1>1, <1>2, <1>4, ReturnsOver, NoPipeline
<1>5. QED
  BY <1>3, <1>4


\* Steps before the write: the mode, the queue of the pipeline, the check for EOF.
LEMMA MethodPipeline ==
  TypeOK /\ PipelineInv
    /\ (Enqueue \/ EnterPipeline \/ EnqueueMarker \/ NothingToDo \/ EmptyPipeline \/ StartWrite)
    => PipelineInv'
<1> SUFFICES ASSUME TypeOK, PipelineInv,
                    Enqueue \/ EnterPipeline \/ EnqueueMarker \/ NothingToDo \/ EmptyPipeline
                      \/ StartWrite
             PROVE  PipelineInv'
  OBVIOUS
<1>1. status' = status /\ torn' = torn /\ pc = "ready" /\ status = "READY"
  BY DEF Enqueue, EnterPipeline, EnqueueMarker, NothingToDo, EmptyPipeline, StartWrite, sock,
         PipelineInv, PipelineCalls
<1>0. Intact' => Intact
  BY <1>1 DEF Intact, Sending
<1>2. CASE Enqueue
  BY <1>0, <1>1, <1>2, ReturnsOver DEF Enqueue, PipelineInv, InPipeline
<1>3. CASE EnterPipeline
  <2>1. ~InMulti
    BY <1>3 DEF EnterPipeline, PipelineInv, PipelineCalls
  <2>2. Atomic \/ InPipeline
    BY <2>1, TypeParts DEF SockTypes, Atomic, InMulti, InPipeline
  <2>3. Intact => callbacks = pipelineCmd
    BY <1>1, <2>2 DEF PipelineInv, PipelineCalls, Intact
  <2>4. QED
    BY <1>0, <1>1, <1>3, <2>3, ReturnsOver DEF EnterPipeline, PipelineInv
<1>4. CASE EnqueueMarker
  BY <1>0, <1>1, <1>4, ReturnsOver DEF EnqueueMarker, PipelineInv, InPipeline
<1>5. CASE NothingToDo
  BY <1>0, <1>1, <1>5, ReturnsOver DEF NothingToDo, PipelineInv, InPipeline, sock
<1>6. CASE EmptyPipeline
  BY <1>0, <1>1, <1>6, ReturnsOver DEF EmptyPipeline, PipelineInv, InPipeline
<1>7. CASE StartWrite
  <2>1. UNCHANGED <<mode, callbacks, pipelineCmd>> /\ pc' = "check"
    BY <1>7 DEF StartWrite, sock
  <2>2. InPipeline => op'.m = "execPipe"
    BY <1>1, <1>7, TypeParts
    DEF StartWrite, PipelineInv, PipelineCalls, InPipeline, Atomic, Queueing, CallTypes, Ops
  <2>3. op'.m = "execMulti" => ~InPipeline
    BY <1>7, TypeParts
    DEF StartWrite, PipelineInv, PipelineCalls, InPipeline, Atomic, Queueing, CallTypes, Ops
  <2>4. QED
    BY <1>0, <1>1, <2>1, <2>2, <2>3 DEF PipelineInv, PipelineCalls, InPipeline
<1>8. QED
  BY <1>2, <1>3, <1>4, <1>5, <1>6, <1>7

LEMMA WritePipeline ==
  TypeOK /\ PipelineInv /\ (CheckEofLive \/ CheckEofReconnects \/ WriteRaw) => PipelineInv'
<1> SUFFICES ASSUME TypeOK, PipelineInv, CheckEofLive \/ CheckEofReconnects \/ WriteRaw
             PROVE  PipelineInv'
  OBVIOUS
<1>1. CASE CheckEofLive
  BY <1>1 DEF CheckEofLive, Goes, sock, PipelineInv, PipelineCalls, Intact, Sending, InPipeline
<1>2. CASE CheckEofReconnects
  <2>1. pc = "check" /\ pc' = "write" /\ UNCHANGED <<op, mode, pipelineCmd>> /\ status' = "READY"
    BY <1>2 DEF CheckEofReconnects, Goes
  <2>2. Intact' => Intact /\ (Persistent => callbacks = <<>>)
    BY <1>2, <2>1 DEF CheckEofReconnects, Intact, Sending
  <2>3. Intact' => callbacks' = callbacks
    BY <1>2, <2>2 DEF CheckEofReconnects
  <2>4. QED
    BY <2>1, <2>2, <2>3 DEF PipelineInv, PipelineCalls, InPipeline
<1>3. CASE WriteRaw
  <2>1. UNCHANGED <<status, mode, callbacks, pipelineCmd, op, torn>> /\ pc = "write"
    BY <1>3 DEF WriteRaw, sock
  <2>2. pc' = "element" \/ (pc' \in {"exec", "reply"} /\ op.m # "execPipe")
    BY <1>3 DEF WriteRaw
  <2>3. QED
    BY <2>1, <2>2 DEF PipelineInv, PipelineCalls, Intact, Sending, InPipeline
<1>4. QED
  BY <1>1, <1>2, <1>3


\* The steps that take the reply of a method, and those that end a connection.
LEMMA ReplyPipeline ==
  PipelineInv /\ (ReadAnswer \/ ReadQueued \/ ReadMulti \/ ReadDiscard \/ ReadReset)
    => PipelineInv'
<1> SUFFICES ASSUME PipelineInv,
                    ReadAnswer \/ ReadQueued \/ ReadMulti \/ ReadDiscard \/ ReadReset
             PROVE  PipelineInv'
  OBVIOUS
<1>1. pc = "reply" /\ Returns
  BY DEF ReadAnswer, ReadQueued, ReadMulti, ReadDiscard, ReadReset
<1>2. ~InPipeline
  BY <1>1 DEF PipelineInv, PipelineCalls
<1>3. ~InPipeline'
  BY <1>2 DEF ReadAnswer, ReadQueued, ReadMulti, ReadDiscard, ReadReset, InPipeline
<1>4. QED
  BY <1>1, <1>3, ReturnsOver, NoPipeline

LEMMA ReadFailedCalls ==
  ASSUME TypeOK, Reading, ReadFailed
  PROVE  /\ pc' \in {"idle", "freed", "element", "txelement", "execdone"}
         /\ op' \in {op, NoOp}
BY TypeParts
DEF ReadFailed, Reading, SockReads, SockGets, VariantReads, NextTxElement, CallTypes

LEMMA ClosedPipeline ==
  TypeOK /\ PipelineInv /\ (Close \/ CheckEofFails \/ WriteRawFails \/ ReadSeesEof \/ ReadTimesOut
                            \/ Reconnect \/ NewObject)
    => PipelineInv'
<1> SUFFICES ASSUME TypeOK, PipelineInv,
                    Close \/ CheckEofFails \/ WriteRawFails \/ ReadSeesEof \/ ReadTimesOut
                      \/ Reconnect \/ NewObject
             PROVE  PipelineInv'
  OBVIOUS
<1>1. ~InPipeline'
  BY DEF Close, CheckEofFails, WriteRawFails, ReadSeesEof, ReadTimesOut, Reconnect, NewObject,
         Disconnected, InPipeline
<1>2. CASE Close \/ NewObject
  BY <1>1, <1>2, ReturnsOver, NoPipeline DEF Close, NewObject
<1>3. CASE CheckEofFails \/ WriteRawFails
  <2>1. Returns \/ pc' \in {"execdone", "freed"}
    BY <1>3 DEF CheckEofFails, WriteRawFails, WriteFailed, Goes
  <2>2. QED
    BY <1>1, <2>1, ReturnsOver, CallsOver, NoPipeline
<1>4. CASE ReadSeesEof \/ ReadTimesOut
  BY <1>1, <1>4, ReadFailedCalls, CallsOver, NoPipeline DEF ReadSeesEof, ReadTimesOut
<1>5. CASE Reconnect
  BY <1>1, <1>5, CallsOver, NoPipeline DEF Reconnect, Callable, call
<1>6. QED
  BY <1>2, <1>3, <1>4, <1>5

LEMMA ExecPipeline ==
  TypeOK /\ PipelineInv /\ (ReadExec \/ ReadElement \/ EndOfLoop \/ ReadTxOpen \/ ReadTxQueued
                            \/ ReadTxExec \/ PastTheEnd \/ ReadTxElement)
    => PipelineInv'
<1> SUFFICES ASSUME TypeOK, PipelineInv,
                    ReadExec \/ ReadElement \/ EndOfLoop \/ ReadTxOpen \/ ReadTxQueued
                      \/ ReadTxExec \/ PastTheEnd \/ ReadTxElement
             PROVE  PipelineInv'
  OBVIOUS
<1>1. Sending \/ pc = "exec"
  BY DEF ReadExec, ReadElement, EndOfLoop, ReadTxOpen, ReadTxQueued, ReadTxExec, PastTheEnd,
         ReadTxElement, Sending
<1>2. UNCHANGED <<status, mode, callbacks, pipelineCmd, op>>
  BY DEF ReadExec, ReadElement, EndOfLoop, ReadTxOpen, ReadTxQueued, ReadTxExec, PastTheEnd,
         ReadTxElement, Goes, sock
<1>3. torn \subseteq torn'
  BY DEF ReadExec, ReadElement, EndOfLoop, ReadTxOpen, ReadTxQueued, ReadTxExec, PastTheEnd,
         ReadTxElement
<1>4. pc' \in {"element", "txqueued", "txelement", "execdone", "freed"}
  BY DEF ReadExec, ReadElement, EndOfLoop, ReadTxOpen, ReadTxQueued, ReadTxExec, PastTheEnd,
         ReadTxElement, NextTxElement, Goes
<1>5. QED
  BY <1>1, <1>2, <1>3, <1>4, ExecKept

LEMMA ExecDonePipeline ==
  PipelineInv /\ ExecDone => PipelineInv'
<1> SUFFICES ASSUME PipelineInv, ExecDone PROVE PipelineInv'
  OBVIOUS
<1>1. op.m = "execMulti" => ~InPipeline
  BY DEF PipelineInv, PipelineCalls
<1>2. ~InPipeline'
  BY <1>1 DEF ExecDone, InPipeline
<1>3. QED
  BY <1>2, ReturnsOver, NoPipeline DEF ExecDone

\* A read that fails and leaves the connection as it is.
LEMMA OpenPipeline ==
  TypeOK /\ PipelineInv /\ (ReadStopsShort \/ ReadClosed) => PipelineInv'
<1> SUFFICES ASSUME TypeOK, PipelineInv, ReadStopsShort \/ ReadClosed PROVE PipelineInv'
  OBVIOUS
<1>1. Reading /\ ReadFailed /\ UNCHANGED <<status, mode, callbacks, pipelineCmd>> /\ torn \subseteq torn'
  BY DEF ReadStopsShort, ReadClosed, Reading, sock
<1>2. pc' \in {"idle", "freed", "element", "txelement", "execdone"} /\ op' \in {op, NoOp}
  BY <1>1, ReadFailedCalls
<1>3. CASE pc = "reply"
  <2>1. ~InPipeline'
    BY <1>1, <1>3 DEF PipelineInv, PipelineCalls, InPipeline
  <2>2. QED
    BY <1>2, <2>1, CallsOver, NoPipeline
<1>4. CASE pc # "reply"
  <2>1. Sending \/ pc = "exec"
    BY <1>1, <1>4 DEF Reading, SockReads, SockGets, VariantReads, Sending
  <2>2. op' = op /\ pc' # "idle"
    BY <1>1, <1>4, TypeParts DEF ReadFailed, NextTxElement, CallTypes
  <2>3. QED
    BY <1>1, <1>2, <2>1, <2>2, ExecKept
<1>5. QED
  BY <1>3, <1>4

LEMMA OtherPipeline ==
  PipelineInv /\ (Destruct \/ Connect \/ ReadBulkHeader \/ ReadFarewell \/ Server \/ Environment)
    => PipelineInv'
<1> SUFFICES ASSUME PipelineInv,
                    Destruct \/ Connect \/ ReadBulkHeader \/ ReadFarewell \/ Server \/ Environment
             PROVE  PipelineInv'
  OBVIOUS
<1>1. CASE Destruct \/ Connect
  <2>1. UNCHANGED <<status, mode, callbacks, pipelineCmd, torn>> /\ pc = "idle"
    BY <1>1 DEF Destruct, Connect, Callable, sock
  <2>2. pc' = "freed" \/ (pc' = "check" /\ ~InPipeline)
    BY <1>1 DEF Destruct, Connect, InPipeline
  <2>3. op'.m \in {"destruct", "connect"}
    BY <1>1 DEF Destruct, Connect
  <2>4. Intact' => Intact
    BY <2>1 DEF Intact, Sending
  <2>5. QED
    BY <2>1, <2>2, <2>3, <2>4 DEF PipelineInv, PipelineCalls, InPipeline
<1>2. CASE ReadBulkHeader
  BY <1>2, PipelineKept DEF ReadBulkHeader, sock
<1>3. CASE ReadFarewell
  <2>1. ~InPipeline'
    BY <1>3 DEF ReadFarewell, PipelineInv, PipelineCalls, InPipeline, sock
  <2>2. QED
    BY <1>3, <2>1, CallsOver, NoPipeline DEF ReadFarewell
<1>4. CASE Server \/ Environment
  <2>1. UNCHANGED <<sock, call, torn>>
    BY <1>4 DEF Server, Environment, ServerQueues, ServerRefusesToQueue, ServerRuns,
       ServerRefuses, ServerSelects, ServerWatches, ServerUnwatches, ServerBegins,
       ServerDiscards, ServerResets, ServerExecFails, ServerExecs, ServerTouches, ServerCloses,
       Replied
  <2>2. QED
    BY <2>1, PipelineKept DEF sock, call
<1>5. QED
  BY <1>1, <1>2, <1>3, <1>4

LEMMA NextPipeline ==
  TypeOK /\ PipelineInv /\ [Next]_vars => PipelineInv'
<1> SUFFICES ASSUME TypeOK, PipelineInv, [Next]_vars PROVE PipelineInv'
  OBVIOUS
<1>1. CASE Application
  BY <1>1, CallPipeline, ClosedPipeline, OtherPipeline DEF Application
<1>2. CASE Client
  BY <1>2, ServerOpenPipeline, ClosedPipeline, MethodPipeline, WritePipeline, OtherPipeline,
     ReplyPipeline, ExecPipeline, ExecDonePipeline, OpenPipeline
  DEF Client
<1>3. CASE Server \/ Environment
  BY <1>3, OtherPipeline
<1>4. CASE UNCHANGED vars
  BY <1>4, PipelineKept DEF vars, sock, call
<1>5. QED
  BY <1>1, <1>2, <1>3, <1>4 DEF Next

\* Between calls, and until it is sent, a pipeline holds one callback for each
\* command it will send, unless commands of an earlier block were left in it or
\* redis_check_eof reconnected under it (pipeline_enqueue_cmd, redis_save_callback).
THEOREM PipelineIsMirrored ==
  Spec => []PipelineMirrored
<1>1. Init => PipelineInv
  BY DEF Init, PipelineInv, PipelineCalls, InPipeline, NoOp
<1>2. PipelineInv => PipelineMirrored
  BY DEF PipelineInv, PipelineMirrored, Intact
<1>3. Spec => []TypeOK
  BY TypeCorrect
<1>4. QED
  BY <1>1, <1>2, <1>3, NextPipeline, PTL DEF Spec

-----------------------------------------------------------------------------
(* The shape of the state, whatever has happened on the stream. *)

\* None of the events of torn but a SELECT that no callback saw.
Whole == torn \subseteq {"dbUnseen"}

Loop    == pc \in {"element", "txqueued", "txelement"}
Quiet   == pc \in {"idle", "open", "ready", "check", "write", "execdone"}
Replied1 == Queueing \cup {"multi", "discard", "reset", "destruct"}

\* An object without a stream has nothing on it, and knows it.
Streamed ==
  /\ stream <=> status \in {"CONNECTED", "AUTHENTICATED", "READY"}
  /\ ~stream => server = Gone /\ wire = <<>> /\ replies = <<>>
  /\ ~server.alive => wire = <<>>
  /\ mode # {} => status = "READY"
  /\ pc = "open" => status # "READY"
  /\ pc \in {"check", "write"} => stream
  /\ pc \notin {"idle", "open", "freed"} /\ stream => status = "READY"

\* Which call is at which step, and in which mode.
Stepped ==
  /\ op.m \in AllMethods => op.req \in Requested(op.m)
  /\ op.m = "execMulti" => op.req = Req("EXEC")
  /\ pc \in {"idle", "open", "ready", "check", "write", "exec"} => got = NoReply
  /\ pc \in {"open", "ready"} => op.m \in AllMethods
  /\ pc = "reply" => op.m \in Replied1
  /\ pc = "exec" => op.m = "execMulti"
  /\ Loop \/ pc = "execdone" => op.m \in {"execMulti", "execPipe"}
  /\ pc \in {"check", "write"} => op.m \in Replied1 \cup {"execMulti", "execPipe"}
  /\ stream /\ pc \notin {"idle", "open", "ready", "freed"} =>
       /\ op.m = "execPipe" => mode = {"PIPELINE"}
       /\ op.m \in {"execMulti", "discard", "destruct"} => mode = {"MULTI"}
       /\ op.m = "multi" => Atomic
       /\ op.m \in Queueing \cup {"reset"} => ~InPipeline

\* What the server can have queued, and answered.
QueueFits ==
  /\ server.tx = "none" => server.queue = <<>>
  /\ \A i \in 1..Len(server.queue) : server.queue[i].cmd \in {"DATA", "SELECT", "UNWATCH"}

Plain(r) ==
  /\ r.kind \in {"bulk", "header", "payload"} => r.for.cmd = "DATA"
  /\ r.kind = "array" => r.for.cmd = "EXEC"
  /\ r.kind # "array" => r.n = 0 /\ r.elems = <<>>
  /\ r.kind = "queued" => r.for.cmd \in {"DATA", "SELECT", "UNWATCH"}
  /\ r.kind = "reset" => r.for.cmd = "RESET"
  /\ r.kind = "ok" => r.for.cmd \notin {"DATA", "EXEC", "RESET"}

Inner(e) == Plain(e) /\ e.kind # "queued" /\ e.for.cmd \in {"DATA", "SELECT", "UNWATCH"}

Fits(r) == Plain(r) /\ Len(r.elems) <= r.n /\ \A j \in 1..Len(r.elems) : Inner(r.elems[j])

\* All of a reply is there.
Entire(r) == r.kind # "header" /\ Len(r.elems) = r.n
               /\ \A j \in 1..Len(r.elems) : r.elems[j].kind # "header"

RepliesFit ==
  /\ \A i \in 1..Len(replies) : Fits(replies[i])
  /\ \A i \in 1..Len(replies) : i < Len(replies) \/ server.alive => Entire(replies[i])
  /\ \A i \in 1..Len(replies) : \A j \in 1..Len(replies[i].elems) :
       j < Len(replies[i].elems) => replies[i].elems[j].kind # "header"

Framed == Streamed /\ Stepped /\ QueueFits /\ RepliesFit

-----------------------------------------------------------------------------
(* The blocks of a pipeline. *)

InBlock(q, k) == \E i \in 1..k-1 : q[i].cmd = "MULTI" /\ \A j \in i+1..k-1 : q[j].cmd # "EXEC"

Balanced(q) ==
  \A k \in 1..Len(q) : /\ q[k].cmd = "MULTI" => ~InBlock(q, k)
                       /\ q[k].cmd = "EXEC" => InBlock(q, k)
                       /\ q[k].cmd \notin {"DISCARD", "RESET"}

Blocks == InPipeline /\ Intact => /\ Balanced(callbacks)
                                  /\ (InBlock(callbacks, Len(callbacks) + 1) <=> InMulti)

-----------------------------------------------------------------------------
(* The two records. *)

Tx == IF mode = {"MULTI"} THEN server.tx # "none" /\ callbacks = server.queue
                          ELSE server.tx = "none"

\* Nothing is on the stream between two exchanges.
QuietAgree ==
  /\ wire = <<>> /\ replies = <<>>
  /\ IF pc = "execdone" THEN server.tx = "none" /\ (op.m = "execMulti" => ~server.watch) ELSE Tx
  /\ server.watch => watching
  /\ torn = {} => server.db = IF status = "READY" THEN dbNumber ELSE 0

\* A method waits for its reply, and the reply says what the server did.
Asked == /\ wire = <<op.req>> /\ replies = <<>> /\ got = NoReply
         /\ Tx /\ (server.watch => watching) /\ (torn = {} => server.db = dbNumber)

Lost == wire = <<>> /\ replies = <<>> /\ ~server.alive

Selects(r) == r.for.cmd = "SELECT" /\ r.kind = "ok"

\* The database of the server is the one the client will have recorded when it
\* has read the replies of seq from place k.
Recorded(seq, k) ==
  \/ \E i \in k..Len(seq) : /\ Selects(seq[i]) /\ server.db = seq[i].for.arg
                            /\ \A j \in i+1..Len(seq) : ~Selects(seq[j])
  \/ server.db = dbNumber /\ \A j \in k..Len(seq) : ~Selects(seq[j])

ToldTx(r) ==
  /\ op.m \in Queueing /\ Atomic => server.tx = "none" /\ r.kind # "queued"
  /\ op.m \in Queueing /\ ~Atomic =>
       /\ server.tx # "none" /\ r.kind # "ok"
       /\ server.queue = IF r.kind = "queued" THEN Append(callbacks, op.req) ELSE callbacks
  /\ op.m = "multi" => r.kind = "ok" /\ server.tx # "none" /\ server.queue = <<>>
  /\ op.m = "discard" => r.kind = "ok" /\ server.tx = "none"
  /\ op.m = "reset" => IF r.kind = "reset" THEN server.tx = "none" ELSE Tx
  /\ op.m = "execMulti" => server.tx = "none"

ToldWatch(r) ==
  CASE op.m \in {"watch", "unwatch"} /\ r.kind = "ok" -> server.watch => op.m = "watch"
    [] r.kind = "reset" \/ op.m = "execMulti" -> ~server.watch
    [] OTHER -> server.watch => watching

ToldDb(r) ==
  CASE op.m = "select" /\ r.kind = "ok" -> server.db = op.req.arg
    [] r.kind = "reset" -> server.db = 0
    [] r.kind = "array" -> Recorded(r.elems, 1)
    [] OTHER -> server.db = dbNumber

Told(r) == ToldTx(r) /\ ToldWatch(r) /\ (torn = {} => ToldDb(r))

Answer ==
  /\ wire = <<>> /\ Len(replies) = 1 /\ replies[1].for = op.req
  /\ got # NoReply => got.kind = "bulk" /\ replies[1].kind = "payload"
  /\ replies[1].kind = "array" => /\ replies[1].n = Len(callbacks)
                                  /\ \A j \in 1..Len(replies[1].elems) :
                                       replies[1].elems[j].for = callbacks[j]
  /\ server.alive => Entire(replies[1])
  /\ Entire(replies[1]) => Told(TheReply)

Unmarked == \A j \in 1..Len(callbacks) : callbacks[j].cmd \in {"DATA", "SELECT", "UNWATCH"}

OneAgree == (Asked \/ Lost \/ Answer) /\ (pc = "exec" => Unmarked)

\* exec() reads the replies in the order of the callbacks.  The elements of a
\* transaction in a pipeline come first, then the replies to the callbacks from Nxt.
Off == IF pc = "txelement" THEN left ELSE 0
Nxt == IF pc = "txelement" THEN pos + 1 ELSE pos
Due == Len(callbacks) + 1 - Nxt

\* Nothing of what the server owes, or has sent, is lost.
Complete == /\ Len(replies) - Off + Len(wire) = Due /\ Off <= Len(replies)
            /\ got.kind # "header" /\ \A i \in 1..Len(replies) : Entire(replies[i])

Half == got # NoReply => /\ got.kind \in {"bulk", "header"}
                         /\ got.kind = "header" => replies = <<>>
                         /\ IF replies = <<>> THEN ~server.alive ELSE replies[1].kind = "payload"
                         /\ pc # "txelement" => pos <= Len(callbacks) /\ ~Marker(callbacks[pos])

\* Reply r is the one to the callback at place k.
Answers(r, k) ==
  /\ k <= Len(callbacks) /\ r.for = callbacks[k]
  /\ r.kind = "queued" => InBlock(callbacks, k)
  /\ r.kind = "ok" => ~InBlock(callbacks, k)

InOrder ==
  /\ \A i \in 1..Len(replies) : i > Off => Answers(replies[i], Nxt + i - Off - 1)
  /\ \A i \in 1..Len(replies) : i <= Off => Inner(replies[i])
  /\ Len(wire) <= Len(callbacks)
  /\ \A i \in 1..Len(wire) : wire[i] = callbacks[Len(callbacks) - Len(wire) + i]
  /\ server.alive => Complete

Phased ==
  /\ pos \in 1..Len(callbacks)+1
  /\ pc = "element" => ~InBlock(callbacks, pos)
  /\ pc \in {"txqueued", "txelement"} => InBlock(callbacks, pos)
  /\ pc = "txelement" => pos <= Len(callbacks) /\ callbacks[pos].cmd = "EXEC"
  /\ op.m = "execMulti" => pc = "element" /\ wire = <<>> /\ Unmarked

Watched(r)   == r.for.cmd = "WATCH" /\ r.kind = "ok"
Unwatched(r) == (r.for.cmd = "UNWATCH" /\ r.kind = "ok") \/ r.for.cmd = "EXEC"

\* The client will know of the watched keys when it has read the replies.
WatchKnown ==
  \/ \E i \in 1..Len(replies) : /\ Watched(replies[i])
                                /\ \A j \in i+1..Len(replies) : ~Unwatched(replies[j])
  \/ watching /\ \A j \in 1..Len(replies) : ~Unwatched(replies[j])

\* A SELECT that no callback will see.
HiddenIn(r) == \E j \in 1..Len(r.elems) : r.elems[j].for.cmd = "SELECT"
Hidden == \E i \in 1..Len(replies) : HiddenIn(replies[i]) \/ (i <= Off /\ replies[i].for.cmd = "SELECT")

LoopTx    == server.tx # "none" <=> InBlock(callbacks, Len(callbacks) + 1 - Len(wire))
LoopWatch == server.watch => WatchKnown /\ op.m # "execMulti"
LoopDb    == torn = {} => Hidden \/ Recorded(replies, Off + 1)

LoopAgree == Half /\ InOrder /\ Phased /\ (Complete => LoopTx /\ LoopWatch /\ LoopDb)

Agree ==
  Whole /\ stream =>
    /\ Quiet => QuietAgree
    /\ pc \in {"reply", "exec"} => OneAgree
    /\ Loop => LoopAgree

\* A call outside of a block has no callbacks, whatever became of the stream.
Emptied ==
  pc \in {"ready", "check", "write", "reply"} /\ Atomic /\ "leftover" \notin torn => callbacks = <<>>

Inv == TypeOK /\ Shape /\ PipelineInv /\ Framed /\ Blocks /\ Emptied /\ Agree

-----------------------------------------------------------------------------
(* What a read takes, and what is lost. *)

LEMMA PrefixParts ==
  ASSUME NEW S, NEW s \in Seq(S), NEW n \in 0..Len(s)
  PROVE  /\ SubSeq(s, 1, n) \in Seq(S) /\ Len(SubSeq(s, 1, n)) = n
         /\ \A i \in 1..n : SubSeq(s, 1, n)[i] = s[i]
<1>1. \A i \in 1..n : s[i] \in S
  OBVIOUS
<1>2. 1 \in Int /\ n \in Int
  OBVIOUS
<1>3. /\ SubSeq(s, 1, n) \in Seq(S)
      /\ Len(SubSeq(s, 1, n)) = IF 1 <= n THEN n - 1 + 1 ELSE 0
      /\ \A i \in 1..n-1+1 : SubSeq(s, 1, n)[i] = s[1 + i - 1]
  BY <1>1, <1>2, SubSeqProperties
<1>. QED BY <1>3

\* A line of a reply has been read: the payload of a bulk string stays, or the
\* elements of an array.
LEMMA RestParts ==
  ASSUME TypeOK, replies # <<>>, NEW h, h = Head(replies)
  PROVE  /\ h = replies[1] /\ h \in Reply
         /\ h.kind = "bulk" =>
              /\ Len(Rest) = Len(replies)
              /\ Rest[1] = [h EXCEPT !.kind = "payload"]
              /\ \A i \in 2..Len(replies) : Rest[i] = replies[i]
         /\ h.kind # "bulk" =>
              /\ Len(Rest) = Len(h.elems) + Len(replies) - 1
              /\ \A i \in 1..Len(h.elems) : Rest[i] = h.elems[i]
              /\ \A i \in Len(h.elems)+1..Len(Rest) : Rest[i] = replies[i - Len(h.elems) + 1]
<1> DEFINE t == Tail(replies)
           x == [h EXCEPT !.kind = "payload"]
           p == <<x>>
<1>1. replies \in Seq(Reply) /\ replies # <<>>
  BY TypeParts DEF NetTypes
<1>2. h = replies[1] /\ h \in Reply /\ t \in Seq(Reply)
  BY <1>1, HeadTailProperties
<1>3. Len(t) = Len(replies) - 1 /\ \A i \in 1..Len(t) : t[i] = replies[i + 1]
  BY <1>1, HeadTailProperties
<1>4. Len(replies) \in Nat \ {0}
  BY <1>1
<1>5. p \in Seq(Reply) /\ Len(p) = 1 /\ p[1] = x
  <2>1. x \in Reply
    BY <1>2 DEF Reply, Kinds
  <2> HIDE DEF x
  <2>. QED BY <2>1
<1>6. h.elems \in Seq(Reply)
  BY <1>2, ElementsAreReplies DEF Reply
<1> HIDE DEF t, x, p
<1>7. /\ Len(p \o t) = Len(replies)
      /\ (p \o t)[1] = x
      /\ \A i \in 2..Len(replies) : (p \o t)[i] = replies[i]
  <2>0. /\ Len(p \o t) = Len(p) + Len(t)
        /\ \A i \in 1..Len(p) + Len(t) : (p \o t)[i] = IF i <= Len(p) THEN p[i] ELSE t[i - Len(p)]
    BY <1>2, <1>5, ConcatProperties
  <2>1. Len(p \o t) = 1 + Len(t) /\ \A i \in 1..1 + Len(t) : (p \o t)[i] = IF i <= 1 THEN p[i] ELSE t[i - 1]
    BY <1>5, <2>0
  <2>2. \A i \in 2..Len(replies) : i - 1 \in 1..Len(t) /\ t[i - 1] = replies[i]
    BY <1>3, <1>4
  <2>3. Len(p \o t) = Len(replies)
    BY <1>3, <1>4, <2>1
  <2>4. (p \o t)[1] = x
    BY <1>3, <1>4, <1>5, <2>1
  <2>5. \A i \in 2..Len(replies) : (p \o t)[i] = replies[i]
    BY <1>3, <1>4, <2>1, <2>2
  <2>. QED BY <2>3, <2>4, <2>5
<1>8. /\ Len(h.elems \o t) = Len(h.elems) + Len(replies) - 1
      /\ \A i \in 1..Len(h.elems) : (h.elems \o t)[i] = h.elems[i]
      /\ \A i \in Len(h.elems)+1..Len(h.elems \o t) : (h.elems \o t)[i] = replies[i - Len(h.elems) + 1]
  <2> DEFINE e == h.elems
  <2>0. e \in Seq(Reply) /\ Len(e) \in Nat
    BY <1>6
  <2> HIDE DEF e
  <2>1. /\ Len(e \o t) = Len(e) + Len(t)
        /\ \A i \in 1..Len(e) + Len(t) : (e \o t)[i] = IF i <= Len(e) THEN e[i] ELSE t[i - Len(e)]
    BY <1>2, <2>0, ConcatProperties
  <2>2. \A i \in Len(e)+1..Len(e)+Len(t) : i - Len(e) \in 1..Len(t) /\ t[i - Len(e)] = replies[i - Len(e) + 1]
    BY <1>3, <1>4, <2>0
  <2>3. /\ Len(e \o t) = Len(e) + Len(replies) - 1
        /\ \A i \in 1..Len(e) : (e \o t)[i] = e[i]
        /\ \A i \in Len(e)+1..Len(e \o t) : (e \o t)[i] = replies[i - Len(e) + 1]
    BY <1>3, <1>4, <2>0, <2>1, <2>2
  <2>. QED BY <2>3 DEF e
<1>. QED BY <1>2, <1>7, <1>8 DEF Rest, t, x, p

\* What has arrived of a sequence: a prefix, whose last member may be cut.
LEMMA ArrivesParts ==
  ASSUME NEW S, NEW seq \in Seq(S), NEW t \in Arrives(seq)
  PROVE  /\ Len(t) \in 0..Len(seq)
         /\ \A i \in 1..Len(t) : i < Len(t) => t[i] = seq[i]
         /\ \A i \in 1..Len(t) : \/ t[i] = seq[i]
                                 \/ seq[i].kind = "bulk" /\ t[i] = [seq[i] EXCEPT !.kind = "header"]
<1>0. Len(seq) \in Nat
  OBVIOUS
<1>1. CASE \E n \in 0..Len(seq) : t = SubSeq(seq, 1, n)
  <2>1. PICK n \in 0..Len(seq) : t = SubSeq(seq, 1, n)
    BY <1>1
  <2>2. Len(t) = n /\ \A i \in 1..n : t[i] = seq[i]
    BY <2>1, PrefixParts
  <2>3. Len(t) \in 0..Len(seq)
    BY <1>0, <2>2
  <2>. QED BY <2>2, <2>3
<1>2. CASE \E n \in {i \in 1..Len(seq) : seq[i].kind = "bulk"} :
             t = Append(SubSeq(seq, 1, n - 1), [seq[n] EXCEPT !.kind = "header"])
  <2>1. PICK n \in 1..Len(seq) :
          seq[n].kind = "bulk" /\ t = Append(SubSeq(seq, 1, n - 1), [seq[n] EXCEPT !.kind = "header"])
    BY <1>2
  <2> DEFINE p == SubSeq(seq, 1, n - 1)
  <2>0. n - 1 \in 0..Len(seq)
    BY <1>0, <2>1
  <2>2. p \in Seq(S) /\ Len(p) = n - 1 /\ \A i \in 1..n-1 : p[i] = seq[i]
    BY <2>0, PrefixParts
  <2> HIDE DEF p
  <2> DEFINE z == [seq[n] EXCEPT !.kind = "header"]
  <2>3. Len(t) = n /\ (\A i \in 1..n-1 : t[i] = seq[i]) /\ t[n] = z
    BY <2>1, <2>2 DEF p
  <2>4. ASSUME NEW i \in 1..Len(t)
        PROVE  i = n \/ i \in 1..n-1
    BY <2>1, <2>3
  <2>5. Len(t) \in 0..Len(seq) /\ \A i \in 1..Len(t) : i < Len(t) => i \in 1..n-1
    BY <1>0, <2>1, <2>3
  <2>6. seq[n].kind = "bulk" /\ t[n] = z
    BY <2>1, <2>3
  <2>7. \A i \in 1..Len(t) : \/ t[i] = seq[i]
                             \/ seq[i].kind = "bulk" /\ t[i] = [seq[i] EXCEPT !.kind = "header"]
    BY <2>3, <2>4, <2>6, Zenon
  <2>. QED BY <2>3, <2>5, <2>7
<1>. QED BY <1>1, <1>2 DEF Arrives

\* r is what has arrived of s.
Cut(r, s) ==
  \/ r = s
  \/ s.kind = "bulk" /\ r = [s EXCEPT !.kind = "header"]
  \/ /\ r = [s EXCEPT !.elems = r.elems]
     /\ r.elems \in Seq(Element) /\ Len(r.elems) \in 0..Len(s.elems)
     /\ \A j \in 1..Len(r.elems) : j < Len(r.elems) => r.elems[j] = s.elems[j]
     /\ \A j \in 1..Len(r.elems) :
          \/ r.elems[j] = s.elems[j]
          \/ s.elems[j].kind = "bulk" /\ r.elems[j] = [s.elems[j] EXCEPT !.kind = "header"]

LEMMA ClosesParts ==
  ASSUME TypeOK, ServerCloses
  PROVE  /\ stream /\ server.alive /\ server' = [server EXCEPT !.alive = FALSE] /\ wire' = <<>>
         /\ UNCHANGED <<sock, call, torn>>
         /\ Len(replies') \in 0..Len(replies)
         /\ \A i \in 1..Len(replies') : i < Len(replies') => replies'[i] = replies[i]
         /\ \A i \in 1..Len(replies') : Cut(replies'[i], replies[i])
<1>0. replies \in Seq(Reply) /\ Len(replies) \in Nat
  BY TypeParts DEF NetTypes
<1>1. CASE replies' \in Arrives(replies)
  <2>1. /\ Len(replies') \in 0..Len(replies)
        /\ \A i \in 1..Len(replies') : i < Len(replies') => replies'[i] = replies[i]
        /\ \A i \in 1..Len(replies') :
             \/ replies'[i] = replies[i]
             \/ replies[i].kind = "bulk" /\ replies'[i] = [replies[i] EXCEPT !.kind = "header"]
    BY <1>0, <1>1, ArrivesParts
  <2>. QED BY <2>1 DEF ServerCloses, Cut
<1>2. CASE \E n \in 1..Len(replies) : \E elems \in Arrives(replies[n].elems) :
             replies' = Append(SubSeq(replies, 1, n - 1), [replies[n] EXCEPT !.elems = elems])
  <2>1. PICK n \in 1..Len(replies) : \E elems \in Arrives(replies[n].elems) :
             replies' = Append(SubSeq(replies, 1, n - 1), [replies[n] EXCEPT !.elems = elems])
    BY <1>2
  <2>2. PICK t \in Arrives(replies[n].elems) :
             replies' = Append(SubSeq(replies, 1, n - 1), [replies[n] EXCEPT !.elems = t])
    BY <2>1
  <2> DEFINE p == SubSeq(replies, 1, n - 1)
             r == [replies[n] EXCEPT !.elems = t]
  <2>0. n - 1 \in 0..Len(replies)
    BY <1>0, <2>1
  <2>3. p \in Seq(Reply) /\ Len(p) = n - 1 /\ \A i \in 1..n-1 : p[i] = replies[i]
    BY <1>0, <2>0, PrefixParts
  <2>4. replies[n] \in Reply /\ replies[n].elems \in Seq(Element)
    <3>1. replies[n] \in Reply
      BY <1>0, <2>1
    <3>. QED BY <3>1 DEF Reply
  <2>5. r.elems = t /\ r = [replies[n] EXCEPT !.elems = r.elems]
    BY <2>4 DEF Reply
  <2>6. Cut(r, replies[n])
    <3> DEFINE e == replies[n].elems
    <3>1. \A x \in Element : [x EXCEPT !.kind = "header"] \in Element
      BY DEF Element, Kinds
    <3>2. e \in Seq(Element) /\ t \in Arrives(e) /\ r.elems = t
      BY <2>2, <2>4, <2>5
    <3> HIDE DEF e, r
    <3>3. t \in Seq(Element)
      BY <3>1, <3>2, ArrivesType
    <3>4. /\ Len(t) \in 0..Len(e)
          /\ \A i \in 1..Len(t) : i < Len(t) => t[i] = e[i]
          /\ \A i \in 1..Len(t) : \/ t[i] = e[i]
                                  \/ e[i].kind = "bulk" /\ t[i] = [e[i] EXCEPT !.kind = "header"]
      BY <3>2, ArrivesParts
    <3>. QED BY <2>5, <3>2, <3>3, <3>4 DEF Cut, e
  <2> HIDE DEF p, r
  <2>7. Len(replies') = n /\ (\A i \in 1..n-1 : replies'[i] = replies[i]) /\ replies'[n] = r
    BY <2>1, <2>2, <2>3 DEF p, r
  <2>8. \A i \in 1..n : Cut(replies'[i], replies[i])
    <3> SUFFICES ASSUME NEW i \in 1..n PROVE Cut(replies'[i], replies[i])
      OBVIOUS
    <3>1. CASE i = n
      BY <2>6, <2>7, <3>1
    <3>2. CASE i # n
      <4>1. i \in 1..n-1
        BY <2>1, <3>2
      <4>. QED BY <2>7, <4>1 DEF Cut
    <3>. QED BY <3>1, <3>2
  <2>9. Len(replies') \in 0..Len(replies) /\ \A i \in 1..n : i < n => i \in 1..n-1
    BY <1>0, <2>1, <2>7
  <2>. QED BY <2>7, <2>8, <2>9 DEF ServerCloses
<1>. QED BY <1>1, <1>2 DEF ServerCloses

\* What is cut is known to be.
LEMMA CutFits ==
  ASSUME NEW r, NEW s \in Reply, Cut(r, s), Fits(s)
  PROVE  /\ Fits(r) /\ r.for = s.for /\ r.n = s.n
         /\ r.kind = s.kind \/ r.kind = "header"
         /\ Entire(r) => r = s
         /\ Len(r.elems) \in 0..Len(s.elems) /\ \A j \in 1..Len(r.elems) : r.elems[j].for = s.elems[j].for
<1>0. /\ s.elems \in Seq(Element) /\ Len(s.elems) \in Nat /\ s.n \in Nat
      /\ s = [for |-> s.for, kind |-> s.kind, n |-> s.n, elems |-> s.elems]
      /\ \A j \in 1..Len(s.elems) : s.elems[j] \in Element
  BY DEF Reply
<1>1. CASE r = s
  BY <1>0, <1>1
<1>2. CASE s.kind = "bulk" /\ r = [s EXCEPT !.kind = "header"]
  <2>1. r.for = s.for /\ r.n = s.n /\ r.elems = s.elems /\ r.kind = "header"
    BY <1>0, <1>2
  <2>. QED BY <1>0, <1>2, <2>1 DEF Fits, Plain, Entire
<1>3. CASE /\ r = [s EXCEPT !.elems = r.elems]
           /\ r.elems \in Seq(Element) /\ Len(r.elems) \in 0..Len(s.elems)
           /\ \A j \in 1..Len(r.elems) : j < Len(r.elems) => r.elems[j] = s.elems[j]
           /\ \A j \in 1..Len(r.elems) :
                \/ r.elems[j] = s.elems[j]
                \/ s.elems[j].kind = "bulk" /\ r.elems[j] = [s.elems[j] EXCEPT !.kind = "header"]
  <2>1. r.for = s.for /\ r.n = s.n /\ r.kind = s.kind
    BY <1>0, <1>3
  <2>2. \A j \in 1..Len(r.elems) : j \in 1..Len(s.elems)
    BY <1>0, <1>3
  <2>3. \A j \in 1..Len(r.elems) : Inner(s.elems[j]) /\ s.elems[j] \in Element
    BY <1>0, <2>2 DEF Fits
  <2>4. \A j \in 1..Len(r.elems) : Inner(r.elems[j]) /\ r.elems[j].for = s.elems[j].for
    <3> SUFFICES ASSUME NEW j \in 1..Len(r.elems)
                 PROVE  Inner(r.elems[j]) /\ r.elems[j].for = s.elems[j].for
      OBVIOUS
    <3>1. CASE r.elems[j] = s.elems[j]
      BY <2>3, <3>1
    <3>2. CASE s.elems[j].kind = "bulk" /\ r.elems[j] = [s.elems[j] EXCEPT !.kind = "header"]
      BY <2>3, <3>2 DEF Inner, Plain, Element
    <3>. QED BY <1>3, <3>1, <3>2
  <2>5. s.kind # "array" => r.elems = s.elems
    <3> SUFFICES ASSUME s.kind # "array" PROVE r.elems = s.elems
      OBVIOUS
    <3>1. s.elems = <<>> /\ Len(s.elems) = 0
      BY DEF Fits, Plain
    <3>. QED BY <1>3, <3>1
  <2>6. Plain(r) /\ Len(r.elems) <= r.n
    BY <1>0, <1>3, <2>1, <2>5 DEF Fits, Plain
  <2>7. ASSUME Entire(r) PROVE r = s
    <3>1. Len(r.elems) = Len(s.elems)
      BY <1>0, <1>3, <2>1, <2>7 DEF Entire, Fits
    <3>2. \A j \in 1..Len(s.elems) : r.elems[j] = s.elems[j]
      <4> SUFFICES ASSUME NEW j \in 1..Len(s.elems) PROVE r.elems[j] = s.elems[j]
        OBVIOUS
      <4>1. r.elems[j].kind # "header"
        BY <2>7, <3>1 DEF Entire
      <4>2. s.elems[j] \in Element
        BY <1>0
      <4>. QED BY <1>3, <3>1, <4>1, <4>2 DEF Element
    <3>3. r.elems = s.elems
      BY <1>0, <1>3, <3>1, <3>2, SeqEqual
    <3>. QED BY <1>0, <1>3, <3>3
  <2>. QED BY <1>3, <2>1, <2>4, <2>6, <2>7 DEF Fits
<1>. QED BY <1>1, <1>2, <1>3 DEF Cut

-----------------------------------------------------------------------------
(* The replies on the stream and the queue of the server. *)

LEMMA EmptyFits ==
  /\ replies' = <<>> => RepliesFit'
  /\ server' = Gone => QueueFits'
  /\ \A db : server' = Fresh(db) => QueueFits'
<1>1. Len(<<>>) = 0
  OBVIOUS
<1>2. \A db : Fresh(db).tx = "none" /\ Fresh(db).queue = <<>>
  BY DEF Fresh
<1>3. Gone.tx = "none" /\ Gone.queue = <<>>
  BY DEF Fresh, Gone
<1>. QED BY <1>1, <1>2, <1>3 DEF RepliesFit, QueueFits

LEMMA NetFits ==
  ASSUME QueueFits, RepliesFit, UNCHANGED <<server, replies>>
  PROVE  QueueFits' /\ RepliesFit'
BY DEF QueueFits, RepliesFit

LEMMA RepFits ==
  ASSUME NEW r \in Request, NEW k \in Kinds, Plain(Rep(r, k)), k # "header"
  PROVE  Fits(Rep(r, k)) /\ Entire(Rep(r, k))
<1>1. Rep(r, k).n = 0 /\ Rep(r, k).elems = <<>> /\ Rep(r, k).kind = k
  BY DEF Rep
<1>2. Len(<<>>) = 0
  OBVIOUS
<1>. QED BY <1>1, <1>2 DEF Fits, Entire

LEMMA AppendFits ==
  ASSUME TypeOK, RepliesFit, server.alive, NEW r \in Reply, Fits(r), Entire(r),
         replies' = Append(replies, r)
  PROVE  /\ RepliesFit'
         /\ Len(replies') = Len(replies) + 1 /\ replies'[Len(replies) + 1] = r
         /\ \A i \in 1..Len(replies) : replies'[i] = replies[i]
<1>1. replies \in Seq(Reply) /\ Len(replies) \in Nat
  BY TypeParts DEF NetTypes
<1>2. /\ Len(replies') = Len(replies) + 1 /\ replies'[Len(replies) + 1] = r
      /\ \A i \in 1..Len(replies) : replies'[i] = replies[i]
  BY <1>1, AppendProperties
<1>3. \A i \in 1..Len(replies') : i \in 1..Len(replies) \/ i = Len(replies) + 1
  BY <1>1, <1>2
<1>4. \A i \in 1..Len(replies') : Fits(replies'[i]) /\ Entire(replies'[i])
  BY <1>2, <1>3 DEF RepliesFit
<1>5. \A i \in 1..Len(replies') : \A j \in 1..Len(replies'[i].elems) :
        replies'[i].elems[j].kind # "header"
  BY <1>4 DEF Entire
<1>. QED BY <1>2, <1>4, <1>5 DEF RepliesFit

\* The elements of an array fit as replies of their own.
LEMMA ElementFits ==
  ASSUME NEW e \in Element, Inner(e)
  PROVE  Fits(e) /\ (e.kind # "header" => Entire(e)) /\ e.elems = <<>> /\ e.n = 0
<1>1. e.n = 0 /\ e.elems = <<>> /\ Len(e.elems) = 0
  BY DEF Element
<1>. QED BY <1>1 DEF Inner, Fits, Entire

LEMMA ReadFits ==
  ASSUME TypeOK, RepliesFit, replies # <<>>, replies' = Rest, server'.alive => server.alive
  PROVE  RepliesFit'
<1> DEFINE h == Head(replies)
<1>1. replies \in Seq(Reply) /\ Len(replies) \in Nat \ {0}
  BY TypeParts DEF NetTypes
<1>2. /\ h = replies[1] /\ h \in Reply
      /\ h.kind = "bulk" =>
           /\ Len(replies') = Len(replies)
           /\ replies'[1] = [h EXCEPT !.kind = "payload"]
           /\ \A i \in 2..Len(replies) : replies'[i] = replies[i]
      /\ h.kind # "bulk" =>
           /\ Len(replies') = Len(h.elems) + Len(replies) - 1
           /\ \A i \in 1..Len(h.elems) : replies'[i] = h.elems[i]
           /\ \A i \in Len(h.elems)+1..Len(replies') : replies'[i] = replies[i - Len(h.elems) + 1]
  BY RestParts
<1>3. Fits(h) /\ h.elems \in Seq(Element) /\ Len(h.elems) \in Nat
  <2>1. Fits(replies[1])
    BY <1>1 DEF RepliesFit
  <2>2. h.elems \in Seq(Element)
    BY <1>2 DEF Reply
  <2>. QED BY <1>2, <2>1, <2>2
<1>4. CASE h.kind = "bulk"
  <2> DEFINE p == [h EXCEPT !.kind = "payload"]
  <2>1. h.for.cmd = "DATA" /\ h.n = 0 /\ h.elems = <<>>
    BY <1>3, <1>4 DEF Fits, Plain
  <2>2. p.for = h.for /\ p.n = 0 /\ p.elems = <<>> /\ p.kind = "payload" /\ Len(p.elems) = 0
    BY <1>2, <2>1 DEF Reply
  <2> HIDE DEF p, h
  <2>3. Fits(p) /\ Entire(p)
    BY <2>1, <2>2 DEF Fits, Plain, Entire
  <2>4. \A i \in 1..Len(replies') : i = 1 \/ i \in 2..Len(replies)
    BY <1>1, <1>2, <1>4
  <2>5. \A i \in 1..Len(replies') : replies'[i] = p \/ (i \in 1..Len(replies) /\ replies'[i] = replies[i])
    BY <1>1, <1>2, <1>4, <2>4 DEF p
  <2>6. \A i \in 1..Len(replies') : Fits(replies'[i])
    BY <2>3, <2>5 DEF RepliesFit
  <2>7. \A i \in 1..Len(replies') : i < Len(replies') \/ server'.alive => Entire(replies'[i])
    BY <1>2, <1>4, <2>3, <2>5 DEF RepliesFit
  <2>8. \A i \in 1..Len(replies') : \A j \in 1..Len(replies'[i].elems) :
          j < Len(replies'[i].elems) => replies'[i].elems[j].kind # "header"
    BY <2>2, <2>5 DEF RepliesFit
  <2>. QED BY <2>6, <2>7, <2>8 DEF RepliesFit
<1>5. CASE h.kind # "bulk"
  <2> DEFINE n == Len(h.elems)
  <2>0. n \in Nat
    BY <1>3
  <2>1. \A i \in 1..n : h.elems[i] \in Element /\ Inner(h.elems[i])
    BY <1>3 DEF Fits
  <2>2. \A i \in 1..n : /\ Fits(h.elems[i]) /\ h.elems[i].elems = <<>>
                        /\ h.elems[i].kind # "header" => Entire(h.elems[i])
    BY <2>1, ElementFits
  <2> HIDE DEF n
  <2>3. ASSUME NEW i \in 1..Len(replies')
        PROVE  \/ i \in 1..n /\ replies'[i] = h.elems[i]
               \/ i - n + 1 \in 2..Len(replies) /\ i > n /\ replies'[i] = replies[i - n + 1]
    <3>1. CASE i <= n
      BY <1>2, <1>5, <2>0, <3>1 DEF n
    <3>2. CASE i > n
      <4>1. Len(replies') = n + Len(replies) - 1
        BY <1>2, <1>5 DEF n
      <4>2. i \in n+1..Len(replies')
        BY <1>1, <2>0, <3>2, <4>1
      <4>3. replies'[i] = replies[i - n + 1]
        BY <1>2, <1>5, <4>2 DEF n
      <4>. QED BY <1>1, <2>0, <3>2, <4>1, <4>2, <4>3
    <3>. QED BY <2>0, <3>1, <3>2
  <2>4. \A i \in 1..Len(replies') : Fits(replies'[i])
    <3> SUFFICES ASSUME NEW i \in 1..Len(replies') PROVE Fits(replies'[i])
      OBVIOUS
    <3>1. CASE i \in 1..n /\ replies'[i] = h.elems[i]
      BY <2>2, <3>1
    <3>2. CASE i - n + 1 \in 2..Len(replies) /\ replies'[i] = replies[i - n + 1]
      <4>1. i - n + 1 \in 1..Len(replies)
        BY <1>1, <3>2
      <4>. QED BY <3>2, <4>1 DEF RepliesFit
    <3>. QED BY <2>3, <3>1, <3>2
  <2>5. \A i \in 1..Len(replies') : i < Len(replies') \/ server'.alive => Entire(replies'[i])
    <3> SUFFICES ASSUME NEW i \in 1..Len(replies'), i < Len(replies') \/ server'.alive
                 PROVE  Entire(replies'[i])
      OBVIOUS
    <3>1. CASE i \in 1..n /\ replies'[i] = h.elems[i]
      <4>1. CASE server'.alive
        <5>1. Entire(h)
          BY <1>1, <1>2, <4>1 DEF RepliesFit
        <5>2. h.elems[i].kind # "header"
          BY <3>1, <5>1 DEF Entire, n
        <5>. QED BY <2>2, <3>1, <5>2
      <4>2. CASE i < n
        <5>1. \A j \in 1..Len(h.elems) : j < Len(h.elems) => h.elems[j].kind # "header"
          BY <1>1, <1>2 DEF RepliesFit
        <5>. QED BY <2>2, <3>1, <4>2, <5>1 DEF n
      <4>3. CASE i = n /\ n < Len(replies')
        <5>1. 1 < Len(replies)
          BY <1>1, <1>2, <1>5, <2>0, <4>3 DEF n
        <5>2. Entire(h)
          BY <1>1, <1>2, <5>1 DEF RepliesFit
        <5>3. h.elems[i].kind # "header"
          BY <3>1, <5>2 DEF Entire, n
        <5>. QED BY <2>2, <3>1, <5>3
      <4>4. i < n \/ i = n
        BY <2>0, <3>1
      <4>. QED BY <4>1, <4>2, <4>3, <4>4
    <3>2. CASE i - n + 1 \in 2..Len(replies) /\ i > n /\ replies'[i] = replies[i - n + 1]
      <4>1. i - n + 1 \in 1..Len(replies)
        BY <1>1, <3>2
      <4>2. i < Len(replies') => i - n + 1 < Len(replies)
        BY <1>1, <1>2, <1>5, <2>0, <3>2 DEF n
      <4>. QED BY <3>2, <4>1, <4>2 DEF RepliesFit
    <3>. QED BY <2>3, <3>1, <3>2
  <2>6. \A i \in 1..Len(replies') : \A j \in 1..Len(replies'[i].elems) :
          j < Len(replies'[i].elems) => replies'[i].elems[j].kind # "header"
    <3> SUFFICES ASSUME NEW i \in 1..Len(replies'), NEW j \in 1..Len(replies'[i].elems),
                        j < Len(replies'[i].elems)
                 PROVE  replies'[i].elems[j].kind # "header"
      OBVIOUS
    <3>1. CASE i \in 1..n /\ replies'[i] = h.elems[i]
      <4>1. Len(replies'[i].elems) = 0
        BY <2>2, <3>1
      <4>. QED BY <4>1
    <3>2. CASE i - n + 1 \in 2..Len(replies) /\ replies'[i] = replies[i - n + 1]
      <4>1. i - n + 1 \in 1..Len(replies)
        BY <1>1, <3>2
      <4>. QED BY <3>2, <4>1 DEF RepliesFit
    <3>. QED BY <2>3, <3>1, <3>2
  <2>. QED BY <2>4, <2>5, <2>6 DEF RepliesFit
<1>. QED BY <1>4, <1>5

LEMMA ClosesFit ==
  ASSUME TypeOK, RepliesFit, ServerCloses
  PROVE  RepliesFit'
<1>1. /\ server' = [server EXCEPT !.alive = FALSE] /\ Len(replies') \in 0..Len(replies)
      /\ \A i \in 1..Len(replies') : i < Len(replies') => replies'[i] = replies[i]
      /\ \A i \in 1..Len(replies') : Cut(replies'[i], replies[i])
  BY ClosesParts
<1>2. replies \in Seq(Reply) /\ Len(replies) \in Nat /\ server \in Servers
  BY TypeParts DEF NetTypes
<1>3. \A i \in 1..Len(replies') : i \in 1..Len(replies) /\ replies[i] \in Reply /\ Fits(replies[i])
  BY <1>1, <1>2 DEF RepliesFit
<1>4. \A i \in 1..Len(replies') : Fits(replies'[i])
  BY <1>1, <1>3, CutFits
<1>5. \A i \in 1..Len(replies') : i < Len(replies') => Entire(replies'[i])
  <2> SUFFICES ASSUME NEW i \in 1..Len(replies'), i < Len(replies') PROVE Entire(replies'[i])
    OBVIOUS
  <2>1. i < Len(replies)
    BY <1>1, <1>2
  <2>. QED BY <1>1, <1>3, <2>1 DEF RepliesFit
<1>6. \A i \in 1..Len(replies') : \A j \in 1..Len(replies'[i].elems) :
        j < Len(replies'[i].elems) => replies'[i].elems[j].kind # "header"
  <2> SUFFICES ASSUME NEW i \in 1..Len(replies'), NEW j \in 1..Len(replies'[i].elems),
                      j < Len(replies'[i].elems)
               PROVE  replies'[i].elems[j].kind # "header"
    OBVIOUS
  <2> DEFINE r == replies'[i]
             s == replies[i]
  <2>1. /\ s \in Reply /\ Fits(s) /\ Cut(r, s) /\ Len(s.elems) \in Nat /\ s.elems \in Seq(Element)
        /\ \A k \in 1..Len(s.elems) : k < Len(s.elems) => s.elems[k].kind # "header"
        /\ j \in 1..Len(r.elems) /\ j < Len(r.elems)
    BY <1>1, <1>3 DEF RepliesFit, Reply
  <2> HIDE DEF r, s
  <2>2. CASE r = s
    BY <2>1, <2>2 DEF r
  <2>3. CASE s.kind = "bulk" /\ r = [s EXCEPT !.kind = "header"]
    <3>1. r.elems = s.elems
      BY <2>1, <2>3 DEF Reply
    <3>. QED BY <2>1, <3>1 DEF r
  <2>4. CASE r = [s EXCEPT !.elems = r.elems] /\ Len(r.elems) \in 0..Len(s.elems) /\ r.elems[j] = s.elems[j]
    BY <2>1, <2>4 DEF r
  <2>. QED BY <2>1, <2>2, <2>3, <2>4 DEF Cut
<1>7. ~server'.alive
  BY <1>1, <1>2 DEF Servers
<1>. QED BY <1>4, <1>5, <1>6, <1>7 DEF RepliesFit

-----------------------------------------------------------------------------
(* What the server does with a command. *)

Ordinary == {"DATA", "SELECT", "WATCH", "UNWATCH"}

\* The effect of command q, answered by r.
Handled(q, r) ==
  /\ q.cmd \in Ordinary /\ server.tx # "none" =>
       /\ server'.tx # "none" /\ r.kind \in {"queued", "error"}
       /\ server'.queue = IF r.kind = "queued" THEN Append(server.queue, q) ELSE server.queue
       /\ server'.db = server.db /\ server'.watch = server.watch
  /\ q.cmd \in Ordinary /\ server.tx = "none" =>
       /\ server'.tx = "none" /\ r.kind # "queued"
       /\ server'.db = IF Selects(r) THEN q.arg ELSE server.db
       /\ server'.watch = IF r.kind = "ok" /\ q.cmd \in {"WATCH", "UNWATCH"} THEN q.cmd = "WATCH"
                                                                            ELSE server.watch
  /\ q.cmd = "MULTI" =>
       /\ server'.tx # "none" /\ server'.queue = server.queue
       /\ server'.db = server.db /\ server'.watch = server.watch
       /\ r.kind = IF server.tx = "none" THEN "ok" ELSE "error"
  /\ q.cmd = "DISCARD" =>
       /\ server'.tx = "none" /\ ~server'.watch /\ server'.db = server.db
       /\ r.kind = IF server.tx = "none" THEN "error" ELSE "ok"
  /\ q.cmd = "RESET" =>
       \/ r.kind = "reset" /\ server'.tx = "none" /\ ~server'.watch /\ server'.db = 0
       \/ r.kind = "error" /\ server.tx = "none" /\ server' = server
  /\ q.cmd = "EXEC" =>
       /\ server'.tx = "none" /\ ~server'.watch
       /\ r.kind # "array" => server'.db = server.db
       /\ r.kind = "array" =>
            /\ r.n = Len(server.queue) /\ Len(r.elems) = r.n
            /\ \A j \in 1..Len(r.elems) : r.elems[j].for = server.queue[j]
            /\ \/ \E i \in 1..Len(r.elems) : /\ Selects(r.elems[i]) /\ server'.db = r.elems[i].for.arg
                                             /\ \A j \in i+1..Len(r.elems) : ~Selects(r.elems[j])
               \/ server'.db = server.db /\ \A j \in 1..Len(r.elems) : ~Selects(r.elems[j])

\* A step of the server, as one command taken and one reply sent.
Handles1(r) ==
  /\ server.alive /\ wire # <<>> /\ server' \in Servers /\ server'.alive
  /\ r \in Reply /\ Fits(r) /\ Entire(r) /\ r.for = Head(wire)
  /\ Replied(r) /\ Handled(Head(wire), r) /\ QueueFits'

LEMMA RepHandled ==
  ASSUME TypeOK, wire # <<>>, server.alive, server' \in Servers, server'.alive, QueueFits',
         NEW k \in Kinds, k # "header", Replied(Rep(Head(wire), k)),
         Plain(Rep(Head(wire), k)), Handled(Head(wire), Rep(Head(wire), k))
  PROVE  \E r \in Reply : Handles1(r)
<1>1. Head(wire) \in Request
  BY TypeParts, HeadTailProperties DEF NetTypes
<1>2. Rep(Head(wire), k) \in Reply /\ Rep(Head(wire), k).for = Head(wire)
  BY <1>1, RepType DEF Rep
<1>3. Handles1(Rep(Head(wire), k))
  BY <1>1, <1>2, RepFits DEF Handles1
<1>. QED BY <1>2, <1>3

LEMMA ExecsHandled ==
  ASSUME TypeOK, QueueFits, ServerExecs
  PROVE  \E r \in Reply : Handles1(r)
<1> DEFINE q == server.queue
           h == Head(wire)
<1>1. wire # <<>> /\ h \in Request /\ server \in Servers /\ h.cmd = "EXEC" /\ server.alive
  BY HandledType DEF ServerExecs, Handles
<1>2. q \in Seq(Request) /\ Len(q) \in Nat /\ \A i \in 1..Len(q) : q[i] \in Request
  BY <1>1 DEF Servers
<1>3. PICK i \in 0..Len(q) :
        /\ LastSelect(q, i)
        /\ server' = EndOfTx([server EXCEPT !.db = IF i = 0 THEN @ ELSE q[i].arg])
  BY DEF ServerExecs
<1>4. PICK shape \in [1..Len(q) -> Shapes] :
        Replied([Rep(h, "array") EXCEPT !.n = Len(q), !.elems = Elements(q, shape)])
  BY DEF ServerExecs
<1> DEFINE e == Elements(q, shape)
           r == [Rep(h, "array") EXCEPT !.n = Len(q), !.elems = e]
           kind(j) == IF q[j].cmd = "DATA" THEN shape[j] ELSE "ok"
<1>5. \A j \in 1..Len(q) : shape[j] \in {"line", "bulk"}
  BY <1>4, ShapesAssumption
<1>6. \A j \in 1..Len(q) : kind(j) \in Kinds
  BY <1>5 DEF Kinds
<1>7. \A j \in 1..Len(q) : Rep(q[j], kind(j)) \in Element
  BY <1>2, <1>6, RepType
<1>8. e \in Seq(Element) /\ Len(e) = Len(q) /\ \A j \in 1..Len(q) : e[j] = Rep(q[j], kind(j))
  BY <1>2, <1>7 DEF Elements
<1>9. \A j \in 1..Len(q) : e[j].for = q[j] /\ Inner(e[j]) /\ e[j].kind # "header"
  <2> SUFFICES ASSUME NEW j \in 1..Len(q)
               PROVE  e[j].for = q[j] /\ Inner(e[j]) /\ e[j].kind # "header"
    OBVIOUS
  <2>0. e[j] = Rep(q[j], kind(j))
    BY <1>8
  <2>1. e[j].for = q[j] /\ e[j].kind = kind(j) /\ e[j].n = 0 /\ e[j].elems = <<>>
    BY <2>0 DEF Rep
  <2>2. q[j].cmd \in {"DATA", "SELECT", "UNWATCH"}
    BY DEF QueueFits
  <2>3. shape[j] \in {"line", "bulk"}
    BY <1>5
  <2> HIDE DEF e
  <2>. QED BY <2>1, <2>2, <2>3 DEF Inner, Plain
<1> HIDE DEF e
<1>10. r \in Reply
  BY <1>1, <1>2, <1>8 DEF Rep, Reply, Kinds
<1>11. r \in Reply /\ r.for = h /\ r.kind = "array" /\ r.n = Len(q) /\ r.elems = e
  BY <1>10 DEF Rep
<1> HIDE DEF r
<1>12. Fits(r) /\ Entire(r)
  BY <1>1, <1>2, <1>8, <1>9, <1>11 DEF Fits, Plain, Entire
<1>13. server'.tx = "none" /\ server'.queue = <<>> /\ ~server'.watch /\ server'.alive
       /\ server'.db = IF i = 0 THEN server.db ELSE q[i].arg
  BY <1>1, <1>3 DEF EndOfTx, Servers
<1>14. \A j \in 1..Len(e) : Selects(e[j]) <=> q[j].cmd = "SELECT"
  <2> SUFFICES ASSUME NEW j \in 1..Len(e) PROVE Selects(e[j]) <=> q[j].cmd = "SELECT"
    OBVIOUS
  <2>1. e[j] = Rep(q[j], kind(j)) /\ e[j].for = q[j]
    BY <1>8, <1>9
  <2>2. e[j].kind = kind(j)
    BY <2>1 DEF Rep
  <2>. QED BY <2>1, <2>2 DEF Selects
<1>15. \/ \E k \in 1..Len(e) : /\ Selects(e[k]) /\ server'.db = e[k].for.arg
                               /\ \A j \in k+1..Len(e) : ~Selects(e[j])
       \/ server'.db = server.db /\ \A j \in 1..Len(e) : ~Selects(e[j])
  <2>1. CASE i = 0
    BY <1>2, <1>3, <1>8, <1>13, <1>14, <2>1 DEF LastSelect
  <2>2. CASE i # 0
    <3>1. i \in 1..Len(e) /\ q[i].cmd = "SELECT" /\ \A j \in i+1..Len(q) : q[j].cmd # "SELECT"
      BY <1>2, <1>3, <1>8, <2>2 DEF LastSelect
    <3>2. Selects(e[i]) /\ server'.db = e[i].for.arg
      BY <1>8, <1>9, <1>13, <1>14, <2>2, <3>1
    <3>3. \A j \in i+1..Len(e) : ~Selects(e[j])
      BY <1>2, <1>8, <1>14, <3>1
    <3>. QED BY <3>1, <3>2, <3>3
  <2>. QED BY <2>1, <2>2
<1>16. server' \in Servers
  <2>1. <<>> \in Seq(Request)
    OBVIOUS
  <2>2. i # 0 => q[i].arg \in Dbs \cup {0}
    BY <1>2, <1>3, RequestType DEF LastSelect
  <2>3. [server EXCEPT !.db = IF i = 0 THEN @ ELSE q[i].arg] \in Servers
    BY <1>1, <2>2 DEF Servers
  <2>. QED BY <1>3, <2>3, EndOfTxType
<1>17. Handled(h, r)
  BY <1>1, <1>8, <1>9, <1>11, <1>13, <1>15 DEF Handled, Ordinary, q
<1>18. QueueFits'
  BY <1>13 DEF QueueFits
<1>19. Replied(r)
  BY <1>4 DEF r, e
<1>20. Handles1(r)
  BY <1>1, <1>11, <1>12, <1>13, <1>16, <1>17, <1>18, <1>19 DEF Handles1, h
<1>. QED BY <1>11, <1>20

LEMMA QueueKept ==
  ASSUME QueueFits, server'.tx = "none" => server'.queue = <<>>,
         server'.queue \in {server.queue, <<>>}
  PROVE  QueueFits'
<1>1. Len(<<>>) = 0
  OBVIOUS
<1>. QED BY <1>1 DEF QueueFits

LEMMA ServerHandles ==
  ASSUME TypeOK, QueueFits, Server
  PROVE  \E r \in Reply : Handles1(r)
<1> DEFINE q == Head(wire)
<1>1. CASE ServerQueues
  <2>1. /\ wire # <<>> /\ q \in Request /\ server \in Servers /\ server.alive
        /\ q.cmd \in {"DATA", "SELECT", "UNWATCH"} /\ server.tx # "none"
    BY <1>1, HandledType DEF ServerQueues, Handles
  <2>2. /\ server.queue \in Seq(Request) /\ Len(server.queue) \in Nat
        /\ Append(server.queue, q) \in Seq(Request)
    BY <2>1, AppendProperties DEF Servers
  <2>3. /\ server' \in Servers /\ server'.alive /\ server'.tx # "none" /\ server'.db = server.db
        /\ server'.watch = server.watch /\ server'.queue = Append(server.queue, q)
    BY <1>1, <2>1, <2>2 DEF ServerQueues, Servers
  <2>4. QueueFits'
    <3>1. \A i \in 1..Len(Append(server.queue, q)) :
             Append(server.queue, q)[i].cmd \in {"DATA", "SELECT", "UNWATCH"}
      <4>1. \A i \in 1..Len(Append(server.queue, q)) : i \in 1..Len(server.queue) \/ i = Len(server.queue) + 1
        BY <2>1, <2>2
      <4>2. /\ \A i \in 1..Len(server.queue) : Append(server.queue, q)[i] = server.queue[i]
            /\ Append(server.queue, q)[Len(server.queue) + 1] = q
        BY <2>1, <2>2, AppendProperties
      <4>. QED BY <2>1, <4>1, <4>2 DEF QueueFits
    <3>. QED BY <2>3, <3>1 DEF QueueFits
  <2>5. Rep(q, "queued").for = q /\ Rep(q, "queued").kind = "queued" /\ Rep(q, "queued").n = 0
        /\ Rep(q, "queued").elems = <<>>
    BY DEF Rep
  <2>6. Plain(Rep(q, "queued")) /\ Handled(q, Rep(q, "queued"))
    BY <2>1, <2>3, <2>5 DEF Plain, Handled
  <2>. QED BY <1>1, <2>1, <2>3, <2>4, <2>6, RepHandled DEF ServerQueues, Kinds
<1>2. CASE ServerRefusesToQueue
  <2>1. /\ wire # <<>> /\ q \in Request /\ server \in Servers /\ server.alive
        /\ q.cmd \in {"DATA", "WATCH", "MULTI"} /\ server.tx # "none"
    BY <1>2, HandledType DEF ServerRefusesToQueue, Handles
  <2>2. /\ server' \in Servers /\ server'.alive /\ server'.tx = "doomed" /\ server'.db = server.db
        /\ server'.watch = server.watch /\ server'.queue = server.queue
    BY <1>2, <2>1 DEF ServerRefusesToQueue, Servers
  <2>3. QueueFits'
    BY <2>2, QueueKept
  <2>4. Rep(q, "error").for = q /\ Rep(q, "error").kind = "error" /\ Rep(q, "error").n = 0
        /\ Rep(q, "error").elems = <<>>
    BY DEF Rep
  <2>5. Plain(Rep(q, "error")) /\ Handled(q, Rep(q, "error"))
    BY <2>1, <2>2, <2>4 DEF Plain, Handled
  <2>. QED BY <1>2, <2>1, <2>2, <2>3, <2>5, RepHandled DEF ServerRefusesToQueue, Kinds
<1>3. CASE ServerRuns
  <2>1. /\ wire # <<>> /\ q \in Request /\ server \in Servers /\ server.alive
        /\ q.cmd = "DATA" /\ server.tx = "none" /\ server' = server
    BY <1>3, HandledType DEF ServerRuns, Handles
  <2>2. PICK k \in Shapes : Replied(Rep(q, k))
    BY <1>3 DEF ServerRuns
  <2>3. k \in {"line", "bulk"} /\ k \in Kinds /\ k # "header"
    BY ShapesAssumption DEF Kinds
  <2>4. Rep(q, k).for = q /\ Rep(q, k).kind = k /\ Rep(q, k).n = 0 /\ Rep(q, k).elems = <<>>
    BY DEF Rep
  <2>5. Plain(Rep(q, k)) /\ Handled(q, Rep(q, k))
    BY <2>1, <2>3, <2>4 DEF Plain, Handled, Selects
  <2>6. QueueFits'
    BY <2>1 DEF QueueFits
  <2>. QED BY <2>1, <2>2, <2>3, <2>5, <2>6, RepHandled
<1>4. CASE ServerRefuses
  <2>1. /\ wire # <<>> /\ q \in Request /\ server \in Servers /\ server.alive
        /\ q.cmd \in {"DATA", "SELECT", "WATCH", "RESET"} /\ server.tx = "none" /\ server' = server
    BY <1>4, HandledType DEF ServerRefuses, Handles
  <2>2. Rep(q, "error").for = q /\ Rep(q, "error").kind = "error" /\ Rep(q, "error").n = 0
        /\ Rep(q, "error").elems = <<>>
    BY DEF Rep
  <2>3. Plain(Rep(q, "error")) /\ Handled(q, Rep(q, "error"))
    BY <2>1, <2>2 DEF Plain, Handled, Selects
  <2>4. QueueFits'
    BY <2>1 DEF QueueFits
  <2>. QED BY <1>4, <2>1, <2>3, <2>4, RepHandled DEF ServerRefuses, Kinds
<1>5. CASE ServerSelects \/ ServerWatches \/ ServerUnwatches \/ ServerBegins
  <2>1. /\ wire # <<>> /\ q \in Request /\ server \in Servers /\ server.alive
        /\ server.tx = "none" /\ Replied(Rep(q, "ok"))
    BY <1>5, HandledType DEF ServerSelects, ServerWatches, ServerUnwatches, ServerBegins, Handles
  <2>2. /\ Rep(q, "ok").for = q /\ Rep(q, "ok").kind = "ok" /\ Rep(q, "ok").n = 0
        /\ Rep(q, "ok").elems = <<>>
    BY DEF Rep
  <2>3. \/ q.cmd = "SELECT" /\ server' = [server EXCEPT !.db = q.arg]
        \/ q.cmd = "WATCH" /\ server' = [server EXCEPT !.watch = TRUE]
        \/ q.cmd = "UNWATCH" /\ server' = [server EXCEPT !.watch = FALSE, !.touched = FALSE]
        \/ q.cmd = "MULTI" /\ server' = [server EXCEPT !.tx = "open"]
    BY <1>5 DEF ServerSelects, ServerWatches, ServerUnwatches, ServerBegins, Handles
  <2>4. q.cmd = "SELECT" => q.arg \in Dbs \cup {0}
    BY <2>1, RequestType
  <2>5. server' \in Servers /\ server'.alive /\ server'.queue = server.queue
    BY <2>1, <2>3, <2>4 DEF Servers
  <2>6. QueueFits'
    BY <2>1, <2>5, QueueKept DEF QueueFits
  <2>7. Plain(Rep(q, "ok"))
    BY <2>2, <2>3 DEF Plain
  <2>8. Handled(q, Rep(q, "ok"))
    BY <2>1, <2>2, <2>3, <2>5 DEF Handled, Ordinary, Selects, Servers
  <2>. QED BY <2>1, <2>5, <2>6, <2>7, <2>8, RepHandled DEF Kinds
<1>6. CASE ServerDiscards \/ ServerResets \/ ServerExecFails
  <2>1. /\ wire # <<>> /\ q \in Request /\ server \in Servers /\ server.alive
    BY <1>6, HandledType DEF ServerDiscards, ServerResets, ServerExecFails, Handles
  <2>2. PICK k \in {"error", "ok", "reset", "nil"} :
          /\ Replied(Rep(q, k))
          /\ \/ q.cmd = "DISCARD" /\ k = (IF server.tx = "none" THEN "error" ELSE "ok") /\ server' = EndOfTx(server)
             \/ q.cmd = "RESET" /\ k = "reset" /\ server' = Fresh(0)
             \/ q.cmd = "EXEC" /\ k \in {"nil", "error"} /\ server' = EndOfTx(server)
    BY <1>6 DEF ServerDiscards, ServerResets, ServerExecFails, Handles
  <2>3. /\ server' \in Servers /\ server'.alive /\ server'.tx = "none" /\ server'.queue = <<>> /\ ~server'.watch
        /\ server'.db = IF q.cmd = "RESET" THEN 0 ELSE server.db
    <3>1. CASE server' = EndOfTx(server) /\ q.cmd # "RESET"
      BY <2>1, <3>1, EndOfTxType DEF EndOfTx, Servers
    <3>2. CASE server' = Fresh(0) /\ q.cmd = "RESET"
      BY <3>2, FreshType DEF Fresh
    <3>. QED BY <2>2, <3>1, <3>2
  <2>4. Rep(q, k).for = q /\ Rep(q, k).kind = k /\ Rep(q, k).n = 0 /\ Rep(q, k).elems = <<>>
    BY DEF Rep
  <2>5. Plain(Rep(q, k))
    BY <2>2, <2>4 DEF Plain
  <2>6. Handled(q, Rep(q, k))
    BY <2>2, <2>3, <2>4 DEF Handled, Ordinary
  <2>7. QueueFits'
    BY <2>3, QueueKept
  <2>. QED BY <2>1, <2>2, <2>3, <2>5, <2>6, <2>7, RepHandled DEF Kinds
<1>7. CASE ServerExecs
  BY <1>7, ExecsHandled
<1>. QED BY <1>1, <1>2, <1>3, <1>4, <1>5, <1>6, <1>7 DEF Server

-----------------------------------------------------------------------------
(* The shape of the state is kept. *)

LEMMA FreshAlive ==
  /\ \A db : Fresh(db).alive /\ Fresh(db).tx = "none" /\ Fresh(db).db = db /\ ~Fresh(db).watch
  /\ ~Gone.alive
BY DEF Fresh, Gone

LEMMA ServerFramed ==
  ASSUME TypeOK, Framed, Server
  PROVE  Framed'
<1>1. PICK r \in Reply : Handles1(r)
  BY ServerHandles DEF Framed
<1>2. RepliesFit' /\ QueueFits'
  BY <1>1, AppendFits DEF Handles1, Replied, Framed
<1>3. Streamed'
  BY <1>1, FreshAlive DEF Handles1, Replied, Framed, Streamed, sock, call
<1>4. Stepped'
  BY <1>1 DEF Handles1, Replied, Framed, Stepped, Loop, sock, call, Atomic, InPipeline
<1>. QED BY <1>2, <1>3, <1>4 DEF Framed

LEMMA EnvironmentFramed ==
  ASSUME TypeOK, Framed, Environment
  PROVE  Framed'
<1>0. server \in Servers
  BY TypeParts DEF NetTypes
<1>1. CASE ServerTouches
  <2>1. /\ UNCHANGED <<sock, call, wire, replies, torn>> /\ server.alive /\ server'.alive
        /\ server'.tx = server.tx /\ server'.queue = server.queue
    BY <1>0, <1>1 DEF ServerTouches, Servers
  <2>2. QueueFits' /\ RepliesFit'
    BY <2>1 DEF Framed, QueueFits, RepliesFit
  <2>3. Streamed' /\ Stepped'
    BY <2>1, FreshAlive DEF Framed, Streamed, Stepped, Loop, sock, call, Atomic, InPipeline
  <2>. QED BY <2>2, <2>3 DEF Framed
<1>2. CASE ServerCloses
  <2>1. /\ UNCHANGED <<sock, call, torn>> /\ stream /\ wire' = <<>>
        /\ server'.tx = server.tx /\ server'.queue = server.queue
    BY <1>0, <1>2 DEF ServerCloses, Servers
  <2>2. RepliesFit'
    BY <1>2, ClosesFit DEF Framed
  <2>3. QueueFits'
    BY <2>1 DEF Framed, QueueFits
  <2>4. Streamed' /\ Stepped'
    BY <2>1 DEF Framed, Streamed, Stepped, Loop, sock, call, Atomic, InPipeline
  <2>. QED BY <2>2, <2>3, <2>4 DEF Framed
<1>. QED BY <1>1, <1>2 DEF Environment

LEMMA CallFramed ==
  ASSUME TypeOK, Framed, NEW m \in Methods, Call(m)
  PROVE  Framed'
<1>1. PICK r \in Requested(m) : op' = [m |-> m, req |-> r]
  BY DEF Call
<1>2. /\ op'.m = m /\ op'.req = r /\ m \in AllMethods /\ pc = "idle"
      /\ pc' = (IF status = "READY" THEN "ready" ELSE "open")
      /\ UNCHANGED <<sock, pos, left, got, net>>
  BY <1>1, MethodsAssumption DEF Call, Callable
<1>3. QueueFits' /\ RepliesFit'
  BY <1>2, NetFits DEF Framed, net
<1>4. Streamed'
  BY <1>2 DEF Framed, Streamed, sock, net
<1>5. m # "execMulti"
  BY <1>2 DEF AllMethods
<1>6. Stepped'
  BY <1>2, <1>5 DEF Framed, Stepped, Loop, sock
<1>. QED BY <1>3, <1>4, <1>6 DEF Framed

LEMMA NewNetFits ==
  /\ \A db : NewConnection(db) => QueueFits' /\ RepliesFit'
  /\ server' = Gone /\ replies' = <<>> => QueueFits' /\ RepliesFit'
BY EmptyFits DEF NewConnection

LEMMA ObjectFramed ==
  ASSUME TypeOK, Framed, Reconnect \/ Destruct \/ Connect \/ NewObject
  PROVE  Framed'
<1>1. CASE Reconnect
  <2>1. QueueFits' /\ RepliesFit'
    BY <1>1, NewNetFits DEF Reconnect
  <2>2. Streamed'
    BY <1>1, FreshAlive DEF Reconnect, Callable, Streamed, NewConnection, call
  <2>3. Stepped'
    BY <1>1 DEF Reconnect, Callable, call, Framed, Stepped, Loop
  <2>. QED BY <2>1, <2>2, <2>3 DEF Framed
<1>2. CASE Destruct \/ Connect
  <2>1. UNCHANGED <<sock, pos, left, got, net, torn>> /\ pc = "idle"
    BY <1>2 DEF Destruct, Connect, Callable
  <2>2. QueueFits' /\ RepliesFit'
    BY <2>1, NetFits DEF Framed, net
  <2>3. pc' = "freed" \/ (pc' = "check" /\ mode = {"MULTI"} /\ op'.m = "destruct")
    BY <1>2 DEF Destruct, Connect
  <2>4. Streamed'
    BY <2>1, <2>3 DEF Framed, Streamed, sock, net
  <2>5. op'.m \in {"destruct", "connect"} /\ op'.req \in Requested(op'.m)
    BY <1>2 DEF Destruct, Connect, Requested
  <2>6. Stepped'
    BY <2>1, <2>3, <2>5 DEF Framed, Stepped, Loop, sock, Replied1, Queueing
  <2>. QED BY <2>2, <2>4, <2>6 DEF Framed
<1>3. CASE NewObject
  <2>1. QueueFits' /\ RepliesFit'
    BY <1>3, NewNetFits DEF NewObject
  <2>2. Streamed'
    BY <1>3, FreshAlive DEF NewObject, Returns, Streamed, NewConnection
  <2>3. Stepped'
    BY <1>3 DEF NewObject, Returns, NoOp, Stepped, Loop, AllMethods
  <2>. QED BY <2>1, <2>2, <2>3 DEF Framed
<1>. QED BY <1>1, <1>2, <1>3

LEMMA ServerOpenFramed ==
  ASSUME TypeOK, Framed, ServerOpen
  PROVE  Framed'
<1>1. PICK end \in {"FAILED", "DISCONNECTED", "CONNECTED", "AUTHENTICATED", "READY"} :
       /\ status' = end
       /\ stream' = (end \notin {"FAILED", "DISCONNECTED"})
       /\ IF stream' THEN Handshake(end)
          ELSE server' = Gone /\ wire' = <<>> /\ replies' = <<>> /\ torn' = torn \cap {"leftover"}
       /\ IF end = "READY" THEN Goes("ready") ELSE Returns
  BY DEF ServerOpen
<1>2. pc = "open" /\ mode = {} /\ mode' = {} /\ server \in Servers
  BY TypeParts DEF ServerOpen, Framed, Streamed, NetTypes
<1>3. \/ NewConnection(IF end = "READY" THEN dbNumber ELSE 0)
      \/ ~stream' /\ server' = Gone /\ wire' = <<>> /\ replies' = <<>>
      \/ /\ stream /\ UNCHANGED <<wire, replies>> /\ server'.alive = server.alive
         /\ server'.tx = server.tx /\ server'.queue = server.queue
  BY <1>1, <1>2 DEF Handshake, net, Servers
<1>4. QueueFits' /\ RepliesFit'
  BY <1>3, NewNetFits DEF Framed, QueueFits, RepliesFit
<1>5. Streamed'
  <2>1. pc' \in {"ready", "idle"} /\ (pc' = "ready" => end = "READY")
    BY <1>1 DEF Goes, Returns
  <2>2. (stream' <=> status' \in {"CONNECTED", "AUTHENTICATED", "READY"})
         /\ (~stream' => server' = Gone /\ wire' = <<>> /\ replies' = <<>>)
    BY <1>1
  <2>3. ~server'.alive => wire' = <<>>
    BY <1>3, FreshAlive DEF Framed, Streamed, NewConnection
  <2>. QED BY <1>1, <1>2, <2>1, <2>2, <2>3 DEF Streamed
<1>6. Stepped'
  <2>1. CASE Goes("ready")
    BY <1>2, <2>1 DEF Goes, Framed, Stepped, Loop
  <2>2. CASE Returns
    BY <2>2 DEF Returns, NoOp, Stepped, Loop, AllMethods
  <2>. QED BY <1>1, <2>1, <2>2
<1>. QED BY <1>4, <1>5, <1>6 DEF Framed

LEMMA ReturnsStepped ==
  Returns => Stepped'
BY DEF Returns, NoOp, Stepped, Loop, AllMethods

\* Steps before the write, none of which touches the network.
LEMMA MethodFramed ==
  ASSUME TypeOK, PipelineInv, Framed,
         Enqueue \/ EnterPipeline \/ EnqueueMarker \/ NothingToDo \/ EmptyPipeline \/ StartWrite
           \/ CheckEofLive \/ EndOfLoop \/ PastTheEnd \/ ExecDone
  PROVE  Framed'
<1>1. UNCHANGED <<status, stream, net, torn>>
  BY DEF Enqueue, EnterPipeline, EnqueueMarker, NothingToDo, EmptyPipeline, StartWrite,
         CheckEofLive, EndOfLoop, PastTheEnd, ExecDone, sock
<1>2. QueueFits' /\ RepliesFit'
  BY <1>1, NetFits DEF Framed, net
<1>3. CASE Enqueue \/ EnterPipeline \/ EnqueueMarker \/ NothingToDo \/ EmptyPipeline
  <2>1. Returns /\ status = "READY"
    BY <1>3 DEF Enqueue, EnterPipeline, EnqueueMarker, NothingToDo, EmptyPipeline, PipelineInv,
                PipelineCalls
  <2>2. Streamed'
    BY <1>1, <2>1 DEF Returns, Framed, Streamed, net
  <2>. QED BY <1>2, <2>1, <2>2, ReturnsStepped DEF Framed
<1>4. CASE StartWrite
  <2>0. pc = "ready" /\ op \in Ops /\ op.m \in AllMethods /\ status = "READY"
    BY <1>4, TypeParts DEF StartWrite, CallTypes, Framed, Stepped, Loop, PipelineInv, PipelineCalls
  <2>1. pc' = "check" /\ UNCHANGED <<sock, pos, left, got, net>> /\ op'.req = op.req
    BY <1>4, <2>0 DEF StartWrite, Ops
  <2>2. Streamed'
    BY <1>1, <2>0, <2>1 DEF Framed, Streamed, sock, net
  <2>3. \/ op' = op /\ op.m \in Queueing /\ ~InPipeline
        \/ op' = op /\ op.m = "multi" /\ Atomic
        \/ op' = op /\ op.m = "discard" /\ mode = {"MULTI"}
        \/ op' = op /\ op.m = "reset" /\ ~InPipeline
        \/ op.m = "exec" /\ op'.m = "execMulti" /\ mode = {"MULTI"}
        \/ op.m = "exec" /\ op'.m = "execPipe" /\ mode = {"PIPELINE"}
    BY <1>4, <2>0 DEF StartWrite, PipelineInv, PipelineCalls, Ops
  <2>4. op.req \in Requested(op.m) /\ (op.m = "exec" => op.req = Req("EXEC"))
    BY <2>0 DEF Framed, Stepped, Loop, Requested
  <2>5. op'.m \in AllMethods => op'.m = op.m
    BY <2>3 DEF AllMethods
  <2>6. got' = NoReply
    BY <1>4, <2>1 DEF StartWrite, Framed, Stepped, Loop
  <2>7. Stepped'
    BY <2>1, <2>3, <2>4, <2>5, <2>6 DEF Stepped, Loop, Replied1, Queueing, sock, Atomic, InPipeline
  <2>. QED BY <1>2, <2>2, <2>7 DEF Framed
<1>5. CASE CheckEofLive \/ EndOfLoop \/ PastTheEnd
  <2>1. /\ UNCHANGED <<sock, op, pos, left, got>>
        /\ \/ pc = "check" /\ pc' = "write"
           \/ pc = "element" /\ pc' = "execdone"
           \/ pc' = "freed"
    BY <1>5 DEF CheckEofLive, EndOfLoop, PastTheEnd, Goes
  <2>2. Streamed'
    BY <1>1, <2>1 DEF Framed, Streamed, sock, net
  <2>3. Stepped'
    BY <2>1 DEF Framed, Stepped, Loop, sock, Atomic, InPipeline
  <2>. QED BY <1>2, <2>2, <2>3 DEF Framed
<1>6. CASE ExecDone
  <2>1. Returns /\ pc = "execdone" /\ (mode' # {} => mode # {})
    BY <1>6 DEF ExecDone
  <2>2. Streamed'
    BY <1>1, <2>1 DEF Returns, Framed, Streamed, net
  <2>. QED BY <1>2, <2>1, <2>2, ReturnsStepped DEF Framed
<1>. QED BY <1>3, <1>4, <1>5, <1>6

LEMMA ReadFailedStepped ==
  ASSUME TypeOK, Framed, Reading, ReadFailed, stream' => stream /\ mode' = mode
  PROVE  Stepped'
<1>1. /\ got' = NoReply
      /\ \/ pc = "reply" /\ op' = op /\ pc' = "freed"
         \/ pc = "reply" /\ op' = NoOp /\ pc' = "idle"
         \/ pc = "element" /\ op' = op /\ pc' = "element"
         \/ pc = "txelement" /\ op' = op /\ pc' \in {"element", "txelement"}
         \/ pc \in {"exec", "element", "txqueued", "txelement"} /\ op' = op /\ pc' = "execdone"
  BY DEF ReadFailed, NextTxElement, Reading, SockReads, SockGets, VariantReads
<1>2. CASE op' = NoOp /\ pc' = "idle" /\ got' = NoReply
  BY <1>2 DEF NoOp, Stepped, Loop, AllMethods
<1>3. CASE op' = op /\ pc' # "idle"
  BY <1>1, <1>3 DEF Framed, Stepped, Loop, Atomic, InPipeline
<1>. QED BY <1>1, <1>2, <1>3

LEMMA DisconnectedFramed ==
  ASSUME NEW st \in {"FAILED", "DISCONNECTED"}, Disconnected(st), pc' \notin {"open", "check", "write"}
  PROVE  QueueFits' /\ RepliesFit' /\ Streamed' /\ ~stream'
BY NewNetFits DEF Disconnected, Streamed

LEMMA ClosedFramed ==
  ASSUME TypeOK, Framed, Close \/ CheckEofFails \/ WriteRawFails \/ ReadSeesEof \/ ReadTimesOut
  PROVE  Framed'
<1>1. PICK st \in {"FAILED", "DISCONNECTED"} : Disconnected(st)
  BY DEF Close, CheckEofFails, WriteRawFails, ReadSeesEof, ReadTimesOut
<1>2. ~stream'
  BY <1>1 DEF Disconnected
<1>3. CASE Close
  BY <1>1, <1>3, DisconnectedFramed, ReturnsStepped DEF Close, Framed, Returns
<1>4. CASE CheckEofFails \/ WriteRawFails
  <2>1. pc \in {"check", "write"} /\ WriteFailed
    BY <1>4 DEF CheckEofFails, WriteRawFails
  <2>2. Returns \/ (Goes("freed") /\ op.m = "destruct") \/ (Goes("execdone") /\ op.m = "execPipe")
    BY <2>1 DEF WriteFailed
  <2>3. pc' \notin {"open", "check", "write"}
    BY <2>2 DEF Returns, Goes
  <2>4. Stepped'
    <3>1. CASE Returns
      BY <3>1, ReturnsStepped
    <3>2. CASE (Goes("freed") /\ op.m = "destruct") \/ (Goes("execdone") /\ op.m = "execPipe")
      BY <1>2, <3>2 DEF Goes, Framed, Stepped, Loop
    <3>. QED BY <2>2, <3>1, <3>2
  <2>. QED BY <1>1, <2>3, <2>4, DisconnectedFramed DEF Framed
<1>5. CASE ReadSeesEof \/ ReadTimesOut
  <2>1. Reading /\ ReadFailed
    BY <1>5 DEF ReadSeesEof, ReadTimesOut
  <2>2. Stepped'
    BY <1>2, <2>1, ReadFailedStepped
  <2>3. pc' \notin {"open", "check", "write"}
    BY <2>1, ReadFailedCalls
  <2>. QED BY <1>1, <2>2, <2>3, DisconnectedFramed DEF Framed
<1>. QED BY <1>3, <1>4, <1>5

LEMMA OpenFramed ==
  ASSUME TypeOK, Framed, ReadStopsShort \/ ReadClosed
  PROVE  Framed'
<1>1. Reading /\ ReadFailed /\ UNCHANGED <<sock, net>>
  BY DEF ReadStopsShort, ReadClosed, Reading
<1>2. QueueFits' /\ RepliesFit'
  BY <1>1, NetFits DEF Framed, net
<1>3. Stepped'
  BY <1>1, ReadFailedStepped DEF sock
<1>4. Streamed'
  <2>1. pc' \notin {"open", "check", "write"} /\ pc \notin {"idle", "open", "freed"}
    BY <1>1, ReadFailedCalls DEF Reading, SockReads, SockGets, VariantReads
  <2>. QED BY <1>1, <2>1 DEF Framed, Streamed, sock, net
<1>. QED BY <1>2, <1>3, <1>4 DEF Framed

LEMMA WriteFramed ==
  ASSUME TypeOK, Framed, CheckEofReconnects \/ WriteRaw
  PROVE  Framed'
<1>1. CASE CheckEofReconnects
  <2>1. QueueFits' /\ RepliesFit'
    BY <1>1, NewNetFits DEF CheckEofReconnects
  <2>2. /\ pc = "check" /\ pc' = "write" /\ Eof /\ UNCHANGED <<stream, mode, op, got>>
        /\ NewConnection(dbNumber) /\ status' = "READY"
    BY <1>1 DEF CheckEofReconnects, Goes
  <2>3. stream
    BY <2>2 DEF Framed, Streamed
  <2>4. Streamed'
    BY <2>2, <2>3, FreshAlive DEF Streamed, NewConnection
  <2>5. Stepped'
    BY <2>2 DEF Framed, Stepped, Loop, Atomic, InPipeline
  <2>. QED BY <2>1, <2>4, <2>5 DEF Framed
<1>2. CASE WriteRaw
  <2>1. /\ UNCHANGED <<sock, op, left, got, server, replies, torn>>
        /\ wire' = (IF server.alive THEN wire \o Out ELSE wire)
        /\ pc = "write" /\ pc' = CASE op.m = "execMulti" -> "exec"
                                   [] op.m = "execPipe"  -> "element"
                                   [] OTHER              -> "reply"
    BY <1>2 DEF WriteRaw
  <2>2. QueueFits' /\ RepliesFit'
    BY <2>1, NetFits DEF Framed
  <2>3. Streamed'
    BY <2>1, FreshAlive DEF Framed, Streamed, sock
  <2>4. Stepped'
    BY <2>1 DEF Framed, Stepped, Loop, sock, Atomic, InPipeline
  <2>. QED BY <2>2, <2>3, <2>4 DEF Framed
<1>. QED BY <1>1, <1>2

\* A reply, or a part of it, is taken from the stream.
LEMMA TakenFits ==
  ASSUME TypeOK, Framed, ReadsIt \/ ReadBulkHeader
  PROVE  /\ stream /\ status # "FAILED" /\ replies # <<>> /\ replies' = Rest
         /\ UNCHANGED <<server, wire>> /\ QueueFits' /\ RepliesFit'
<1>1. /\ stream /\ status # "FAILED" /\ replies # <<>> /\ replies' = Rest /\ UNCHANGED <<server, wire>>
  BY DEF ReadsIt, ReadBulkHeader, Arrived, Connected
<1>2. RepliesFit'
  BY <1>1, ReadFits DEF Framed
<1>3. QueueFits'
  BY <1>1 DEF Framed, QueueFits
<1>. QED BY <1>1, <1>2, <1>3

LEMMA ReadsFramed ==
  ASSUME TypeOK, PipelineInv, Framed,
         ReadBulkHeader \/ ReadAnswer \/ ReadQueued \/ ReadMulti \/ ReadDiscard \/ ReadReset
           \/ ReadFarewell \/ ReadExec \/ ReadElement \/ ReadTxOpen \/ ReadTxQueued
           \/ ReadTxExec \/ ReadTxElement
  PROVE  Framed'
<1>1. ReadsIt \/ ReadBulkHeader
  BY DEF ReadBulkHeader, ReadAnswer, ReadQueued, ReadMulti, ReadDiscard, ReadReset,
         ReadFarewell, ReadExec, ReadElement, ReadTxOpen, ReadTxQueued, ReadTxExec, ReadTxElement
<1>2. /\ stream /\ status # "FAILED" /\ replies # <<>> /\ UNCHANGED <<server, wire>>
      /\ QueueFits' /\ RepliesFit'
  BY <1>1, TakenFits
<1>3. stream' = stream /\ pc \notin {"idle", "open", "freed"}
  BY DEF ReadBulkHeader, ReadAnswer, ReadQueued, ReadMulti, ReadDiscard, ReadReset,
         ReadFarewell, ReadExec, ReadElement, ReadTxOpen, ReadTxQueued, ReadTxExec, ReadTxElement,
         SockReads, VariantReads, sock
<1>4. status = "READY"
  BY <1>2, <1>3 DEF Framed, Streamed
<1>5. CASE ReadAnswer \/ ReadQueued \/ ReadMulti \/ ReadDiscard \/ ReadReset
  <2>1. Returns
    BY <1>5 DEF ReadAnswer, ReadQueued, ReadMulti, ReadDiscard, ReadReset
  <2>2. status' = "READY" \/ (status' = "CONNECTED" /\ mode' = {})
    BY <1>4, <1>5 DEF ReadAnswer, ReadQueued, ReadMulti, ReadDiscard, ReadReset
  <2>3. Streamed'
    BY <1>2, <1>3, <2>1, <2>2 DEF Returns, Framed, Streamed
  <2>. QED BY <1>2, <2>1, <2>3, ReturnsStepped DEF Framed
<1>6. CASE ReadBulkHeader
  <2>1. UNCHANGED <<sock, pc, op, pos, left>> /\ pc \in {"reply", "element", "txqueued", "txelement"}
    BY <1>6 DEF ReadBulkHeader, SockReads, VariantReads
  <2>2. Streamed'
    BY <1>2, <2>1 DEF Framed, Streamed, sock
  <2>3. Stepped'
    BY <1>2, <2>1 DEF Framed, Stepped, Loop, sock, Atomic, InPipeline
  <2>. QED BY <1>2, <2>2, <2>3 DEF Framed
<1>7. CASE ReadFarewell \/ ReadExec \/ ReadElement \/ ReadTxOpen \/ ReadTxQueued \/ ReadTxExec
             \/ ReadTxElement
  <2>1. op' = op /\ mode' = mode /\ status' = status
    BY <1>7 DEF ReadFarewell, ReadExec, ReadElement, ReadTxOpen, ReadTxQueued, ReadTxExec,
                ReadTxElement, sock
  <2>2. \/ pc = "reply" /\ pc' = "freed" /\ got' = NoReply
        \/ pc = "exec" /\ pc' \in {"element", "execdone"}
        \/ pc = "element" /\ pc' \in {"element", "txqueued", "execdone"}
        \/ pc = "txqueued" /\ pc' \in {"txqueued", "execdone", "txelement", "element"}
        \/ pc = "txelement" /\ pc' \in {"txelement", "element"}
    BY <1>7 DEF ReadFarewell, ReadExec, ReadElement, ReadTxOpen, ReadTxQueued, ReadTxExec,
                ReadTxElement, NextTxElement
  <2>3. Streamed'
    BY <1>2, <1>3, <1>4, <2>1, <2>2 DEF Framed, Streamed
  <2>5. Stepped'
    BY <1>2, <1>3, <2>1, <2>2 DEF Framed, Stepped, Loop, Atomic, InPipeline
  <2>. QED BY <1>2, <2>3, <2>5 DEF Framed
<1>. QED BY <1>5, <1>6, <1>7

-----------------------------------------------------------------------------
(* The blocks of a pipeline are opened and closed in turn. *)

\* Whether a command is in a block depends on those before it.
LEMMA InBlockLocal ==
  ASSUME NEW p, NEW q, NEW k \in Nat, \A i \in 1..k-1 : p[i] = q[i]
  PROVE  InBlock(p, k) <=> InBlock(q, k)
<1>1. \A i \in 1..k-1 : \A j \in i+1..k-1 : j \in 1..k-1
  OBVIOUS
<1>. QED BY <1>1 DEF InBlock

\* MULTI opens a block, EXEC closes it.
LEMMA InBlockStep ==
  ASSUME NEW q, NEW k \in Nat \ {0}
  PROVE  InBlock(q, k + 1) <=> q[k].cmd = "MULTI" \/ (q[k].cmd # "EXEC" /\ InBlock(q, k))
<1>1. ASSUME InBlock(q, k + 1), q[k].cmd # "MULTI" PROVE q[k].cmd # "EXEC" /\ InBlock(q, k)
  <2>1. PICK i \in 1..k : q[i].cmd = "MULTI" /\ \A j \in i+1..k : q[j].cmd # "EXEC"
    BY <1>1 DEF InBlock
  <2>2. i \in 1..k-1 /\ k \in i+1..k
    BY <1>1, <2>1
  <2>3. \A j \in i+1..k-1 : j \in i+1..k
    BY <2>2
  <2>. QED BY <2>1, <2>2, <2>3 DEF InBlock
<1>2. ASSUME q[k].cmd = "MULTI" PROVE InBlock(q, k + 1)
  <2>1. k \in 1..k+1-1 /\ \A j \in k+1..k+1-1 : FALSE
    OBVIOUS
  <2>. QED BY <1>2, <2>1 DEF InBlock
<1>3. ASSUME q[k].cmd # "EXEC", InBlock(q, k) PROVE InBlock(q, k + 1)
  <2>1. PICK i \in 1..k-1 : q[i].cmd = "MULTI" /\ \A j \in i+1..k-1 : q[j].cmd # "EXEC"
    BY <1>3 DEF InBlock
  <2>2. i \in 1..k+1-1 /\ \A j \in i+1..k+1-1 : j \in i+1..k-1 \/ j = k
    BY <2>1
  <2>. QED BY <1>3, <2>1, <2>2 DEF InBlock
<1>. QED BY <1>1, <1>2, <1>3

LEMMA AppendBlock ==
  ASSUME NEW q \in Seq(Request), NEW r \in Request, Balanced(q),
         r.cmd \notin {"DISCARD", "RESET"},
         r.cmd = "MULTI" => ~InBlock(q, Len(q) + 1),
         r.cmd = "EXEC" => InBlock(q, Len(q) + 1)
  PROVE  /\ Balanced(Append(q, r))
         /\ InBlock(Append(q, r), Len(Append(q, r)) + 1)
              <=> r.cmd = "MULTI" \/ (r.cmd # "EXEC" /\ InBlock(q, Len(q) + 1))
<1> DEFINE p == Append(q, r)
           n == Len(q)
<1>1. /\ n \in Nat /\ Len(p) = n + 1 /\ p[n + 1] = r /\ \A i \in 1..n : p[i] = q[i]
  BY AppendProperties
<1> HIDE DEF p
<1>2. \A k \in 1..n+1 : k \in Nat /\ \A i \in 1..k-1 : p[i] = q[i]
  BY <1>1
<1>3. \A k \in 1..n+1 : InBlock(p, k) <=> InBlock(q, k)
  BY <1>2, InBlockLocal
<1>4. \A k \in 1..n+1 : k \in 1..n \/ k = n + 1
  BY <1>1
<1>5. Balanced(p)
  <2> SUFFICES ASSUME NEW k \in 1..n+1
               PROVE  /\ p[k].cmd = "MULTI" => ~InBlock(p, k)
                      /\ p[k].cmd = "EXEC" => InBlock(p, k)
                      /\ p[k].cmd \notin {"DISCARD", "RESET"}
    BY <1>1 DEF Balanced
  <2>1. CASE k \in 1..n
    BY <1>1, <1>3, <2>1 DEF Balanced
  <2>2. CASE k = n + 1
    BY <1>1, <1>3, <2>2
  <2>. QED BY <1>4, <2>1, <2>2
<1>6. InBlock(p, n + 1 + 1) <=> p[n + 1].cmd = "MULTI" \/ (p[n + 1].cmd # "EXEC" /\ InBlock(p, n + 1))
  BY <1>1, InBlockStep
<1>7. InBlock(p, n + 1) <=> InBlock(q, n + 1)
  BY <1>1, <1>3
<1>. QED BY <1>1, <1>5, <1>6, <1>7 DEF p

LEMMA EmptyBlock ==
  Balanced(<<>>) /\ ~InBlock(<<>>, Len(<<>>) + 1)
<1>1. Len(<<>>) = 0
  OBVIOUS
<1>2. 1..0 = {}
  OBVIOUS
<1>. QED BY <1>1, <1>2 DEF Balanced, InBlock

LEMMA BlocksKept ==
  ASSUME Blocks, UNCHANGED <<mode, callbacks>>, Intact' => Intact
  PROVE  Blocks'
BY DEF Blocks, InPipeline, InMulti

LEMMA NoBlocks ==
  ~InPipeline' => Blocks'
BY DEF Blocks

\* The commands of the methods.
LEMMA QueueingCmds ==
  ASSUME NEW m \in AllMethods, NEW r \in Requested(m)
  PROVE  /\ m = "command" => r.cmd = "DATA"
         /\ m = "select" => r.cmd = "SELECT"
         /\ m = "watch" => r.cmd = "WATCH"
         /\ m = "unwatch" => r.cmd = "UNWATCH"
         /\ m = "multi" => r.cmd = "MULTI"
         /\ m = "exec" => r.cmd = "EXEC"
         /\ m \in {"discard", "destruct"} => r.cmd = "DISCARD"
         /\ m = "reset" => r.cmd = "RESET"
         /\ m \in Queueing => r.cmd \in {"DATA", "SELECT", "WATCH", "UNWATCH"}
<1>1. CASE m = "command"
  BY <1>1 DEF Requested, Queueing
<1>2. CASE m = "select"
  BY <1>2 DEF Requested, Queueing
<1>3. CASE m \notin {"command", "select"}
  BY <1>3 DEF Requested, Queueing, Req, AllMethods
<1>. QED BY <1>1, <1>2, <1>3

LEMMA QueuesBlocks ==
  ASSUME TypeOK, PipelineInv, Framed, Blocks, Enqueue \/ EnterPipeline \/ EnqueueMarker
  PROVE  Blocks'
<1>1. /\ status' = status /\ torn' = torn /\ pc = "ready" /\ status = "READY" /\ pc' = "idle"
      /\ op.m \in AllMethods /\ op.req \in Requested(op.m) /\ op.req \in Request
      /\ callbacks \in Seq(Request) /\ mode \subseteq {"MULTI", "PIPELINE"}
  BY TypeParts DEF Enqueue, EnterPipeline, EnqueueMarker, PipelineInv, PipelineCalls, Returns,
     Framed, Stepped, SockTypes, CallTypes, Ops
<1>2. Intact' => Intact /\ "leftover" \notin torn
  BY <1>1 DEF Intact, Sending
<1>3. CASE Enqueue
  <2>1. op.req.cmd \in {"DATA", "SELECT", "WATCH", "UNWATCH"}
    <3>1. op.m \in Queueing /\ op.req \in Requested(op.m)
      BY <1>1, <1>3 DEF Enqueue
    <3>. QED BY <1>1, <3>1, QueueingCmds
  <2>2. callbacks' = Append(callbacks, op.req) /\ mode' = mode /\ InPipeline
    BY <1>3 DEF Enqueue
  <2>3. ASSUME Intact'
        PROVE  Balanced(callbacks') /\ (InBlock(callbacks', Len(callbacks') + 1) <=> InMulti)
    BY <1>1, <1>2, <2>1, <2>2, <2>3, AppendBlock DEF Blocks
  <2>. QED BY <2>2, <2>3 DEF Blocks, InMulti
<1>4. CASE EnterPipeline
  <2>1. mode' = {"PIPELINE"} /\ callbacks' = callbacks /\ ~InMulti
    BY <1>1, <1>4 DEF EnterPipeline, PipelineInv, PipelineCalls
  <2>2. CASE InPipeline
    BY <1>2, <2>1, <2>2 DEF Blocks, InMulti
  <2>3. CASE ~InPipeline
    <3>1. Atomic
      BY <1>1, <2>1, <2>3 DEF InMulti, InPipeline, Atomic
    <3>2. Intact' => callbacks = <<>>
      BY <1>1, <1>2, <3>1 DEF PipelineInv, PipelineCalls
    <3>. QED BY <2>1, <3>2, EmptyBlock DEF Blocks, InMulti
  <2>. QED BY <2>2, <2>3
<1>5. CASE EnqueueMarker
  <2>1. callbacks' = Append(callbacks, op.req) /\ InPipeline
    BY <1>5 DEF EnqueueMarker
  <2>2. \/ op.req.cmd = "MULTI" /\ ~InMulti /\ InMulti'
        \/ op.req.cmd = "EXEC" /\ InMulti /\ ~InMulti'
    BY <1>1, <1>5 DEF EnqueueMarker, Requested, Req, InMulti, Queueing
  <2>3. ASSUME Intact'
        PROVE  Balanced(callbacks') /\ (InBlock(callbacks', Len(callbacks') + 1) <=> InMulti')
    BY <1>1, <1>2, <2>1, <2>2, <2>3, AppendBlock DEF Blocks
  <2>. QED BY <2>3 DEF Blocks
<1>. QED BY <1>3, <1>4, <1>5

LEMMA ClientBlocks ==
  ASSUME TypeOK, PipelineInv, Framed, Blocks, Client
  PROVE  Blocks'
<1>1. CASE Enqueue \/ EnterPipeline \/ EnqueueMarker
  BY <1>1, QueuesBlocks
<1>2. CASE ServerOpen
  BY <1>2, NoBlocks DEF ServerOpen, Framed, Streamed, InPipeline
<1>3. CASE NewObject \/ EmptyPipeline \/ Close \/ CheckEofFails \/ WriteRawFails \/ ReadSeesEof
             \/ ReadTimesOut
  <2>1. mode' = {}
    BY <1>3 DEF NewObject, EmptyPipeline, Close, CheckEofFails, WriteRawFails, ReadSeesEof,
                ReadTimesOut, Disconnected
  <2>. QED BY <2>1, NoBlocks DEF InPipeline
<1>4. CASE NothingToDo \/ StartWrite \/ CheckEofLive
  <2>1. UNCHANGED <<mode, callbacks, torn>> /\ pc \in {"ready", "check"} /\ pc' \in {"idle", "check", "write"}
    BY <1>4 DEF NothingToDo, StartWrite, CheckEofLive, Returns, Goes, sock
  <2>2. Intact' => Intact
    BY <2>1 DEF Intact, Sending
  <2>. QED BY <2>1, <2>2, BlocksKept
<1>5. CASE CheckEofReconnects
  <2>1. pc = "check" /\ pc' = "write" /\ UNCHANGED <<op, mode>>
    BY <1>5 DEF CheckEofReconnects, Goes
  <2>2. Intact' => Intact /\ (Persistent => callbacks = <<>>)
    BY <1>5, <2>1 DEF CheckEofReconnects, Intact, Sending
  <2>3. Intact' => callbacks' = callbacks
    BY <1>5, <2>2 DEF CheckEofReconnects
  <2>. QED BY <2>1, <2>2, <2>3 DEF Blocks, InPipeline, InMulti
<1>6. CASE WriteRaw
  <2>1. UNCHANGED <<mode, callbacks, torn, op>> /\ pc = "write"
    BY <1>6 DEF WriteRaw, sock
  <2>2. InPipeline => op.m = "execPipe"
    BY <2>1 DEF PipelineInv, PipelineCalls
  <2>3. InPipeline => pc' = "element"
    BY <1>6, <2>2 DEF WriteRaw
  <2>4. InPipeline /\ Intact' => Intact
    BY <2>1, <2>3 DEF Intact, Sending
  <2>. QED BY <2>1, <2>4 DEF Blocks, InPipeline, InMulti
<1>7. CASE ReadAnswer \/ ReadQueued \/ ReadMulti \/ ReadDiscard \/ ReadReset \/ ReadFarewell \/ ExecDone
  <2>1. ~InPipeline'
    BY <1>7 DEF ReadAnswer, ReadQueued, ReadMulti, ReadDiscard, ReadReset, ReadFarewell, ExecDone,
                PipelineInv, PipelineCalls, InPipeline, sock
  <2>. QED BY <2>1, NoBlocks
<1>8. CASE ReadBulkHeader \/ ReadStopsShort \/ ReadClosed
  <2>1. UNCHANGED <<mode, callbacks>> /\ torn \subseteq torn' /\ Reading
    BY <1>8 DEF ReadBulkHeader, ReadStopsShort, ReadClosed, sock, Reading
  <2>2. CASE pc = "reply"
    BY <2>1, <2>2, NoBlocks DEF PipelineInv, PipelineCalls, InPipeline
  <2>3. CASE pc # "reply"
    <3>1. pc \in {"exec", "element", "txqueued", "txelement"}
      BY <2>1, <2>3 DEF Reading, SockReads, SockGets, VariantReads
    <3>2. pc' \in {"exec", "element", "txqueued", "txelement", "execdone"}
      BY <1>8, <3>1 DEF ReadBulkHeader, ReadStopsShort, ReadClosed, ReadFailed, NextTxElement
    <3>3. CASE pc = "exec"
      BY <2>1, <3>3, NoBlocks DEF PipelineInv, PipelineCalls, InPipeline
    <3>4. CASE pc # "exec"
      <4>1. pc' # "exec"
        BY <1>8, <3>1, <3>4 DEF ReadBulkHeader, ReadStopsShort, ReadClosed, ReadFailed, NextTxElement
      <4>2. Intact' => Intact
        BY <2>1, <3>2, <4>1 DEF Intact, Sending
      <4>. QED BY <2>1, <4>2, BlocksKept
    <3>. QED BY <3>3, <3>4
  <2>. QED BY <2>2, <2>3
<1>9. CASE ReadExec \/ ReadElement \/ EndOfLoop \/ ReadTxOpen \/ ReadTxQueued \/ ReadTxExec \/ PastTheEnd
             \/ ReadTxElement
  <2>1. UNCHANGED <<mode, callbacks>> /\ torn \subseteq torn'
    BY <1>9 DEF ReadExec, ReadElement, EndOfLoop, ReadTxOpen, ReadTxQueued, ReadTxExec, PastTheEnd,
                ReadTxElement, sock
  <2>2. pc' \in {"element", "txqueued", "txelement", "execdone", "freed"}
    BY <1>9 DEF ReadExec, ReadElement, EndOfLoop, ReadTxOpen, ReadTxQueued, ReadTxExec, PastTheEnd,
                ReadTxElement, NextTxElement, Goes
  <2>3. Intact' => Intact
    BY <2>1, <2>2 DEF Intact, Sending
  <2>. QED BY <2>1, <2>3, BlocksKept
<1>. QED
  BY <1>1, <1>2, <1>3, <1>4, <1>5, <1>6, <1>7, <1>8, <1>9 DEF Client

LEMMA NextFrame ==
  ASSUME TypeOK, PipelineInv, Framed, Blocks, [Next]_vars
  PROVE  Framed' /\ Blocks'
<1>1. CASE Client
  <2>1. Framed'
    BY <1>1, ServerOpenFramed, ObjectFramed, MethodFramed, ClosedFramed, WriteFramed, ReadsFramed,
       OpenFramed
    DEF Client
  <2>. QED BY <1>1, <2>1, ClientBlocks
<1>2. CASE \E m \in Methods : Call(m)
  <2>1. PICK m \in Methods : Call(m)
    BY <1>2
  <2>2. UNCHANGED <<mode, callbacks>> /\ torn \subseteq torn' /\ pc = "idle"
    BY <2>1 DEF Call, Callable, sock
  <2>3. Intact' => Intact
    BY <2>2 DEF Intact, Sending
  <2>. QED BY <2>1, <2>2, <2>3, CallFramed, BlocksKept
<1>3. CASE Reconnect \/ Destruct \/ Connect
  <2>1. Framed'
    BY <1>3, ObjectFramed
  <2>2. CASE Reconnect
    BY <2>1, <2>2, NoBlocks DEF Reconnect, InPipeline
  <2>3. CASE Destruct \/ Connect
    <3>1. UNCHANGED <<mode, callbacks, torn>> /\ pc = "idle"
      BY <2>3 DEF Destruct, Connect, Callable, sock
    <3>2. Intact' => Intact
      BY <3>1 DEF Intact, Sending
    <3>. QED BY <2>1, <3>1, <3>2, BlocksKept
  <2>. QED BY <1>3, <2>1, <2>2, <2>3
<1>4. CASE Server \/ Environment
  <2>1. UNCHANGED <<sock, call, torn>>
    BY <1>4, ServerHandles DEF Framed, Handles1, Replied, Environment, ServerTouches, ServerCloses
  <2>2. UNCHANGED <<mode, callbacks>> /\ (Intact' => Intact)
    BY <2>1 DEF Intact, Sending, sock, call
  <2>. QED BY <1>4, <2>2, ServerFramed, EnvironmentFramed, BlocksKept
<1>5. CASE UNCHANGED vars
  <2>1. UNCHANGED <<sock, call, net, torn>>
    BY <1>5 DEF vars
  <2>2. Framed'
    BY <2>1 DEF Framed, Streamed, Stepped, Loop, QueueFits, RepliesFit, sock, call, net, Atomic, InPipeline
  <2>3. UNCHANGED <<mode, callbacks>> /\ (Intact' => Intact)
    BY <2>1 DEF Intact, Sending, sock, call
  <2>. QED BY <2>2, <2>3, BlocksKept
<1>. QED BY <1>1, <1>2, <1>3, <1>4, <1>5 DEF Next, Application

-----------------------------------------------------------------------------
(* A call outside of a block has no callbacks. *)

LEMMA NextEmptied ==
  ASSUME TypeOK, PipelineInv, PipelineInv', Framed, Emptied, [Next]_vars
  PROVE  Emptied'
<1>1. CASE pc' = "ready"
  BY <1>1 DEF PipelineInv, PipelineCalls, Emptied
<1>2. CASE pc' \notin {"ready", "check", "write", "reply"}
  BY <1>2 DEF Emptied
<1>3. CASE /\ pc \in {"ready", "check", "write", "reply"} /\ mode' = mode
           /\ "leftover" \in torn => "leftover" \in torn'
           /\ callbacks' \in {callbacks, <<>>}
  BY <1>3 DEF Emptied, Atomic
<1>4. CASE StartWrite \/ CheckEofLive \/ CheckEofReconnects \/ WriteRaw \/ ReadBulkHeader
             \/ Server \/ Environment \/ UNCHANGED vars
  <2>1. CASE StartWrite \/ CheckEofLive \/ WriteRaw
    BY <1>3, <2>1 DEF StartWrite, CheckEofLive, WriteRaw, sock
  <2>2. CASE CheckEofReconnects
    BY <1>3, <2>2 DEF CheckEofReconnects
  <2>3. CASE ReadBulkHeader \/ Server \/ Environment \/ UNCHANGED vars
    <3>1. UNCHANGED <<sock, pc, torn>>
      BY <2>3, ServerHandles DEF Framed, Handles1, Replied, Environment, ServerTouches, ServerCloses,
         ReadBulkHeader, vars, call
    <3>. QED BY <3>1 DEF Emptied, Atomic, sock
  <2>. QED BY <1>4, <2>1, <2>2, <2>3
<1>5. CASE \E m \in Methods : Call(m)
  <2>1. pc' \in {"ready", "open"}
    BY <1>5 DEF Call
  <2>. QED BY <1>1, <1>2, <2>1
<1>6. CASE Destruct
  <2>1. pc' \in {"check", "freed"} /\ mode' = mode /\ (pc' = "check" => ~Atomic)
    BY <1>6 DEF Destruct, sock, Atomic
  <2>. QED BY <1>2, <2>1 DEF Emptied, Atomic
<1>7. CASE Reconnect \/ Connect
  BY <1>2, <1>7 DEF Reconnect, Connect, Callable, call
<1>8. CASE ServerOpen \/ NewObject \/ Enqueue \/ EnterPipeline \/ EnqueueMarker \/ NothingToDo
             \/ EmptyPipeline \/ Close
  <2>1. pc' \in {"idle", "ready"}
    BY <1>8 DEF ServerOpen, NewObject, Enqueue, EnterPipeline, EnqueueMarker, NothingToDo,
       EmptyPipeline, Close, Returns, Goes
  <2>. QED BY <1>1, <1>2, <2>1
<1>9. CASE CheckEofFails \/ WriteRawFails \/ ReadAnswer \/ ReadQueued \/ ReadMulti \/ ReadDiscard
             \/ ReadReset \/ ReadFarewell \/ ReadExec \/ EndOfLoop \/ PastTheEnd \/ ExecDone
  <2>1. pc' \in {"idle", "freed", "element", "execdone"}
    BY <1>9 DEF CheckEofFails, WriteRawFails, WriteFailed, ReadAnswer, ReadQueued, ReadMulti,
       ReadDiscard, ReadReset, ReadFarewell, ReadExec, EndOfLoop, PastTheEnd, ExecDone, Returns, Goes
  <2>. QED BY <1>2, <2>1
<1>10. CASE ReadElement \/ ReadTxOpen \/ ReadTxQueued \/ ReadTxExec \/ ReadTxElement
  <2>1. pc' \in {"element", "txqueued", "txelement", "execdone"}
    BY <1>10 DEF ReadElement, ReadTxOpen, ReadTxQueued, ReadTxExec, ReadTxElement, NextTxElement
  <2>. QED BY <1>2, <2>1
<1>11. CASE ReadSeesEof \/ ReadTimesOut \/ ReadStopsShort \/ ReadClosed
  <2>1. pc' \in {"freed", "idle", "element", "txelement", "execdone"}
    BY <1>11 DEF ReadSeesEof, ReadTimesOut, ReadStopsShort, ReadClosed, ReadFailed, NextTxElement
  <2>. QED BY <1>2, <2>1
<1>. QED
  BY <1>4, <1>5, <1>6, <1>7, <1>8, <1>9, <1>10, <1>11 DEF Next, Application, Client

-----------------------------------------------------------------------------
(* The records agree between the exchanges. *)

\* Nothing is claimed of a connection that is closed, or whose events set the
\* records apart.
LEMMA NoClaim ==
  ASSUME ~stream' \/ ~Whole' \/ pc' = "freed"
  PROVE  Agree'
BY DEF Agree, Quiet, Loop

LEMMA QuietOnly ==
  ASSUME pc' \in {"idle", "open", "ready", "check", "write", "execdone"}, QuietAgree'
  PROVE  Agree'
BY DEF Agree, Quiet, Loop

\* Nothing of the connection is touched.
LEMMA QuietKept ==
  ASSUME Agree, pc \in {"idle", "open", "ready", "check", "write"},
         pc' \in {"idle", "open", "ready", "check", "write", "freed"},
         UNCHANGED <<status, stream, watching, dbNumber, net>>,
         torn' \in {torn, torn \cup {"leftover"}},
         \/ UNCHANGED <<mode, callbacks>>
         \/ mode # {"MULTI"} /\ mode' # {"MULTI"}
  PROVE  Agree'
<1>1. CASE ~stream' \/ ~Whole' \/ pc' = "freed"
  BY <1>1, NoClaim
<1>2. CASE stream' /\ Whole' /\ pc' # "freed"
  <2>1. torn' = torn /\ QuietAgree
    BY <1>2 DEF Agree, Whole, Quiet
  <2>2. UNCHANGED <<server, wire, replies>>
    BY DEF net
  <2>3. Tx'
    BY <2>1, <2>2 DEF QuietAgree, Tx
  <2>4. QuietAgree'
    BY <2>1, <2>2, <2>3 DEF QuietAgree
  <2>. QED BY <1>2, <2>4, QuietOnly
<1>. QED BY <1>1, <1>2

\* A new connection holds nothing.
LEMMA FreshAgrees ==
  ASSUME pc' \in {"idle", "open", "ready", "check", "write"}, mode' # {"MULTI"},
         NEW db, NewConnection(db), db = IF status' = "READY" THEN dbNumber' ELSE 0
  PROVE  Agree'
<1>1. server'.tx = "none" /\ ~server'.watch /\ server'.db = db /\ wire' = <<>> /\ replies' = <<>>
  BY FreshAlive DEF NewConnection
<1>2. QuietAgree'
  BY <1>1 DEF QuietAgree, Tx
<1>. QED BY <1>2, QuietOnly

LEMMA ObjectAgrees ==
  ASSUME TypeOK, Framed, Agree, Reconnect \/ Destruct \/ Connect \/ NewObject
  PROVE  Agree'
<1>1. CASE Reconnect
  <2>1. pc' = "idle" /\ mode' = {} /\ dbNumber' = dbNumber
    BY <1>1 DEF Reconnect, Callable, call
  <2>2. (status' = "READY" /\ NewConnection(dbNumber)) \/ ~stream'
    BY <1>1 DEF Reconnect
  <2>. QED BY <2>1, <2>2, FreshAgrees, NoClaim
<1>2. CASE Destruct \/ Connect
  BY <1>2, QuietKept DEF Destruct, Connect, Callable, sock
<1>3. CASE NewObject
  <2>1. pc' = "idle" /\ mode' = {}
    BY <1>3 DEF NewObject, Returns
  <2>2. (status' = "CONNECTED" /\ NewConnection(0)) \/ ~stream'
    BY <1>3 DEF NewObject
  <2>. QED BY <2>1, <2>2, FreshAgrees, NoClaim
<1>. QED BY <1>1, <1>2, <1>3

LEMMA ServerOpenAgrees ==
  ASSUME TypeOK, Framed, Agree, ServerOpen
  PROVE  Agree'
<1>1. PICK end \in {"FAILED", "DISCONNECTED", "CONNECTED", "AUTHENTICATED", "READY"} :
       /\ status' = end
       /\ stream' = (end \notin {"FAILED", "DISCONNECTED"})
       /\ stream' => Handshake(end)
       /\ IF end = "READY" THEN Goes("ready") ELSE Returns
  BY DEF ServerOpen
<1>2. /\ pc = "open" /\ mode = {} /\ mode' = {} /\ server \in Servers /\ status # "READY"
      /\ UNCHANGED <<watching, dbNumber>> /\ pc' \in {"ready", "idle"}
  BY <1>1, TypeParts DEF ServerOpen, Framed, Streamed, NetTypes, Goes, Returns
<1>3. CASE ~stream' \/ ~Whole'
  BY <1>3, NoClaim
<1>4. CASE NewConnection(IF end = "READY" THEN dbNumber ELSE 0)
  BY <1>1, <1>2, <1>4, FreshAgrees
<1>5. CASE /\ stream /\ Whole' /\ UNCHANGED <<wire, replies, torn>>
           /\ \/ server' = [server EXCEPT !.db = IF end = "READY" /\ dbNumber # 0 THEN dbNumber ELSE @]
              \/ end = "READY" /\ dbNumber = 0 /\ server' = server
  <2>1. QuietAgree
    BY <1>2, <1>5 DEF Agree, Whole, Quiet
  <2>2. /\ server'.tx = server.tx /\ server'.watch = server.watch
        /\ server'.db = IF end = "READY" /\ dbNumber # 0 THEN dbNumber ELSE server.db
    BY <1>2, <1>5 DEF Servers
  <2>3. QuietAgree'
    BY <1>1, <1>2, <1>5, <2>1, <2>2 DEF QuietAgree, Tx
  <2>. QED BY <1>2, <2>3, QuietOnly
<1>. QED BY <1>1, <1>3, <1>4, <1>5 DEF Handshake, net

\* The steps that only touch the object.
LEMMA MethodAgrees ==
  ASSUME TypeOK, PipelineInv, Framed, Agree,
         \/ \E m \in Methods : Call(m)
         \/ Enqueue \/ EnterPipeline \/ EnqueueMarker \/ NothingToDo \/ EmptyPipeline \/ StartWrite
         \/ CheckEofLive \/ CheckEofReconnects
  PROVE  Agree'
<1>1. CASE \E m \in Methods : Call(m)
  <2>1. /\ pc = "idle" /\ pc' \in {"ready", "open"} /\ UNCHANGED <<sock, net>>
        /\ torn' \in {torn, torn \cup {"leftover"}}
    BY <1>1 DEF Call, Callable
  <2>. QED BY <2>1, QuietKept DEF sock
<1>2. CASE NothingToDo \/ StartWrite \/ CheckEofLive
  <2>1. /\ pc \in {"ready", "check"} /\ pc' \in {"idle", "check", "write"} /\ UNCHANGED <<sock, net, torn>>
    BY <1>2 DEF NothingToDo, StartWrite, CheckEofLive, Returns, Goes
  <2>. QED BY <2>1, QuietKept DEF sock
<1>3. CASE Enqueue \/ EnterPipeline \/ EnqueueMarker \/ EmptyPipeline
  <2>1. pc = "ready" /\ pc' = "idle" /\ UNCHANGED <<status, stream, watching, dbNumber, net, torn>>
    BY <1>3 DEF Enqueue, EnterPipeline, EnqueueMarker, EmptyPipeline, Returns
  <2>2. mode # {"MULTI"} /\ mode' # {"MULTI"}
    BY <1>3, <2>1 DEF Enqueue, EnterPipeline, EnqueueMarker, EmptyPipeline, InPipeline, InMulti,
       PipelineInv, PipelineCalls
  <2>. QED BY <2>1, <2>2, QuietKept
<1>4. CASE CheckEofReconnects
  <2>1. /\ pc' = "write" /\ mode' = mode /\ mode # {"MULTI"} /\ status' = "READY" /\ dbNumber' = dbNumber
        /\ NewConnection(dbNumber)
    BY <1>4 DEF CheckEofReconnects, Goes, MayReconnect
  <2>. QED BY <2>1, FreshAgrees
<1>. QED BY <1>1, <1>2, <1>3, <1>4

LEMMA ExecDoneAgrees ==
  ASSUME TypeOK, Framed, Agree, ExecDone
  PROVE  Agree'
<1>1. /\ pc = "execdone" /\ pc' = "idle" /\ UNCHANGED <<status, stream, dbNumber, server, wire, replies, torn>>
  BY DEF ExecDone, Returns, net
<1>2. CASE ~(stream /\ Whole)
  BY <1>1, <1>2, NoClaim DEF Whole
<1>3. CASE stream /\ Whole
  <2>1. QuietAgree
    BY <1>1, <1>3 DEF Agree, Quiet
  <2>2. \/ op.m = "execMulti" /\ mode = {"MULTI"}
        \/ op.m = "execPipe" /\ mode = {"PIPELINE"}
    BY <1>1, <1>3 DEF Framed, Stepped
  <2>3. mode' = {} /\ (watching' = watching \/ op.m = "execMulti")
    BY <2>2 DEF ExecDone
  <2>4. QuietAgree'
    BY <1>1, <2>1, <2>3 DEF QuietAgree, Tx
  <2>. QED BY <1>1, <2>4, QuietOnly
<1>. QED BY <1>2, <1>3

\* The loop of exec() has read all of the replies.
LEMMA EndOfLoopAgrees ==
  ASSUME TypeOK, Framed, Agree, EndOfLoop
  PROVE  Agree'
<1>0. /\ pos \in Nat /\ callbacks \in Seq(Request) /\ Len(callbacks) \in Nat /\ replies \in Seq(Reply)
      /\ Len(replies) \in Nat /\ wire \in Seq(Request) /\ Len(wire) \in Nat
  BY TypeParts DEF CallTypes, SockTypes, NetTypes
<1>1. /\ pc = "element" /\ pc' = "execdone" /\ pos > Len(callbacks)
      /\ UNCHANGED <<status, stream, mode, watching, dbNumber, callbacks, op, server, wire, replies, torn>>
  BY DEF EndOfLoop, Goes, net, sock
<1>2. CASE ~(stream /\ Whole)
  BY <1>1, <1>2, NoClaim DEF Whole
<1>3. CASE stream /\ Whole
  <2>1. LoopAgree /\ pos = Len(callbacks) + 1 /\ status = "READY"
    BY <1>0, <1>1, <1>3 DEF Agree, Loop, LoopAgree, Phased, Framed, Streamed
  <2>2. Off = 0 /\ Nxt = pos /\ Due = 0
    BY <1>0, <1>1, <2>1 DEF Off, Nxt, Due
  <2>3. Len(replies) = 0
    <3> SUFFICES ASSUME Len(replies) # 0 PROVE FALSE
      OBVIOUS
    <3>1. 1 \in 1..Len(replies)
      BY <1>0
    <3>2. Answers(replies[1], pos + 1 - 0 - 1)
      BY <2>1, <2>2, <3>1 DEF LoopAgree, InOrder
    <3>. QED BY <1>0, <1>1, <3>2 DEF Answers
  <2>4. got = NoReply
    BY <1>0, <1>1, <2>1 DEF LoopAgree, Half
  <2>5. Len(wire) = 0
    <3>1. CASE server.alive
      BY <1>0, <2>1, <2>2, <2>3, <3>1 DEF LoopAgree, InOrder, Complete
    <3>2. CASE ~server.alive
      BY <3>2 DEF Framed, Streamed
    <3>. QED BY <3>1, <3>2
  <2>6. Complete
    BY <1>0, <2>2, <2>3, <2>4, <2>5 DEF Complete, NoReply
  <2>7. server.tx = "none"
    <3>1. Len(callbacks) + 1 - Len(wire) = pos
      BY <1>0, <2>1, <2>5
    <3>. QED BY <1>1, <2>1, <2>6, <3>1 DEF LoopAgree, LoopTx, Phased
  <2>8. server.watch => watching /\ op.m # "execMulti"
    BY <2>1, <2>3, <2>6 DEF LoopAgree, LoopWatch, WatchKnown
  <2>9. torn = {} => server.db = dbNumber
    BY <2>1, <2>2, <2>3, <2>6 DEF LoopAgree, LoopDb, Hidden, Recorded
  <2>10. wire = <<>> /\ replies = <<>>
    BY <1>0, <2>3, <2>5
  <2>11. QuietAgree'
    BY <1>1, <2>1, <2>7, <2>8, <2>9, <2>10 DEF QuietAgree
  <2>. QED BY <1>1, <2>11, QuietOnly
<1>. QED BY <1>2, <1>3

\* exec() or another method has written.
LEMMA WriteRawAgrees ==
  ASSUME TypeOK, PipelineInv, Framed, Blocks, Agree, WriteRaw
  PROVE  Agree'
<1>0. /\ callbacks \in Seq(Request) /\ Len(callbacks) \in Nat /\ op.req \in Request
  BY TypeParts DEF CallTypes, SockTypes, Ops
<1>1. /\ pc = "write" /\ UNCHANGED <<sock, op, left, got, server, replies, torn>>
      /\ wire' = (IF server.alive THEN wire \o Out ELSE wire)
  BY DEF WriteRaw
<1>2. CASE ~(stream /\ Whole)
  BY <1>1, <1>2, NoClaim DEF Whole, sock
<1>3. CASE stream /\ Whole
  <2>1. /\ QuietAgree /\ got = NoReply /\ status = "READY"
        /\ wire = <<>> /\ replies = <<>> /\ Tx /\ (server.watch => watching)
        /\ (torn = {} => server.db = dbNumber)
    BY <1>1, <1>3 DEF Agree, Quiet, QuietAgree, Framed, Stepped, Streamed
  <2>2. Out \in Seq(Request)
    BY <1>0, TypeParts DEF Out, SockTypes
  <2>3. wire' = IF server.alive THEN Out ELSE <<>>
    BY <1>1, <2>1, <2>2
  <2>4. CASE op.m # "execPipe"
    <3>1. /\ pc' = (IF op.m = "execMulti" THEN "exec" ELSE "reply") /\ Out = <<op.req>>
      BY <2>4 DEF WriteRaw, Out
    <3>2. server.alive => Asked'
      BY <1>1, <2>1, <2>3, <3>1 DEF Asked, Tx, sock
    <3>3. ~server.alive => Lost'
      BY <1>1, <2>1, <2>3 DEF Lost
    <3>4. op.m = "execMulti" => Unmarked
      <4>1. op.m = "execMulti" => mode = {"MULTI"}
        BY <1>1, <1>3 DEF Framed, Stepped
      <4>. QED BY <2>1, <4>1 DEF Tx, Framed, QueueFits, Unmarked
    <3>5. pc' = "exec" => Unmarked'
      BY <1>1, <3>1, <3>4 DEF Unmarked, sock
    <3>6. OneAgree'
      BY <3>2, <3>3, <3>5 DEF OneAgree
    <3>. QED BY <3>1, <3>6 DEF Agree, Quiet, Loop
  <2>5. CASE op.m = "execPipe"
    <3>1. pc' = "element" /\ Out = pipelineCmd /\ pos' = 1
      BY <2>5 DEF WriteRaw, Out
    <3>2. mode = {"PIPELINE"} /\ callbacks = pipelineCmd
      BY <1>1, <1>3, <2>5 DEF Framed, Stepped, PipelineInv, InPipeline, Intact, Whole
    <3>3. wire' = IF server.alive THEN callbacks ELSE <<>>
      BY <2>3, <3>1, <3>2
    <3>4. server.tx = "none"
      BY <2>1, <3>2 DEF Tx
    <3>5. /\ callbacks' = callbacks /\ server' = server /\ replies' = <<>> /\ got' = NoReply /\ op' = op
          /\ watching' = watching /\ dbNumber' = dbNumber /\ torn' = torn
      BY <1>1, <2>1 DEF sock
    <3>6. /\ Off' = 0 /\ Nxt' = 1 /\ Due' = Len(callbacks) /\ Len(replies') = 0
      BY <1>0, <3>1, <3>5 DEF Off, Nxt, Due
    <3>7. Half'
      BY <3>5 DEF Half
    <3>8. ~InBlock(callbacks, 1)
      BY DEF InBlock
    <3>9. Phased'
      BY <1>0, <2>5, <3>1, <3>5, <3>8 DEF Phased
    <3>10. Len(wire') = IF server.alive THEN Len(callbacks) ELSE 0
      BY <3>3
    <3>11. Complete' <=> Len(wire') = Len(callbacks)
      BY <1>0, <3>5, <3>6, <3>10 DEF Complete, NoReply
    <3>12. InOrder'
      <4>1. CASE server.alive
        <5>1. /\ wire' = callbacks /\ Len(wire') = Len(callbacks)
              /\ \A i \in 1..Len(callbacks) : Len(callbacks) - Len(callbacks) + i = i
          BY <1>0, <3>3, <4>1
        <5>2. \A i \in 1..Len(wire') : wire'[i] = callbacks'[Len(callbacks') - Len(wire') + i]
          BY <3>5, <5>1
        <5>. QED BY <1>0, <3>5, <3>6, <3>11, <5>1, <5>2 DEF InOrder
      <4>2. CASE ~server.alive
        BY <1>0, <3>3, <3>5, <3>6, <4>2 DEF InOrder
      <4>. QED BY <4>1, <4>2
    <3>13. Complete' => LoopTx'
      <4>1. Len(wire') = Len(callbacks) => Len(callbacks) + 1 - Len(wire') = 1
        BY <1>0
      <4>. QED BY <3>4, <3>5, <3>8, <3>11, <4>1 DEF LoopTx
    <3>14. LoopWatch' /\ LoopDb'
      BY <2>1, <2>5, <3>5, <3>6 DEF LoopWatch, LoopDb, WatchKnown, Recorded
    <3>15. LoopAgree'
      BY <3>7, <3>9, <3>12, <3>13, <3>14 DEF LoopAgree
    <3>. QED BY <3>1, <3>15 DEF Agree, Quiet, Loop
  <2>. QED BY <2>4, <2>5
<1>. QED BY <1>2, <1>3

-----------------------------------------------------------------------------
(* A method reads its reply. *)

\* What is on the stream when a method reads it.
LEMMA ReplyArrived ==
  ASSUME TypeOK, Framed, Agree, Whole, pc \in {"reply", "exec"}, ReadsIt \/ ReadBulkHeader,
         NEW h, h = replies[1]
  PROVE  /\ stream /\ status = "READY" /\ wire = <<>> /\ UNCHANGED <<server, wire>>
         /\ Answer /\ h \in Reply /\ Fits(h) /\ h.for = op.req /\ Head(replies) = h
         /\ h.elems \in Seq(Element) /\ Len(h.elems) \in Nat
         /\ h.kind = "bulk" => Len(replies') = 1 /\ replies'[1] = [h EXCEPT !.kind = "payload"]
         /\ h.kind # "bulk" => replies' = h.elems
<1>0. /\ stream /\ replies # <<>> /\ replies' = Rest /\ UNCHANGED <<server, wire>>
      /\ replies \in Seq(Reply) /\ Len(replies) \in Nat
  BY TypeParts, TakenFits DEF NetTypes
<1>1. status = "READY"
  BY <1>0 DEF Framed, Streamed
<1>2. Answer
  BY <1>0 DEF Agree, OneAgree, Asked, Lost
<1>3. /\ Head(replies) = h /\ Len(replies) = 1 /\ h \in Reply /\ Fits(h) /\ h.for = op.req /\ wire = <<>>
  BY <1>0, <1>2 DEF Answer, Framed, RepliesFit
<1>4. h.elems \in Seq(Element) /\ Len(h.elems) \in Nat
  BY <1>3 DEF Reply
<1>5. /\ h.kind = "bulk" => Len(replies') = 1 /\ replies'[1] = [h EXCEPT !.kind = "payload"]
      /\ h.kind # "bulk" => /\ Len(replies') = Len(h.elems) + 1 - 1
                            /\ \A i \in 1..Len(h.elems) : replies'[i] = h.elems[i]
  BY <1>0, <1>3, RestParts
<1>6. replies' \in Seq(Reply) /\ h.elems \in Seq(Reply)
  BY <1>0, <1>4, RestType, ElementsAreReplies
<1>7. h.kind # "bulk" => replies' = h.elems
  <2> DEFINE e == h.elems
  <2>1. e \in Seq(Reply) /\ Len(e) \in Nat
    BY <1>4, <1>6
  <2> HIDE DEF e
  <2>2. h.kind # "bulk" => Len(replies') = Len(e) /\ \A i \in 1..Len(e) : replies'[i] = e[i]
    BY <1>5, <2>1 DEF e
  <2>3. h.kind # "bulk" => replies' = e
    BY <1>6, <2>1, <2>2, SeqEqual
  <2>. QED BY <2>3 DEF e
<1>. QED BY <1>0, <1>1, <1>2, <1>3, <1>4, <1>5, <1>7

LEMMA RequestOfReply ==
  ASSUME TypeOK, Framed, pc = "reply"
  PROVE  /\ op.m \in Replied1 /\ op.m \in AllMethods /\ op.req \in Requested(op.m) /\ op.req.cmd # "EXEC"
         /\ op.req.cmd = "RESET" => op.m = "reset"
         /\ op.req.cmd = "SELECT" <=> op.m = "select"
         /\ op.m \in Queueing => (op.req.cmd = "WATCH" <=> op.m = "watch")
         /\ op.m \in Queueing => (op.req.cmd = "UNWATCH" <=> op.m = "unwatch")
<1>1. op.m \in Replied1 /\ op.m \in AllMethods /\ op.req \in Requested(op.m)
  BY DEF Framed, Stepped, Replied1, Queueing, AllMethods
<1>. QED BY <1>1, QueueingCmds DEF Replied1, Queueing

\* The last of the reply to a method is read: it says what the server did.
LEMMA OneReply ==
  ASSUME TypeOK, Framed, Agree, Whole, pc = "reply", ReadsIt
  PROVE  /\ stream /\ status = "READY" /\ wire' = <<>> /\ replies' = <<>> /\ server' = server
         /\ Told(TheReply) /\ TheReply.kind # "array"
         /\ TheReply.kind = "reset" => op.m = "reset"
<1> DEFINE h == replies[1]
<1>0. /\ stream /\ status = "READY" /\ wire' = <<>> /\ server' = server
      /\ Answer /\ h \in Reply /\ Fits(h) /\ h.for = op.req /\ Head(replies) = h
      /\ h.kind # "bulk" => replies' = h.elems
  BY ReplyArrived
<1>1. op.req.cmd # "EXEC" /\ (op.req.cmd = "RESET" => op.m = "reset")
  BY RequestOfReply
<1>2. h.kind # "array" /\ h.n = 0 /\ h.elems = <<>> /\ (h.kind = "reset" => op.req.cmd = "RESET")
  BY <1>0, <1>1 DEF Fits, Plain
<1>3. h.kind # "header" => Entire(h)
  <2>1. Len(h.elems) = 0
    BY <1>2
  <2>. QED BY <1>2, <2>1 DEF Entire
<1>4. CASE got # NoReply
  BY <1>0, <1>2, <1>3, <1>4 DEF Answer, TheReply
<1>5. CASE got = NoReply
  <2>1. TheReply = h /\ h.kind \notin {"bulk", "header"}
    BY <1>0, <1>5 DEF ReadsIt, TheReply, SockGets
  <2>. QED BY <1>0, <1>1, <1>2, <1>3, <2>1 DEF Answer
<1>. QED BY <1>4, <1>5

LEMMA OneReadAgrees ==
  ASSUME TypeOK, Framed, Emptied, Agree,
         ReadAnswer \/ ReadQueued \/ ReadMulti \/ ReadDiscard \/ ReadReset \/ ReadFarewell
  PROVE  Agree'
<1>0. pc = "reply" /\ ReadsIt /\ torn' = torn /\ mode \subseteq {"MULTI", "PIPELINE"}
  BY TypeParts DEF ReadAnswer, ReadQueued, ReadMulti, ReadDiscard, ReadReset, ReadFarewell, SockTypes
<1>1. CASE ~Whole
  BY <1>0, <1>1, NoClaim DEF Whole
<1>2. CASE ReadFarewell
  BY <1>2, NoClaim DEF ReadFarewell
<1>3. CASE Whole /\ (ReadAnswer \/ ReadQueued \/ ReadMulti \/ ReadDiscard \/ ReadReset)
  <2> DEFINE r == TheReply
  <2>1. /\ stream /\ status = "READY" /\ wire' = <<>> /\ replies' = <<>> /\ server' = server
        /\ Told(r) /\ r.kind # "array" /\ (r.kind = "reset" => op.m = "reset")
    BY <1>0, <1>3, OneReply
  <2>2. pc' = "idle"
    BY <1>3 DEF ReadAnswer, ReadQueued, ReadMulti, ReadDiscard, ReadReset, Returns
  <2>3. /\ op.m \in {"discard", "destruct"} => mode = {"MULTI"}
        /\ op.m = "multi" => Atomic
        /\ op.m \in Queueing \cup {"reset"} => ~InPipeline
    BY <1>0, <2>1 DEF Framed, Stepped
  <2>4. /\ op.req.cmd = "SELECT" <=> op.m = "select"
        /\ op.m \in Queueing => (op.req.cmd = "WATCH" <=> op.m = "watch")
        /\ op.m \in Queueing => (op.req.cmd = "UNWATCH" <=> op.m = "unwatch")
    BY <1>0, RequestOfReply
  <2> HIDE DEF r
  <2>5. ToldTx(r) /\ ToldWatch(r) /\ (torn = {} => ToldDb(r))
    BY <2>1 DEF Told
  <2>6. CASE ReadAnswer
    <3>1. /\ op.m \in Queueing /\ Atomic /\ Answered(op.req, r) /\ UNCHANGED <<mode, status>>
      BY <2>6 DEF ReadAnswer, r
    <3>2. server.tx = "none" /\ r.kind # "queued" /\ r.kind # "reset"
      BY <2>1, <2>5, <3>1 DEF ToldTx, Queueing
    <3>3. Tx'
      BY <2>1, <3>1, <3>2 DEF Tx, Atomic
    <3>4. server.watch => watching'
      BY <2>4, <2>5, <3>1, <3>2 DEF ToldWatch, Answered, Positive, Queueing
    <3>5. torn = {} => server.db = dbNumber'
      BY <2>1, <2>4, <2>5, <3>1, <3>2 DEF ToldDb, Answered, Positive, Queueing
    <3>6. QuietAgree'
      BY <1>0, <2>1, <2>2, <3>1, <3>3, <3>4, <3>5 DEF QuietAgree
    <3>. QED BY <2>2, <3>6, QuietOnly
  <2>7. CASE ReadQueued
    <3>1. /\ op.m \in Queueing /\ ~Atomic /\ UNCHANGED <<mode, status, watching, dbNumber>>
          /\ callbacks' = IF r.kind = "queued" THEN Append(callbacks, op.req) ELSE callbacks
      BY <2>7 DEF ReadQueued, r
    <3>2. mode = {"MULTI"}
      BY <1>0, <2>3, <3>1 DEF Atomic, InPipeline
    <3>3. /\ server.tx # "none" /\ r.kind # "ok" /\ r.kind # "reset"
          /\ server.queue = callbacks'
      BY <2>1, <2>5, <3>1 DEF ToldTx, Queueing
    <3>4. Tx'
      BY <2>1, <3>1, <3>2, <3>3 DEF Tx
    <3>5. server.watch => watching
      BY <2>5, <3>1, <3>3 DEF ToldWatch, Queueing
    <3>6. torn = {} => server.db = dbNumber
      BY <2>1, <2>5, <3>3 DEF ToldDb
    <3>7. QuietAgree'
      BY <1>0, <2>1, <2>2, <3>1, <3>4, <3>5, <3>6 DEF QuietAgree
    <3>. QED BY <2>2, <3>7, QuietOnly
  <2>8. CASE ReadMulti
    <3>1. /\ op.m = "multi" /\ UNCHANGED <<status, watching, dbNumber, callbacks>>
          /\ mode' = IF r.kind = "ok" THEN mode \cup {"MULTI"} ELSE mode
      BY <2>8 DEF ReadMulti, r
    <3>2. r.kind = "ok" /\ server.tx # "none" /\ server.queue = <<>>
      BY <2>5, <3>1 DEF ToldTx
    <3>3. callbacks = <<>> /\ mode' = {"MULTI"}
      BY <1>0, <1>3, <2>3, <3>1, <3>2 DEF Emptied, Whole, Atomic
    <3>4. Tx'
      BY <2>1, <3>1, <3>2, <3>3 DEF Tx
    <3>5. (server.watch => watching) /\ (torn = {} => server.db = dbNumber)
      BY <2>5, <3>1, <3>2 DEF ToldWatch, ToldDb
    <3>6. QuietAgree'
      BY <1>0, <2>1, <2>2, <3>1, <3>4, <3>5 DEF QuietAgree
    <3>. QED BY <2>2, <3>6, QuietOnly
  <2>9. CASE ReadDiscard
    <3>1. op.m = "discard" /\ UNCHANGED <<status, watching, dbNumber>>
      BY <2>9 DEF ReadDiscard
    <3>2. r.kind = "ok" /\ server.tx = "none"
      BY <2>5, <3>1 DEF ToldTx
    <3>3. mode' = {}
      BY <2>9, <3>2 DEF ReadDiscard, r
    <3>4. (server.watch => watching) /\ (torn = {} => server.db = dbNumber)
      BY <2>5, <3>1, <3>2 DEF ToldWatch, ToldDb
    <3>5. QuietAgree'
      BY <1>0, <2>1, <2>2, <3>1, <3>2, <3>3, <3>4 DEF QuietAgree, Tx
    <3>. QED BY <2>2, <3>5, QuietOnly
  <2>10. CASE ReadReset
    <3>1. op.m = "reset"
      BY <2>10 DEF ReadReset
    <3>2. CASE r.kind = "reset"
      <4>1. status' = "CONNECTED" /\ mode' = {}
        BY <2>10, <3>2 DEF ReadReset, r
      <4>2. server.tx = "none" /\ ~server.watch /\ (torn = {} => server.db = 0)
        BY <2>5, <3>1, <3>2 DEF ToldTx, ToldWatch, ToldDb
      <4>3. QuietAgree'
        BY <1>0, <2>1, <2>2, <4>1, <4>2 DEF QuietAgree, Tx
      <4>. QED BY <2>2, <4>3, QuietOnly
    <3>3. CASE r.kind # "reset"
      <4>1. UNCHANGED <<callbacks, status, mode, dbNumber, watching>>
        BY <2>10, <3>3 DEF ReadReset, r
      <4>2. Tx /\ (server.watch => watching) /\ (torn = {} => server.db = dbNumber)
        BY <2>1, <2>5, <3>1, <3>3 DEF ToldTx, ToldWatch, ToldDb
      <4>3. QuietAgree'
        BY <1>0, <2>1, <2>2, <4>1, <4>2 DEF QuietAgree, Tx
      <4>. QED BY <2>2, <4>3, QuietOnly
    <3>. QED BY <3>2, <3>3
  <2>. QED BY <1>3, <2>6, <2>7, <2>8, <2>9, <2>10
<1>. QED BY <1>1, <1>2, <1>3

\* The header of a bulk reply to a method is read, and its payload is to follow.
LEMMA OneHeaderAgrees ==
  ASSUME TypeOK, Framed, Framed', Agree, Whole, pc = "reply", ReadBulkHeader
  PROVE  Agree'
<1> DEFINE h == replies[1]
<1>0. /\ wire' = <<>> /\ UNCHANGED <<server, wire>>
      /\ Answer /\ h \in Reply /\ Fits(h) /\ h.for = op.req /\ Head(replies) = h
      /\ h.kind = "bulk" => Len(replies') = 1 /\ replies'[1] = [h EXCEPT !.kind = "payload"]
      /\ h.kind # "bulk" => replies' = h.elems
  BY ReplyArrived
<1>1. /\ UNCHANGED <<sock, pc, op, pos, left, torn>> /\ got = NoReply /\ got' = h /\ h.kind \in {"bulk", "header"}
  BY <1>0 DEF ReadBulkHeader
<1>2. h.n = 0 /\ h.elems = <<>> /\ Len(h.elems) = 0
  <2>1. h.n = 0 /\ h.elems = <<>>
    BY <1>0, <1>1 DEF Fits, Plain
  <2>. QED BY <2>1
<1>3. OneAgree'
  <2>1. CASE h.kind = "header"
    <3>1. ~server.alive
      <4>1. replies[1].kind # "header" \/ ~server.alive
        BY <1>0 DEF Answer, Entire
      <4>. QED BY <2>1, <4>1
    <3>2. Lost'
      BY <1>0, <1>2, <2>1, <3>1 DEF Lost
    <3>. QED BY <1>1, <3>2 DEF OneAgree
  <2>2. CASE h.kind = "bulk"
    <3> DEFINE p == [h EXCEPT !.kind = "payload"]
    <3>1. p.for = op.req /\ p.kind = "payload" /\ p.n = 0 /\ p.elems = <<>> /\ Len(p.elems) = 0
      BY <1>0, <1>2 DEF Reply
    <3>2. Len(replies') = 1 /\ replies'[1] = p
      BY <1>0, <2>2
    <3>3. Entire(p) /\ Entire(h)
      BY <1>2, <2>2, <3>1 DEF Entire
    <3>4. Told(h)
      <4>1. TheReply = h
        BY <1>0, <1>1 DEF TheReply
      <4>. QED BY <1>0, <3>3, <4>1 DEF Answer
    <3> HIDE DEF p, h
    <3>5. h # NoReply
      BY <2>2 DEF NoReply
    <3>6. TheReply' = h
      BY <1>1, <3>5 DEF TheReply
    <3>7. UNCHANGED <<server, op, mode, callbacks, watching, dbNumber, torn>>
      BY <1>0, <1>1 DEF sock
    <3>8. Told(TheReply)'
      BY <2>2, <3>4, <3>6, <3>7 DEF Told, ToldTx, ToldWatch, ToldDb, Tx, Atomic
    <3>9. Answer'
      BY <1>0, <1>1, <2>2, <3>1, <3>2, <3>3, <3>8 DEF Answer
    <3>. QED BY <1>1, <3>9 DEF OneAgree
  <2>. QED BY <1>1, <2>1, <2>2
<1>. QED BY <1>1, <1>3 DEF Agree, Quiet, Loop

\* exec() has the header of its array, and goes on to the elements.
LEMMA ReadExecAgrees ==
  ASSUME TypeOK, Framed, Agree, Whole, ReadExec
  PROVE  Agree'
<1> DEFINE h == replies[1]
<1>0. /\ pc = "exec" /\ ReadsIt /\ UNCHANGED <<sock, op, left, got, torn>>
      /\ op.m = "execMulti" /\ op.req.cmd = "EXEC" /\ got = NoReply
  BY DEF ReadExec, Framed, Stepped, Req
<1>1. /\ stream /\ status = "READY" /\ wire' = <<>> /\ UNCHANGED <<server, wire>>
      /\ Answer /\ h \in Reply /\ Fits(h) /\ h.for = op.req /\ Head(replies) = h
      /\ h.elems \in Seq(Element) /\ Len(h.elems) \in Nat
      /\ h.kind # "bulk" => replies' = h.elems
  BY <1>0, ReplyArrived
<1>2. /\ h.kind \notin {"bulk", "header", "reset", "ok"} /\ replies' = h.elems /\ TheReply = h
  BY <1>0, <1>1 DEF Fits, Plain, TheReply
<1>3. /\ Unmarked /\ callbacks \in Seq(Request) /\ Len(callbacks) \in Nat
  BY <1>0, <1>1, TypeParts DEF Agree, OneAgree, SockTypes
<1>4. \A k \in 1..Len(callbacks)+1 : ~InBlock(callbacks, k)
  <2> SUFFICES ASSUME NEW k \in 1..Len(callbacks)+1, NEW i \in 1..k-1 PROVE callbacks[i].cmd # "MULTI"
    BY DEF InBlock
  <2>1. i \in 1..Len(callbacks)
    BY <1>3
  <2>. QED BY <1>3, <2>1 DEF Unmarked
<1>5. \A j \in 1..Len(h.elems) : /\ h.elems[j] \in Element /\ Inner(h.elems[j])
                                 /\ h.elems[j].kind # "header" <=> Entire(h.elems[j])
  <2>1. \A j \in 1..Len(h.elems) : h.elems[j] \in Element /\ Inner(h.elems[j])
    BY <1>1 DEF Fits
  <2>. QED BY <2>1, ElementFits DEF Entire
<1>6. Entire(h) => /\ server.tx = "none" /\ ~server.watch
                   /\ torn = {} => IF h.kind = "array" THEN Recorded(h.elems, 1) ELSE server.db = dbNumber
  <2>1. Entire(h) => Told(h)
    BY <1>1, <1>2 DEF Answer
  <2>. QED BY <1>0, <1>2, <2>1 DEF Told, ToldTx, ToldWatch, ToldDb
<1>7. CASE h.kind = "array" /\ callbacks # <<>>
  <2>1. pc' = "element" /\ pos' = 1
    BY <1>2, <1>7 DEF ReadExec
  <2>2. /\ h.n = Len(callbacks) /\ Len(h.elems) \in 0..Len(callbacks)
        /\ \A j \in 1..Len(h.elems) : h.elems[j].for = callbacks[j]
        /\ server.alive => Entire(h)
    BY <1>1, <1>3, <1>7 DEF Answer, Fits
  <2>3. /\ Off' = 0 /\ Nxt' = 1 /\ Due' = Len(callbacks)
    BY <1>0, <1>3, <2>1 DEF Off, Nxt, Due, sock
  <2>4. Half'
    BY <1>0 DEF Half
  <2>5. Phased'
    BY <1>0, <1>1, <1>3, <1>4, <2>1 DEF Phased, Unmarked, sock
  <2>6. Entire(h) => Complete'
    <3>1. Entire(h) => Len(h.elems) = Len(callbacks) /\ \A j \in 1..Len(h.elems) : h.elems[j].kind # "header"
      BY <2>2 DEF Entire
    <3>2. Len(wire') = 0 /\ got'.kind # "header"
      BY <1>0, <1>1 DEF NoReply
    <3>. QED BY <1>1, <1>2, <1>3, <1>5, <2>3, <3>1, <3>2 DEF Complete
  <2>7. Complete' => Entire(h)
    <3>1. Len(wire') = 0
      BY <1>1
    <3>2. Complete' => Len(h.elems) = Len(callbacks) /\ \A j \in 1..Len(h.elems) : h.elems[j].kind # "header"
      BY <1>1, <1>2, <1>3, <1>5, <2>3, <3>1 DEF Complete
    <3>. QED BY <1>2, <2>2, <3>2 DEF Entire
  <2>8. InOrder'
    <3>1. \A i \in 1..Len(replies') :
             /\ i <= Len(callbacks) /\ replies'[i].for = callbacks[i]
             /\ replies'[i].kind # "queued" /\ ~InBlock(callbacks, i)
      <4> SUFFICES ASSUME NEW i \in 1..Len(replies')
                   PROVE  /\ i <= Len(callbacks) /\ replies'[i].for = callbacks[i]
                          /\ replies'[i].kind # "queued" /\ ~InBlock(callbacks, i)
        OBVIOUS
      <4>1. /\ i \in 1..Len(h.elems) /\ i \in 1..Len(callbacks) /\ i \in 1..Len(callbacks)+1
            /\ replies'[i] = h.elems[i]
        BY <1>2, <1>3, <2>2
      <4>2. h.elems[i].for = callbacks[i] /\ h.elems[i].kind # "queued"
        BY <1>5, <2>2, <4>1 DEF Inner
      <4>. QED BY <1>3, <1>4, <4>1, <4>2
    <3>2. Len(wire') = 0 /\ server' = server /\ callbacks' = callbacks
      BY <1>0, <1>1 DEF sock
    <3>3. \A i \in 1..Len(replies') : Nxt' + i - Off' - 1 = i /\ ~(i <= Off')
      BY <2>3
    <3>4. server'.alive => Complete'
      BY <2>2, <2>6, <3>2
    <3>5. \A i \in 1..Len(wire') : FALSE
      BY <3>2
    <3> HIDE DEF h
    <3>. QED BY <1>3, <3>1, <3>2, <3>3, <3>4, <3>5 DEF InOrder, Answers
  <2>9. Complete' => LoopTx' /\ LoopWatch' /\ LoopDb'
    <3> SUFFICES ASSUME Complete' PROVE LoopTx' /\ LoopWatch' /\ LoopDb'
      OBVIOUS
    <3>1. server'.tx = "none" /\ ~server'.watch /\ (torn = {} => Recorded(h.elems, 1))
      BY <1>1, <1>6, <1>7, <2>7
    <3>2. Len(callbacks) + 1 - Len(wire') = Len(callbacks) + 1
      BY <1>1, <1>3
    <3>3. LoopTx'
      BY <1>0, <1>3, <1>4, <3>1, <3>2 DEF LoopTx, sock
    <3>4. Off' + 1 = 1
      BY <2>3
    <3>5. LoopDb'
      BY <1>0, <1>1, <1>2, <3>1, <3>4 DEF LoopDb, Recorded, sock
    <3>. QED BY <3>1, <3>3, <3>5 DEF LoopWatch
  <2>10. LoopAgree'
    BY <2>4, <2>5, <2>8, <2>9 DEF LoopAgree
  <2>. QED BY <2>1, <2>10 DEF Agree, Quiet, Loop
<1>8. CASE ~(h.kind = "array" /\ callbacks # <<>>)
  <2>1. pc' = "execdone" /\ h.n = 0 /\ h.elems = <<>> /\ Len(h.elems) = 0
    <3>1. pc' = "execdone"
      BY <1>2, <1>8 DEF ReadExec
    <3>2. h.kind = "array" => h.n = 0
      BY <1>1, <1>8 DEF Answer
    <3>3. Len(h.elems) = 0
      BY <1>1, <3>2 DEF Fits, Plain
    <3>. QED BY <1>1, <3>1, <3>2, <3>3 DEF Fits, Plain
  <2>2. Entire(h)
    BY <1>2, <2>1 DEF Entire
  <2>3. torn = {} => server.db = dbNumber
    BY <1>6, <2>1, <2>2 DEF Recorded
  <2>4. QuietAgree'
    BY <1>0, <1>1, <1>2, <1>6, <2>1, <2>2, <2>3 DEF QuietAgree, sock
  <2>. QED BY <2>1, <2>4, QuietOnly
<1>. QED BY <1>7, <1>8

-----------------------------------------------------------------------------
(* The server handles a command, or closes the connection. *)

LEMMA TouchesAgrees ==
  ASSUME TypeOK, Agree, ServerTouches
  PROVE  Agree'
<1>1. /\ UNCHANGED <<status, stream, mode, watching, dbNumber, callbacks, pc, op, pos, left, got,
                     wire, replies, torn>>
      /\ server'.alive = server.alive /\ server'.tx = server.tx /\ server'.queue = server.queue
      /\ server'.watch = server.watch /\ server'.db = server.db
  BY TypeParts DEF ServerTouches, NetTypes, Servers, sock, call
<1>2. QuietAgree => QuietAgree'
  BY <1>1 DEF QuietAgree, Tx
<1>3. OneAgree => OneAgree'
  <2>1. Asked => Asked'
    BY <1>1 DEF Asked, Tx
  <2>2. Lost => Lost'
    BY <1>1 DEF Lost
  <2>3. TheReply' = TheReply
    BY <1>1 DEF TheReply
  <2>4. Told(TheReply) => Told(TheReply)'
    BY <1>1, <2>3 DEF Told, ToldTx, ToldWatch, ToldDb, Recorded, Tx, Atomic
  <2>5. Answer => Answer'
    BY <1>1, <2>4 DEF Answer
  <2>. QED BY <1>1, <2>1, <2>2, <2>5 DEF OneAgree, Unmarked
<1>4. LoopAgree => LoopAgree'
  <2>1. Off' = Off /\ Nxt' = Nxt /\ Due' = Due
    BY <1>1 DEF Off, Nxt, Due
  <2>2. (Half => Half') /\ (Phased => Phased') /\ (Complete' <=> Complete)
    BY <1>1, <2>1 DEF Half, Phased, Complete, Unmarked
  <2>3. InOrder => InOrder'
    BY <1>1, <2>1, <2>2 DEF InOrder, Answers
  <2>4. (LoopTx => LoopTx') /\ (LoopWatch => LoopWatch') /\ (LoopDb => LoopDb')
    BY <1>1, <2>1 DEF LoopTx, LoopWatch, LoopDb, WatchKnown, Hidden, Recorded
  <2>. QED BY <2>2, <2>3, <2>4 DEF LoopAgree
<1>. QED BY <1>1, <1>2, <1>3, <1>4 DEF Agree, Whole, Quiet, Loop

\* The command of a method is answered.
LEMMA OneHandled ==
  ASSUME TypeOK, Framed, Agree, Whole, stream, pc \in {"reply", "exec"}, NEW r \in Reply, Handles1(r)
  PROVE  Agree'
<1> DEFINE q == op.req
<1>0. /\ server.alive /\ wire # <<>> /\ server' \in Servers /\ server'.alive
      /\ Fits(r) /\ Entire(r) /\ r.for = Head(wire) /\ Handled(Head(wire), r)
      /\ wire' = Tail(wire) /\ replies' = Append(replies, r) /\ op.req \in Request
      /\ UNCHANGED <<status, stream, mode, watching, dbNumber, callbacks, pc, op, pos, left, got, torn>>
      /\ mode \subseteq {"MULTI", "PIPELINE"}
  BY TypeParts DEF Handles1, Replied, sock, call, CallTypes, Ops, SockTypes
<1>1. Asked /\ (pc = "exec" => Unmarked)
  BY <1>0 DEF Agree, OneAgree, Lost, Answer
<1>2. /\ wire' = <<>> /\ replies' = <<r>> /\ r.for = op.req /\ Handled(op.req, r)
      /\ got = NoReply /\ Tx /\ (server.watch => watching) /\ (torn = {} => server.db = dbNumber)
  BY <1>0, <1>1 DEF Asked
<1>3. Len(replies') = 1 /\ replies'[1] = r /\ Head(replies') = r
  BY <1>2
<1>4. /\ op.m \in {"execMulti", "discard", "destruct"} => mode = {"MULTI"}
      /\ op.m = "multi" => Atomic
      /\ op.m \in Queueing \cup {"reset"} => ~InPipeline
      /\ op.m \in Replied1 \cup {"execMulti"}
      /\ op.m = "execMulti" => op.req.cmd = "EXEC"
  BY <1>0 DEF Framed, Stepped, Req
<1>5. /\ op.m = "select" <=> q.cmd = "SELECT"
      /\ op.m = "watch" <=> q.cmd = "WATCH"
      /\ op.m = "unwatch" <=> q.cmd = "UNWATCH"
      /\ op.m = "multi" <=> q.cmd = "MULTI"
      /\ op.m = "reset" <=> q.cmd = "RESET"
      /\ op.m = "execMulti" <=> q.cmd = "EXEC"
      /\ op.m \in {"discard", "destruct"} <=> q.cmd = "DISCARD"
      /\ op.m \in Queueing <=> q.cmd \in Ordinary
  <2>1. CASE op.m = "execMulti"
    BY <1>4, <2>1 DEF Queueing, Ordinary
  <2>2. CASE op.m \in Replied1
    <3>1. op.m \in AllMethods /\ op.req \in Requested(op.m)
      BY <2>2 DEF Framed, Stepped, Replied1, Queueing, AllMethods
    <3>. QED BY <2>2, <3>1, QueueingCmds DEF Replied1, Queueing, Ordinary
  <2>. QED BY <1>4, <2>1, <2>2
<1> HIDE DEF q
<1>6. /\ r.kind = "reset" => q.cmd = "RESET"
      /\ r.kind = "array" => q.cmd = "EXEC"
      /\ r.kind # "header"
  BY <1>0, <1>2 DEF Fits, Plain, Entire, q
<1>7. Handled(q, r) /\ r.for = q /\ op.req = q
  BY <1>2 DEF q
<1>8. ToldTx(r)'
  <2>1. op.m \in Queueing /\ Atomic => server'.tx = "none" /\ r.kind # "queued"
    BY <1>2, <1>5, <1>7 DEF Handled, Tx, Atomic
  <2>2. op.m \in Queueing /\ ~Atomic =>
       /\ server'.tx # "none" /\ r.kind # "ok"
       /\ server'.queue = IF r.kind = "queued" THEN Append(callbacks, op.req) ELSE callbacks
    <3> SUFFICES ASSUME op.m \in Queueing, ~Atomic
                 PROVE  /\ server'.tx # "none" /\ r.kind # "ok"
                        /\ server'.queue = IF r.kind = "queued" THEN Append(callbacks, op.req) ELSE callbacks
      OBVIOUS
    <3>1. mode = {"MULTI"}
      BY <1>0, <1>4 DEF Atomic, InPipeline
    <3>2. server.tx # "none" /\ callbacks = server.queue
      BY <1>2, <3>1 DEF Tx
    <3>. QED BY <1>5, <1>7, <3>2 DEF Handled
  <2>3. op.m = "multi" => r.kind = "ok" /\ server'.tx # "none" /\ server'.queue = <<>>
    <3>1. op.m = "multi" => server.tx = "none" /\ server.queue = <<>>
      BY <1>2, <1>4 DEF Tx, Atomic, Framed, QueueFits
    <3>. QED BY <1>5, <1>7, <3>1 DEF Handled
  <2>4. op.m = "discard" => r.kind = "ok" /\ server'.tx = "none"
    BY <1>2, <1>4, <1>5, <1>7 DEF Handled, Tx
  <2>5. op.m = "reset" => IF r.kind = "reset" THEN server'.tx = "none" ELSE Tx'
    BY <1>0, <1>2, <1>5, <1>7 DEF Handled, Tx
  <2>6. op.m = "execMulti" => server'.tx = "none"
    BY <1>5, <1>7 DEF Handled
  <2>. QED BY <1>0, <2>1, <2>2, <2>3, <2>4, <2>5, <2>6 DEF ToldTx, Atomic
<1>9. ToldWatch(r)'
  <2>1. op.m \in {"watch", "unwatch"} /\ r.kind = "ok" => (server'.watch => op.m = "watch")
    BY <1>5, <1>7 DEF Handled, Ordinary
  <2>2. r.kind = "reset" \/ op.m = "execMulti" => ~server'.watch
    BY <1>5, <1>6, <1>7 DEF Handled
  <2>3. ~(op.m \in {"watch", "unwatch"} /\ r.kind = "ok") => (server'.watch => watching)
    BY <1>2, <1>4, <1>5, <1>7 DEF Handled, Ordinary, Replied1
  <2>. QED BY <1>0, <2>1, <2>2, <2>3 DEF ToldWatch
<1>10. (torn = {} => ToldDb(r))'
  <2> SUFFICES ASSUME torn = {} PROVE ToldDb(r)'
    BY <1>0
  <2>0. server.db = dbNumber
    BY <1>2
  <2>1. op.m = "select" /\ r.kind = "ok" => server'.db = op.req.arg
    BY <1>5, <1>7 DEF Handled, Ordinary, Selects
  <2>2. r.kind = "reset" => server'.db = 0
    BY <1>6, <1>7 DEF Handled
  <2>3. r.kind = "array" => Recorded(r.elems, 1)'
    <3> SUFFICES ASSUME r.kind = "array" PROVE Recorded(r.elems, 1)'
      OBVIOUS
    <3>1. \/ \E i \in 1..Len(r.elems) : /\ Selects(r.elems[i]) /\ server'.db = r.elems[i].for.arg
                                        /\ \A j \in i+1..Len(r.elems) : ~Selects(r.elems[j])
          \/ server'.db = server.db /\ \A j \in 1..Len(r.elems) : ~Selects(r.elems[j])
      BY <1>6, <1>7 DEF Handled
    <3>. QED BY <1>0, <2>0, <3>1 DEF Recorded
  <2>4. ~(op.m = "select" /\ r.kind = "ok") /\ r.kind \notin {"reset", "array"} => server'.db = dbNumber
    BY <1>4, <1>5, <1>7, <2>0 DEF Handled, Ordinary, Selects, Replied1
  <2>. QED BY <1>0, <2>1, <2>2, <2>3, <2>4 DEF ToldDb
<1>11. Answer'
  <2>1. r.kind = "array" => /\ r.n = Len(callbacks)
                            /\ \A j \in 1..Len(r.elems) : r.elems[j].for = callbacks[j]
    <3>1. r.kind = "array" => callbacks = server.queue
      BY <1>2, <1>4, <1>5, <1>6 DEF Tx
    <3>. QED BY <1>6, <1>7, <3>1 DEF Handled
  <2>2. TheReply' = r
    BY <1>0, <1>2, <1>3 DEF TheReply
  <2>3. Told(TheReply)'
    BY <1>8, <1>9, <1>10, <2>2 DEF Told, ToldTx, ToldWatch, ToldDb
  <2>. QED BY <1>0, <1>2, <1>3, <2>1, <2>3 DEF Answer
<1>12. OneAgree'
  BY <1>0, <1>1, <1>11 DEF OneAgree, Unmarked
<1>. QED BY <1>0, <1>12 DEF Agree, Quiet, Loop

LEMMA ClosesReplies ==
  TypeOK /\ Shape /\ ServerCloses => replies' \in Seq(Reply)
BY EnvironmentTypes DEF Environment, TypeOK

\* The server closes the connection, and the end of what it sent may be lost.
LEMMA ClosesAgrees ==
  ASSUME TypeOK, Shape, Framed, Agree, ServerCloses
  PROVE  Agree'
<1>0. /\ stream /\ server.alive /\ ~server'.alive /\ wire' = <<>> /\ Len(wire') = 0
      /\ server'.tx = server.tx /\ server'.queue = server.queue
      /\ server'.watch = server.watch /\ server'.db = server.db
      /\ UNCHANGED <<status, stream, mode, watching, dbNumber, callbacks, pc, op, pos, left, got, torn>>
      /\ replies \in Seq(Reply) /\ Len(replies) \in Nat /\ wire \in Seq(Request) /\ Len(wire) \in Nat
      /\ callbacks \in Seq(Request) /\ Len(callbacks) \in Nat /\ pos \in Nat /\ left \in Nat
  BY TypeParts, ClosesParts DEF NetTypes, SockTypes, CallTypes, Servers, sock, call
<1>1. Len(replies') \in 0..Len(replies) /\ \A i \in 1..Len(replies') : Cut(replies'[i], replies[i])
  BY ClosesParts
<1>2. ASSUME NEW i \in 1..Len(replies')
      PROVE  /\ i \in 1..Len(replies)
             /\ replies[i] \in Reply /\ Fits(replies'[i])
             /\ replies'[i].for = replies[i].for /\ replies'[i].n = replies[i].n
             /\ replies'[i].kind = replies[i].kind \/ replies'[i].kind = "header"
             /\ Entire(replies'[i]) => replies'[i] = replies[i]
             /\ Len(replies'[i].elems) \in 0..Len(replies[i].elems)
             /\ \A j \in 1..Len(replies'[i].elems) : replies'[i].elems[j].for = replies[i].elems[j].for
             /\ replies[i].kind = "payload" => replies'[i].kind = "payload"
  <2>1. i \in 1..Len(replies) /\ replies[i] \in Reply /\ Fits(replies[i]) /\ Cut(replies'[i], replies[i])
    BY <1>0, <1>1 DEF Framed, RepliesFit
  <2>2. replies[i].kind = "payload" => replies'[i].kind = "payload"
    BY <2>1 DEF Cut, Reply
  <2>. QED BY <2>1, <2>2, CutFits
<1>3. CASE ~Whole
  BY <1>0, <1>3, NoClaim DEF Whole
<1>4. CASE Whole /\ Quiet
  <2>1. QuietAgree
    BY <1>0, <1>4 DEF Agree
  <2>2. replies' = <<>>
    BY <1>0, <1>1, <2>1, ClosesReplies DEF QuietAgree
  <2>3. QuietAgree'
    BY <1>0, <2>1, <2>2 DEF QuietAgree, Tx
  <2>. QED BY <1>0, <1>4, <2>3, QuietOnly DEF Quiet
<1>5. CASE Whole /\ pc \in {"reply", "exec"}
  <2>1. OneAgree
    BY <1>0, <1>5 DEF Agree
  <2>2. CASE Len(replies') = 0
    <3>1. Lost'
      BY <1>0, <2>2, ClosesReplies DEF Lost
    <3>2. OneAgree'
      BY <1>0, <2>1, <3>1 DEF OneAgree, Unmarked
    <3>. QED BY <1>0, <1>5, <3>2 DEF Agree, Quiet, Loop
  <2>3. CASE Len(replies') # 0
    <3>1. Answer
      <4>1. replies # <<>>
        BY <1>0, <1>1, <2>3
      <4>. QED BY <2>1, <4>1 DEF OneAgree, Asked, Lost
    <3>2. Len(replies) = 1 /\ Len(replies') = 1 /\ 1 \in 1..Len(replies')
      BY <1>1, <2>3, <3>1 DEF Answer
    <3> DEFINE r == replies'[1]
               s == replies[1]
    <3>3. /\ s \in Reply /\ r.for = s.for /\ r.n = s.n /\ (r.kind = s.kind \/ r.kind = "header")
          /\ Entire(r) => r = s
          /\ Len(r.elems) \in 0..Len(s.elems)
          /\ \A j \in 1..Len(r.elems) : r.elems[j].for = s.elems[j].for
          /\ s.kind = "payload" => r.kind = "payload"
      BY <1>2, <3>2
    <3>4. /\ s.for = op.req
          /\ got # NoReply => got.kind = "bulk" /\ s.kind = "payload"
          /\ s.kind = "array" => /\ s.n = Len(callbacks)
                                 /\ \A j \in 1..Len(s.elems) : s.elems[j].for = callbacks[j]
          /\ Entire(s) => Told(TheReply)
      BY <3>1 DEF Answer
    <3>5. Entire(r) => Told(TheReply)'
      <4> SUFFICES ASSUME Entire(r) PROVE Told(TheReply)'
        OBVIOUS
      <4>1. r = s /\ Told(TheReply)
        BY <3>3, <3>4
      <4>2. TheReply' = TheReply
        <5>1. Head(replies') = r /\ Head(replies) = s
          BY <1>0, <3>2, ClosesReplies
        <5>. QED BY <1>0, <4>1, <5>1 DEF TheReply
      <4>. QED BY <1>0, <4>1, <4>2 DEF Told, ToldTx, ToldWatch, ToldDb, Recorded, Tx, Atomic
    <3>6. r.kind = "array" => /\ r.n = Len(callbacks)
                              /\ \A j \in 1..Len(r.elems) : r.elems[j].for = callbacks[j]
      <4> SUFFICES ASSUME r.kind = "array"
                   PROVE  /\ r.n = Len(callbacks)
                          /\ \A j \in 1..Len(r.elems) : r.elems[j].for = callbacks[j]
        OBVIOUS
      <4>1. s.kind = "array" /\ Len(s.elems) \in Nat
        <5>1. s.elems \in Seq(Element)
          BY <3>3 DEF Reply
        <5>. QED BY <3>3, <5>1
      <4>2. \A j \in 1..Len(r.elems) : j \in 1..Len(s.elems)
        BY <3>3, <4>1
      <4>. QED BY <3>3, <3>4, <4>1, <4>2
    <3>7. Answer'
      BY <1>0, <3>2, <3>3, <3>4, <3>5, <3>6 DEF Answer
    <3>8. OneAgree'
      BY <1>0, <2>1, <3>7 DEF OneAgree, Unmarked
    <3>. QED BY <1>0, <1>5, <3>8 DEF Agree, Quiet, Loop
  <2>. QED BY <2>2, <2>3
<1>6. CASE Whole /\ Loop
  <2>1. LoopAgree
    BY <1>0, <1>6 DEF Agree
  <2>2. /\ Off' = Off /\ Nxt' = Nxt /\ Due' = Due /\ Off \in Nat /\ Nxt \in Nat /\ Due \in Int
    BY <1>0 DEF Off, Nxt, Due
  <2>3. Half'
    <3>1. got # NoReply => replies # <<>> /\ replies[1].kind = "payload" /\ got.kind # "header"
      BY <1>0, <2>1 DEF LoopAgree, Half
    <3>2. got # NoReply /\ replies' # <<>> => replies'[1].kind = "payload"
      <4>1. replies' # <<>> => 1 \in 1..Len(replies')
        BY <1>1, ClosesReplies
      <4>. QED BY <1>2, <3>1, <4>1
    <3>. QED BY <1>0, <2>1, <3>1, <3>2 DEF LoopAgree, Half
  <2>4. Phased'
    BY <1>0, <2>1 DEF LoopAgree, Phased, Unmarked
  <2>5. InOrder'
    <3>1. \A i \in 1..Len(replies') : i > Off => Answers(replies'[i], Nxt + i - Off - 1)
      <4> SUFFICES ASSUME NEW i \in 1..Len(replies'), i > Off
                   PROVE  Answers(replies'[i], Nxt + i - Off - 1)
        OBVIOUS
      <4>1. Answers(replies[i], Nxt + i - Off - 1)
        BY <1>2, <2>1 DEF LoopAgree, InOrder
      <4>. QED BY <1>2, <4>1 DEF Answers
    <3>2. \A i \in 1..Len(replies') : i <= Off => Inner(replies'[i])
      <4> SUFFICES ASSUME NEW i \in 1..Len(replies'), i <= Off PROVE Inner(replies'[i])
        OBVIOUS
      <4>1. Inner(replies[i])
        BY <1>2, <2>1 DEF LoopAgree, InOrder
      <4>. QED BY <1>2, <4>1 DEF Inner, Fits
    <3>. QED BY <1>0, <2>2, <3>1, <3>2 DEF InOrder, Answers
  <2>6. Complete' => Complete /\ replies' = replies /\ Len(wire) = 0
    <3> SUFFICES ASSUME Complete' PROVE Complete /\ replies' = replies /\ Len(wire) = 0
      OBVIOUS
    <3>1. Complete
      BY <1>0, <2>1 DEF LoopAgree, InOrder
    <3>2. Len(replies') = Len(replies) /\ Len(wire) = 0
      BY <1>0, <1>1, <2>2, <3>1 DEF Complete
    <3>3. \A i \in 1..Len(replies) : replies'[i] = replies[i]
      BY <1>2, <3>2 DEF Complete
    <3>. QED BY <1>0, <3>1, <3>2, <3>3, ClosesReplies, SeqEqual
  <2>7. Complete' => LoopTx' /\ LoopWatch' /\ LoopDb'
    <3> SUFFICES ASSUME Complete' PROVE LoopTx' /\ LoopWatch' /\ LoopDb'
      OBVIOUS
    <3>1. LoopTx /\ LoopWatch /\ LoopDb /\ replies' = replies /\ Len(wire') = Len(wire)
      BY <1>0, <2>1, <2>6 DEF LoopAgree
    <3>. QED BY <1>0, <2>2, <3>1 DEF LoopTx, LoopWatch, LoopDb, WatchKnown, Hidden, Recorded
  <2>8. LoopAgree'
    BY <2>3, <2>4, <2>5, <2>7 DEF LoopAgree
  <2>. QED BY <1>0, <1>6, <2>8 DEF Agree, Quiet, Loop
<1>7. CASE pc = "freed"
  BY <1>0, <1>7, NoClaim
<1>8. pc \in PCs
  BY TypeParts DEF CallTypes
<1>. QED BY <1>3, <1>4, <1>5, <1>6, <1>7, <1>8 DEF PCs, Quiet, Loop

-----------------------------------------------------------------------------
(* The loop of exec(). *)

LEMMA PipeIsBalanced ==
  ASSUME Framed, Blocks, Whole, stream, Loop, op.m = "execPipe"
  PROVE  Balanced(callbacks)
<1>1. mode = {"PIPELINE"} /\ InPipeline
  BY DEF Framed, Stepped, Loop, InPipeline
<1>2. Intact
  BY DEF Intact, Whole
<1>. QED BY <1>1, <1>2 DEF Blocks

LEMMA LoopTypes ==
  ASSUME TypeOK
  PROVE  /\ callbacks \in Seq(Request) /\ Len(callbacks) \in Nat /\ pos \in Nat /\ left \in Nat
         /\ replies \in Seq(Reply) /\ Len(replies) \in Nat /\ wire \in Seq(Request) /\ Len(wire) \in Nat
         /\ Off \in Nat /\ Nxt \in Nat /\ Due \in Int
<1>1. /\ callbacks \in Seq(Request) /\ Len(callbacks) \in Nat /\ pos \in Nat /\ left \in Nat
      /\ replies \in Seq(Reply) /\ Len(replies) \in Nat /\ wire \in Seq(Request) /\ Len(wire) \in Nat
  BY TypeParts DEF SockTypes, CallTypes, NetTypes
<1>. QED BY <1>1 DEF Off, Nxt, Due

\* A command of the pipeline is answered: its reply is the one to the callback
\* at place k, and the server enters a transaction where the callbacks do.
LEMMA LoopHandled ==
  ASSUME TypeOK, Framed, Blocks, Agree, Whole, stream, Loop, NEW r \in Reply, Handles1(r)
  PROVE  Agree'
<1> DEFINE n == Len(replies)
           k == Len(callbacks) + 1 - Len(wire)
           q == Head(wire)
<1>0. /\ server.alive /\ wire # <<>> /\ server' \in Servers /\ server'.alive
      /\ Fits(r) /\ Entire(r) /\ r.for = q /\ Handled(q, r)
      /\ wire' = Tail(wire) /\ replies' = Append(replies, r)
      /\ UNCHANGED <<status, stream, mode, watching, dbNumber, callbacks, pc, op, pos, left, got, torn>>
  BY DEF Handles1, Replied, sock, call
<1>1. /\ callbacks \in Seq(Request) /\ Len(callbacks) \in Nat /\ pos \in Nat /\ left \in Nat
      /\ replies \in Seq(Reply) /\ Len(replies) \in Nat /\ wire \in Seq(Request) /\ Len(wire) \in Nat
      /\ Off \in Nat /\ Nxt \in Nat /\ Due \in Int
  BY LoopTypes
<1>2. LoopAgree /\ Half /\ InOrder /\ Phased /\ Complete /\ LoopTx /\ LoopWatch /\ LoopDb
  BY <1>0 DEF Agree, LoopAgree, InOrder
<1>3. op.m = "execPipe" /\ op.m # "execMulti"
  BY <1>0, <1>2 DEF Phased, Framed, Stepped
<1>4. Balanced(callbacks)
  BY <1>3, PipeIsBalanced
<1>5. /\ Len(wire') = Len(wire) - 1 /\ Len(wire) >= 1 /\ q = wire[1]
      /\ \A i \in 1..Len(wire') : wire'[i] = wire[i + 1]
  BY <1>0, <1>1, HeadTailProperties
<1>6. /\ k \in 1..Len(callbacks) /\ q = callbacks[k] /\ Len(callbacks) + 1 - Len(wire') = k + 1
  <2>1. Len(wire) <= Len(callbacks) /\ wire[1] = callbacks[Len(callbacks) - Len(wire) + 1]
    BY <1>1, <1>2, <1>5 DEF InOrder
  <2>2. Len(callbacks) - Len(wire) + 1 = k
    BY <1>1
  <2>. QED BY <1>1, <1>5, <2>1, <2>2
<1>7. /\ Len(replies') = n + 1 /\ replies'[n + 1] = r /\ \A i \in 1..n : replies'[i] = replies[i]
  BY <1>0, <1>1, AppendProperties
<1>8. \A i \in 1..n+1 : i \in 1..n \/ i = n + 1
  BY <1>1
<1>9. /\ Off' = Off /\ Nxt' = Nxt /\ Due' = Due /\ Off <= n /\ k = Nxt + n - Off
      /\ n - Off + Len(wire) = Due
  <2>1. Off' = Off /\ Nxt' = Nxt /\ Due' = Due
    BY <1>0 DEF Off, Nxt, Due
  <2>2. n - Off + Len(wire) = Due /\ Off <= n
    BY <1>2 DEF Complete
  <2>. QED BY <1>1, <2>1, <2>2 DEF Due
<1>10. /\ server.tx # "none" <=> InBlock(callbacks, k)
       /\ InBlock(callbacks, k + 1) <=> q.cmd = "MULTI" \/ (q.cmd # "EXEC" /\ InBlock(callbacks, k))
       /\ q.cmd = "MULTI" => ~InBlock(callbacks, k)
       /\ q.cmd = "EXEC" => InBlock(callbacks, k)
       /\ q.cmd \notin {"DISCARD", "RESET"} /\ q.cmd \in Ordinary \cup {"MULTI", "EXEC"}
  <2>1. k \in Nat \ {0} /\ q \in Request
    BY <1>1, <1>6
  <2>2. q.cmd \notin {"DISCARD", "RESET"}
    BY <1>4, <1>6 DEF Balanced
  <2>. QED BY <1>2, <1>4, <1>6, <2>1, <2>2, InBlockStep DEF LoopTx, Balanced, Request, Ordinary
<1> HIDE DEF n, k, q
<1>11. /\ r.kind = "queued" => InBlock(callbacks, k)
       /\ r.kind = "ok" => ~InBlock(callbacks, k)
  <2>1. CASE q.cmd \in Ordinary
    BY <1>0, <1>10, <2>1 DEF Handled
  <2>2. CASE q.cmd = "MULTI"
    BY <1>0, <1>10, <2>2 DEF Handled
  <2>3. CASE q.cmd = "EXEC"
    BY <1>0, <2>3 DEF Fits, Plain
  <2>. QED BY <1>10, <2>1, <2>2, <2>3
<1>12. Half'
  <2>1. got # NoReply => replies # <<>> /\ replies[1].kind = "payload" /\ got.kind # "header"
    BY <1>0, <1>2 DEF Half
  <2>2. got # NoReply => replies' # <<>> /\ replies'[1].kind = "payload"
    <3>1. replies # <<>> => 1 \in 1..n
      BY <1>1 DEF n
    <3>2. replies' # <<>>
      BY <1>0, <1>1
    <3>. QED BY <1>7, <2>1, <3>1, <3>2
  <2>. QED BY <1>0, <1>2, <2>1, <2>2 DEF Half
<1>13. Phased'
  BY <1>0, <1>2, <1>3 DEF Phased
<1>14. Complete'
  <2>1. \A i \in 1..Len(replies') : Entire(replies'[i])
    BY <1>0, <1>2, <1>7, <1>8 DEF Complete, n
  <2>2. Len(replies') - Off' + Len(wire') = Due' /\ Off' <= Len(replies')
    <3>1. n \in Nat /\ (n + 1) - Off + (Len(wire) - 1) = Due /\ Off <= n + 1
      BY <1>1, <1>9 DEF n
    <3>2. Len(replies') = n + 1 /\ Off' = Off /\ Len(wire') = Len(wire) - 1 /\ Due' = Due
      BY <1>5, <1>7, <1>9
    <3>. QED BY <3>1, <3>2
  <2>. QED BY <1>0, <1>2, <2>1, <2>2 DEF Complete
<1>15. InOrder'
  <2>1. \A i \in 1..Len(replies') : i > Off => Answers(replies'[i], Nxt + i - Off - 1)
    <3> SUFFICES ASSUME NEW i \in 1..Len(replies'), i > Off
                 PROVE  Answers(replies'[i], Nxt + i - Off - 1)
      OBVIOUS
    <3>1. CASE i \in 1..n
      BY <1>2, <1>7, <3>1 DEF InOrder, n
    <3>2. CASE i = n + 1
      <4>1. Nxt + i - Off - 1 = k
        BY <1>1, <1>9, <3>2 DEF n
      <4>2. Answers(r, k)
        BY <1>0, <1>1, <1>6, <1>11 DEF Answers
      <4>. QED BY <1>7, <3>2, <4>1, <4>2
    <3>. QED BY <1>7, <1>8, <3>1, <3>2
  <2>2. \A i \in 1..Len(replies') : i <= Off => Inner(replies'[i])
    <3> SUFFICES ASSUME NEW i \in 1..Len(replies'), i <= Off PROVE Inner(replies'[i])
      OBVIOUS
    <3>1. i \in 1..n
      BY <1>1, <1>7, <1>9 DEF n
    <3>. QED BY <1>2, <1>7, <3>1 DEF InOrder, n
  <2>3. Len(wire') <= Len(callbacks)
    BY <1>1, <1>2, <1>5 DEF InOrder
  <2>4. \A i \in 1..Len(wire') : wire'[i] = callbacks[Len(callbacks) - Len(wire') + i]
    <3> SUFFICES ASSUME NEW i \in 1..Len(wire') PROVE wire'[i] = callbacks[Len(callbacks) - Len(wire') + i]
      OBVIOUS
    <3>1. i + 1 \in 1..Len(wire) /\ Len(callbacks) - Len(wire') + i = Len(callbacks) - Len(wire) + (i + 1)
      BY <1>1, <1>5
    <3>. QED BY <1>2, <1>5, <3>1 DEF InOrder
  <2>. QED BY <1>0, <1>9, <1>14, <2>1, <2>2, <2>3, <2>4 DEF InOrder, Answers
<1>16. LoopTx'
  <2>1. server'.tx # "none" <=> InBlock(callbacks, k + 1)
    BY <1>0, <1>10 DEF Handled
  <2>. QED BY <1>0, <1>6, <2>1 DEF LoopTx
<1>17. LoopWatch'
  <2> SUFFICES ASSUME server'.watch PROVE WatchKnown'
    BY <1>0, <1>3 DEF LoopWatch
  <2>1. CASE Watched(r)
    <3>1. n + 1 \in 1..Len(replies') /\ \A j \in n+1+1..Len(replies') : FALSE
      BY <1>1, <1>7 DEF n
    <3>. QED BY <1>7, <2>1, <3>1 DEF WatchKnown
  <2>2. CASE ~Watched(r)
    <3>1. server.watch /\ ~Unwatched(r)
      BY <1>0, <1>10, <2>2 DEF Handled, Watched, Unwatched, Ordinary
    <3>2. WatchKnown
      BY <1>2, <3>1 DEF LoopWatch
    <3>3. CASE \E i \in 1..n : Watched(replies[i]) /\ \A j \in i+1..n : ~Unwatched(replies[j])
      <4>1. PICK i \in 1..n : Watched(replies[i]) /\ \A j \in i+1..n : ~Unwatched(replies[j])
        BY <3>3
      <4>2. i \in 1..Len(replies') /\ \A j \in i+1..Len(replies') : j \in i+1..n \/ j = n + 1
        <5>1. n \in Nat /\ Len(replies') = n + 1
          BY <1>1, <1>7 DEF n
        <5>. QED BY <5>1
      <4>3. \A j \in i+1..n : j \in 1..n
        BY <1>1 DEF n
      <4>4. Watched(replies'[i]) /\ \A j \in i+1..Len(replies') : ~Unwatched(replies'[j])
        BY <1>7, <3>1, <4>1, <4>2, <4>3
      <4>. QED BY <4>2, <4>4 DEF WatchKnown
    <3>4. CASE watching /\ \A j \in 1..n : ~Unwatched(replies[j])
      BY <1>0, <1>7, <1>8, <3>1, <3>4 DEF WatchKnown
    <3>. QED BY <3>2, <3>3, <3>4 DEF WatchKnown, n
  <2>. QED BY <2>1, <2>2
<1>18. LoopDb'
  <2> SUFFICES ASSUME torn = {} PROVE Hidden' \/ Recorded(replies, Off + 1)'
    BY <1>0 DEF LoopDb
  <2>1. CASE Hidden
    <3>1. PICK i \in 1..n : HiddenIn(replies[i]) \/ (i <= Off /\ replies[i].for.cmd = "SELECT")
      BY <2>1 DEF Hidden, n
    <3>2. i \in 1..Len(replies') /\ replies'[i] = replies[i]
      BY <1>1, <1>7 DEF n
    <3>. QED BY <1>9, <3>1, <3>2 DEF Hidden
  <2>2. CASE HiddenIn(r)
    <3>1. n + 1 \in 1..Len(replies')
      BY <1>1, <1>7 DEF n
    <3>. QED BY <1>7, <2>2, <3>1 DEF Hidden
  <2>3. CASE Selects(r) /\ server'.db = r.for.arg
    <3>1. n + 1 \in Off+1..Len(replies') /\ \A j \in n+1+1..Len(replies') : FALSE
      BY <1>1, <1>7, <1>9 DEF n
    <3>. QED BY <1>7, <1>9, <2>3, <3>1 DEF Recorded
  <2>4. CASE Recorded(replies, Off + 1) /\ ~Selects(r) /\ server'.db = server.db
    <3>0. \A j \in Off+1..n+1 : j \in Off+1..n \/ j = n + 1
      BY <1>1 DEF n
    <3>1. CASE \E i \in Off+1..n : /\ Selects(replies[i]) /\ server.db = replies[i].for.arg
                                   /\ \A j \in i+1..n : ~Selects(replies[j])
      <4>1. PICK i \in Off+1..n : /\ Selects(replies[i]) /\ server.db = replies[i].for.arg
                                  /\ \A j \in i+1..n : ~Selects(replies[j])
        BY <3>1
      <4>2. i \in Off+1..Len(replies') /\ \A j \in i+1..Len(replies') : j \in i+1..n \/ j = n + 1
        BY <1>1, <1>7 DEF n
      <4>3. i \in 1..n /\ \A j \in i+1..n : j \in 1..n
        BY <1>1 DEF n
      <4>4. /\ Selects(replies'[i]) /\ server'.db = replies'[i].for.arg
            /\ \A j \in i+1..Len(replies') : ~Selects(replies'[j])
        BY <1>7, <2>4, <4>1, <4>2, <4>3
      <4>. QED BY <1>9, <4>2, <4>4 DEF Recorded
    <3>2. CASE server.db = dbNumber /\ \A j \in Off+1..n : ~Selects(replies[j])
      <4>1. \A j \in Off+1..n : j \in 1..n
        BY <1>1 DEF n
      <4>2. \A j \in Off+1..Len(replies') : ~Selects(replies'[j])
        BY <1>7, <2>4, <3>0, <3>2, <4>1
      <4>. QED BY <1>0, <1>9, <2>4, <3>2, <4>2 DEF Recorded
    <3>. QED BY <2>4, <3>1, <3>2 DEF Recorded, n
  <2>5. \/ Selects(r) /\ server'.db = r.for.arg
        \/ ~Selects(r) /\ server'.db = server.db
        \/ HiddenIn(r)
    <3>1. CASE q.cmd \in Ordinary
      BY <1>0, <3>1 DEF Handled, Selects
    <3>2. CASE q.cmd = "MULTI"
      BY <1>0, <3>2 DEF Handled, Selects
    <3>3. CASE q.cmd = "EXEC"
      BY <1>0, <3>3 DEF Handled, Selects, HiddenIn
    <3>. QED BY <1>10, <3>1, <3>2, <3>3
  <2>. QED BY <1>2, <2>1, <2>2, <2>3, <2>4, <2>5 DEF LoopDb
<1>19. LoopAgree'
  BY <1>12, <1>13, <1>15, <1>16, <1>17, <1>18 DEF LoopAgree
<1>. QED BY <1>0, <1>19 DEF Agree, Quiet, Loop

\* What is on the stream when the loop reads, and what is left of it.
LEMMA LoopArrived ==
  ASSUME TypeOK, Shape, Framed, Agree, Whole, Loop, ReadsIt \/ ReadBulkHeader, NEW h, h = replies[1]
  PROVE  /\ stream /\ status = "READY" /\ UNCHANGED <<server, wire>> /\ LoopAgree
         /\ Head(replies) = h /\ h \in Reply /\ Fits(h) /\ Len(replies) >= 1 /\ replies # <<>>
         /\ h.elems \in Seq(Element) /\ Len(h.elems) \in Nat
         /\ h.kind = "bulk" =>
              /\ Len(replies') = Len(replies)
              /\ replies'[1] = [h EXCEPT !.kind = "payload"]
              /\ \A i \in 2..Len(replies) : replies'[i] = replies[i]
         /\ h.kind # "bulk" =>
              /\ Len(replies') = Len(h.elems) + Len(replies) - 1
              /\ \A i \in 1..Len(h.elems) : replies'[i] = h.elems[i]
              /\ \A i \in Len(h.elems)+1..Len(replies') : replies'[i] = replies[i - Len(h.elems) + 1]
         /\ Off = 0 => Answers(h, pos) /\ Nxt = pos
         /\ Off > 0 => Inner(h)
<1>0. /\ stream /\ replies # <<>> /\ replies' = Rest /\ UNCHANGED <<server, wire>>
      /\ replies \in Seq(Reply) /\ Len(replies) \in Nat /\ pos \in Nat /\ left \in Nat
  BY TypeParts, TakenFits DEF NetTypes, CallTypes
<1>1. Len(replies) >= 1 /\ status = "READY"
  BY <1>0 DEF Framed, Streamed, Loop
<1>2. LoopAgree
  BY <1>0 DEF Agree
<1>3. Head(replies) = h /\ h \in Reply /\ 1 \in 1..Len(replies)
  BY <1>0, <1>1
<1>4. Fits(h) /\ h.elems \in Seq(Element) /\ Len(h.elems) \in Nat
  BY <1>3 DEF Framed, RepliesFit, Reply
<1>5. Off = 0 => Answers(h, pos) /\ Nxt = pos
  <2> SUFFICES ASSUME Off = 0 PROVE Answers(h, pos) /\ Nxt = pos
    OBVIOUS
  <2>1. pc # "txelement" \/ left = 0
    BY DEF Off, Shape
  <2>2. CASE pc # "txelement"
    <3>1. Nxt = pos /\ Nxt + 1 - Off - 1 = pos
      BY <1>0, <2>2 DEF Nxt
    <3>. QED BY <1>0, <1>2, <1>3, <3>1 DEF LoopAgree, InOrder
  <2>. QED BY <1>0, <2>1, <2>2 DEF Shape
<1>6. Off > 0 => Inner(h)
  <2>1. Off \in Nat
    BY <1>0 DEF Off
  <2>. QED BY <1>2, <1>3, <2>1 DEF LoopAgree, InOrder
<1>7. /\ h.kind = "bulk" =>
           /\ Len(replies') = Len(replies)
           /\ replies'[1] = [h EXCEPT !.kind = "payload"]
           /\ \A i \in 2..Len(replies) : replies'[i] = replies[i]
      /\ h.kind # "bulk" =>
           /\ Len(replies') = Len(h.elems) + Len(replies) - 1
           /\ \A i \in 1..Len(h.elems) : replies'[i] = h.elems[i]
           /\ \A i \in Len(h.elems)+1..Len(replies') : replies'[i] = replies[i - Len(h.elems) + 1]
  BY <1>0, <1>3, RestParts
<1>. QED BY <1>0, <1>1, <1>2, <1>3, <1>4, <1>5, <1>6, <1>7

\* The piece that is read is the last of its reply.
LEMMA LoopPiece ==
  ASSUME TypeOK, Shape, Framed, Agree, Whole, Loop, ReadsIt, NEW h, h = replies[1]
  PROVE  /\ h.kind \notin {"bulk", "header"}
         /\ IF got = NoReply THEN TheReply = h
            ELSE got.kind = "bulk" /\ h.kind = "payload" /\ TheReply = got
                   /\ (Off = 0 => ~Marker(callbacks[pos]))
<1>0. /\ LoopAgree /\ Fits(h) /\ Head(replies) = h /\ replies # <<>>
      /\ Off = 0 => Answers(h, pos) /\ Nxt = pos
  BY LoopArrived
<1>1. CASE got = NoReply
  <2>1. TheReply = h
    BY <1>0, <1>1 DEF TheReply
  <2>2. CASE ~SockGets
    BY <1>0, <1>1, <2>1, <2>2 DEF ReadsIt
  <2>3. CASE SockGets
    <3>1. pc \in {"element", "txqueued"} /\ AtMarker
      BY <2>3 DEF SockGets, Loop
    <3>2. Off = 0 /\ pos <= Len(callbacks) /\ h.for = callbacks[pos]
      BY <1>0, <3>1 DEF Off, Answers
    <3>3. h.for.cmd \in {"MULTI", "EXEC"}
      BY <3>1, <3>2 DEF AtMarker, Marker
    <3>. QED BY <1>0, <1>1, <2>1, <3>3 DEF Fits, Plain
  <2>. QED BY <2>2, <2>3
<1>2. CASE got # NoReply
  <2>1. got.kind = "bulk" /\ h.kind = "payload" /\ TheReply = got
    BY <1>0, <1>2 DEF LoopAgree, Half, TheReply
  <2>2. Off = 0 => ~Marker(callbacks[pos])
    <3>1. pc = "txelement" => Off # 0
      BY DEF Off, Shape
    <3>. QED BY <1>0, <1>2, <3>1 DEF LoopAgree, Half
  <2>. QED BY <1>2, <2>1, <2>2
<1>. QED BY <1>1, <1>2

\* A reply of the loop is read whole: the others move up by one place.
LEMMA LoopShift ==
  ASSUME TypeOK, TypeOK', Shape, Framed, Agree, Whole, Loop, Loop', ReadsIt, NEW h, h = replies[1],
         h.elems = <<>>, h.n = 0,
         got' = NoReply, UNCHANGED <<callbacks, op, status, stream>>, torn' = {} => torn = {},
         \/ Off = 0 /\ Off' = 0 /\ Nxt' = Nxt + 1
         \/ Off > 0 /\ Off' = Off - 1 /\ Nxt' = Nxt /\ (torn' = {} => h.for.cmd # "SELECT"),
         Phased',
         Watched(h) \/ (watching /\ ~Unwatched(h)) => watching',
         torn' = {} => dbNumber' = IF Off = 0 /\ Selects(h) THEN h.for.arg ELSE dbNumber
  PROVE  Agree'
<1> DEFINE n == Len(replies)
<1>0. /\ stream /\ UNCHANGED <<server, wire>> /\ LoopAgree /\ n >= 1 /\ h \in Reply /\ Fits(h)
      /\ Head(replies) = h /\ replies # <<>> /\ h.kind # "header"
      /\ Len(replies') = Len(h.elems) + n - 1
      /\ \A i \in Len(h.elems)+1..Len(replies') : replies'[i] = replies[i - Len(h.elems) + 1]
  <2>1. h.kind \notin {"bulk", "header"}
    BY LoopPiece
  <2>. QED BY <2>1, LoopArrived
<1>1. /\ Len(callbacks) \in Nat /\ n \in Nat /\ Len(wire) \in Nat
      /\ Off \in Nat /\ Nxt \in Nat /\ Due \in Int
  BY LoopTypes
<1>2. Len(h.elems) = 0 /\ Len(replies') = n - 1 /\ Len(replies') \in Nat
  BY <1>0, <1>1
<1>3. \A i \in 1..n-1 : replies'[i] = replies[i + 1] /\ i + 1 \in 1..n
  BY <1>0, <1>1, <1>2
<1>4. \A i \in 2..n : replies[i] = replies'[i - 1] /\ i - 1 \in 1..n-1
  BY <1>0, <1>1, <1>3
<1>5. 1 \in 1..n /\ \A i \in 1..n : i = 1 \/ i \in 2..n
  BY <1>0, <1>1
<1>6. /\ Half /\ InOrder /\ Phased /\ (Complete => LoopTx /\ LoopWatch /\ LoopDb)
      /\ got.kind # "header"
  <2>1. Half /\ InOrder /\ Phased /\ (Complete => LoopTx /\ LoopWatch /\ LoopDb)
    BY <1>0 DEF LoopAgree
  <2>. QED BY <1>0, <2>1 DEF Half, NoReply
<1> HIDE DEF n
<1>7. Entire(h) /\ got'.kind # "header"
  BY <1>0, <1>2 DEF Entire, NoReply
<1>8. Off' \in Nat /\ Nxt' \in Nat /\ Off' <= Off
  BY <1>1
<1>14. /\ n - 1 - Off' + Len(wire) = Len(callbacks) + 1 - Nxt' <=> n - Off + Len(wire) = Len(callbacks) + 1 - Nxt
       /\ Off' <= n - 1 <=> Off <= n
       /\ \A i \in 1..n-1 : Nxt' + i - Off' - 1 = Nxt + (i + 1) - Off - 1 /\ (i > Off' <=> i + 1 > Off)
       /\ \A j \in Off'+1..n-1 : j \in 1..n-1 /\ j + 1 \in Off+1..n
  <2>1. n >= 1
    BY <1>0 DEF n
  <2>2. CASE Off = 0 /\ Off' = 0 /\ Nxt' = Nxt + 1
    BY <1>1, <2>1, <2>2
  <2>3. CASE Off > 0 /\ Off' = Off - 1 /\ Nxt' = Nxt
    BY <1>1, <2>1, <2>3
  <2>. QED BY <2>2, <2>3
<1>9. Complete' <=> Complete
  <2>1. (\A i \in 1..n-1 : Entire(replies'[i])) <=> (\A i \in 1..n : Entire(replies[i]))
    BY <1>3, <1>4, <1>5, <1>7
  <2>2. /\ n - 1 - Off' + Len(wire) = Len(callbacks) + 1 - Nxt' <=> n - Off + Len(wire) = Len(callbacks) + 1 - Nxt
        /\ Off' <= n - 1 <=> Off <= n
    BY <1>14
  <2>3. Complete <=> /\ n - Off + Len(wire) = Len(callbacks) + 1 - Nxt /\ Off <= n
                     /\ \A i \in 1..n : Entire(replies[i])
    BY <1>6 DEF Complete, Due, n
  <2>4. Complete' <=> /\ n - 1 - Off' + Len(wire) = Len(callbacks) + 1 - Nxt' /\ Off' <= n - 1
                      /\ \A i \in 1..n-1 : Entire(replies'[i])
    BY <1>0, <1>2, <1>7 DEF Complete, Due
  <2>. QED BY <2>1, <2>2, <2>3, <2>4
<1>10. Half'
  BY DEF Half
<1>11. InOrder'
  <2>1. \A i \in 1..n-1 : i > Off' => Answers(replies'[i], Nxt' + i - Off' - 1)
    <3> SUFFICES ASSUME NEW i \in 1..n-1, i > Off' PROVE Answers(replies'[i], Nxt' + i - Off' - 1)
      OBVIOUS
    <3>1. Nxt' + i - Off' - 1 = Nxt + (i + 1) - Off - 1 /\ i + 1 > Off
      BY <1>14
    <3>2. Answers(replies[i + 1], Nxt + (i + 1) - Off - 1)
      BY <1>3, <1>6, <3>1 DEF InOrder, n
    <3>. QED BY <1>3, <3>1, <3>2
  <2>2. \A i \in 1..n-1 : i <= Off' => Inner(replies'[i])
    <3> SUFFICES ASSUME NEW i \in 1..n-1, i <= Off' PROVE Inner(replies'[i])
      OBVIOUS
    <3>1. i + 1 <= Off
      BY <1>1, <1>8
    <3>. QED BY <1>3, <1>6, <3>1 DEF InOrder, n
  <2>3. server'.alive => Complete'
    BY <1>0, <1>6, <1>9 DEF InOrder
  <2>4. Len(wire) <= Len(callbacks) /\ \A i \in 1..Len(wire) : wire[i] = callbacks[Len(callbacks) - Len(wire) + i]
    BY <1>6 DEF InOrder
  <2>. QED BY <1>0, <1>2, <2>1, <2>2, <2>3, <2>4 DEF InOrder, Answers
<1>12. ASSUME Complete PROVE LoopTx' /\ LoopWatch' /\ LoopDb'
  <2>0. LoopTx /\ LoopWatch /\ LoopDb
    BY <1>6, <1>12
  <2>1. LoopTx'
    BY <1>0, <2>0 DEF LoopTx
  <2>2. LoopWatch'
    <3> SUFFICES ASSUME server.watch PROVE WatchKnown'
      BY <1>0, <2>0 DEF LoopWatch
    <3>1. CASE \E i \in 1..n : Watched(replies[i]) /\ \A j \in i+1..n : ~Unwatched(replies[j])
      <4>1. PICK i \in 1..n : Watched(replies[i]) /\ \A j \in i+1..n : ~Unwatched(replies[j])
        BY <3>1
      <4>2. \A j \in i..n-1 : j \in 1..n-1 /\ j + 1 \in i+1..n
        BY <1>1
      <4>3. \A j \in i..n-1 : ~Unwatched(replies'[j])
        BY <1>3, <4>1, <4>2
      <4>4. CASE i = 1
        <5>1. watching'
          BY <4>1, <4>4
        <5>. QED BY <1>2, <4>3, <4>4, <5>1 DEF WatchKnown
      <4>5. CASE i \in 2..n
        <5>1. i - 1 \in 1..n-1 /\ i - 1 + 1 = i /\ Watched(replies'[i - 1])
          BY <1>1, <1>4, <4>1, <4>5
        <5>. QED BY <1>2, <4>3, <5>1 DEF WatchKnown
      <4>. QED BY <1>5, <4>4, <4>5
    <3>2. CASE watching /\ \A j \in 1..n : ~Unwatched(replies[j])
      <4>1. watching'
        BY <1>5, <3>2 DEF n
      <4>. QED BY <1>2, <1>3, <3>2, <4>1 DEF WatchKnown
    <3>. QED BY <2>0, <3>1, <3>2 DEF LoopWatch, WatchKnown, n
  <2>3. LoopDb'
    <3> SUFFICES ASSUME torn' = {} PROVE Hidden' \/ Recorded(replies, Off + 1)'
      BY DEF LoopDb
    <3>0. torn = {} /\ dbNumber' = IF Off = 0 /\ Selects(h) THEN h.for.arg ELSE dbNumber
      OBVIOUS
    <3>1. CASE Hidden
      <4>1. PICK i \in 1..n : HiddenIn(replies[i]) \/ (i <= Off /\ replies[i].for.cmd = "SELECT")
        BY <3>1 DEF Hidden, n
      <4>2. i # 1
        BY <1>1, <1>2, <4>1 DEF HiddenIn
      <4>3. i \in 2..n
        BY <1>5, <4>2
      <4>4. i - 1 \in 1..n-1 /\ (i <= Off => i - 1 <= Off') /\ replies'[i - 1] = replies[i]
        BY <1>1, <1>4, <1>8, <4>3
      <4>. QED BY <1>2, <4>1, <4>4 DEF Hidden
    <3>2. CASE \E i \in Off+1..n : /\ Selects(replies[i]) /\ server.db = replies[i].for.arg
                                   /\ \A j \in i+1..n : ~Selects(replies[j])
      <4>1. PICK i \in Off+1..n : /\ Selects(replies[i]) /\ server.db = replies[i].for.arg
                                  /\ \A j \in i+1..n : ~Selects(replies[j])
        BY <3>2
      <4>2. \A j \in i..n-1 : j \in 1..n-1 /\ j + 1 \in i+1..n
        BY <1>1
      <4>3. \A j \in i..n-1 : ~Selects(replies'[j])
        BY <1>3, <4>1, <4>2
      <4>4. CASE i = 1
        <5>1. Off = 0 /\ Off' = 0 /\ dbNumber' = h.for.arg
          BY <1>1, <3>0, <4>1, <4>4
        <5>. QED BY <1>0, <1>2, <4>1, <4>3, <4>4, <5>1 DEF Recorded
      <4>5. CASE i # 1
        <5>1. i \in 2..n /\ i - 1 + 1 = i /\ i - 1 \in Off'+1..n-1
          BY <1>1, <1>8, <4>5
        <5>2. Selects(replies'[i - 1]) /\ server.db = replies'[i - 1].for.arg
          BY <1>4, <4>1, <5>1
        <5>. QED BY <1>0, <1>2, <4>3, <5>1, <5>2 DEF Recorded
      <4>. QED BY <4>4, <4>5
    <3>3. CASE server.db = dbNumber /\ \A j \in Off+1..n : ~Selects(replies[j])
      <4>1. \A j \in Off'+1..n-1 : j \in 1..n-1 /\ j + 1 \in Off+1..n
        BY <1>14
      <4>2. \A j \in Off'+1..n-1 : ~Selects(replies'[j])
        BY <1>3, <3>3, <4>1
      <4>3. Off = 0 => ~Selects(h)
        BY <1>0, <1>1, <3>3
      <4>. QED BY <1>0, <1>2, <3>0, <3>3, <4>2, <4>3 DEF Recorded
    <3>. QED BY <2>0, <3>0, <3>1, <3>2, <3>3 DEF LoopDb, Recorded, n
  <2>. QED BY <2>1, <2>2, <2>3
<1>13. LoopAgree'
  BY <1>9, <1>10, <1>11, <1>12 DEF LoopAgree
<1>. QED BY <1>13 DEF Agree, Quiet, Loop

\* What the loop knows of the callback it is at.
LEMMA AtCallbackOf ==
  ASSUME TypeOK, Shape, Framed, Blocks, Agree, Whole, stream, Loop, pos <= Len(callbacks)
  PROVE  /\ pos \in Nat \ {0} /\ pos \in 1..Len(callbacks) /\ pos + 1 \in 1..Len(callbacks)+1
         /\ callbacks[pos] \in Request /\ Phased
         /\ callbacks[pos].cmd \notin {"DISCARD", "RESET"}
         /\ op.m = "execMulti" => ~Marker(callbacks[pos])
         /\ callbacks[pos].cmd = "MULTI" => ~InBlock(callbacks, pos)
         /\ callbacks[pos].cmd = "EXEC" => InBlock(callbacks, pos)
         /\ InBlock(callbacks, pos + 1)
              <=> callbacks[pos].cmd = "MULTI" \/ (callbacks[pos].cmd # "EXEC" /\ InBlock(callbacks, pos))
<1>1. callbacks \in Seq(Request) /\ Len(callbacks) \in Nat /\ pos \in Nat \ {0}
  BY LoopTypes DEF Shape, Loop
<1>2. pos \in 1..Len(callbacks) /\ pos + 1 \in 1..Len(callbacks)+1 /\ callbacks[pos] \in Request
  BY <1>1
<1>3. Phased
  BY DEF Agree, LoopAgree
<1>4. op.m \in {"execMulti", "execPipe"}
  BY DEF Framed, Stepped, Loop
<1>5. CASE op.m = "execMulti"
  <2>1. callbacks[pos].cmd \in {"DATA", "SELECT", "UNWATCH"}
    BY <1>2, <1>3, <1>5 DEF Phased, Unmarked
  <2>. QED BY <1>1, <1>2, <1>3, <2>1, InBlockStep DEF Marker
<1>6. CASE op.m = "execPipe"
  <2>1. Balanced(callbacks)
    BY <1>6, PipeIsBalanced
  <2>. QED BY <1>1, <1>2, <1>3, <1>6, <2>1, InBlockStep DEF Balanced
<1>. QED BY <1>4, <1>5, <1>6

\* The loop reads the header of a bulk reply, whose payload is to follow.
LEMMA LoopHeaderAgrees ==
  ASSUME TypeOK, Shape, Framed, Agree, Whole, Loop, ReadBulkHeader
  PROVE  Agree'
<1> DEFINE h == replies[1]
           n == Len(replies)
<1>0. /\ stream /\ UNCHANGED <<server, wire>> /\ LoopAgree /\ n >= 1 /\ h \in Reply /\ Fits(h)
      /\ Head(replies) = h /\ replies # <<>>
      /\ h.kind = "bulk" =>
           /\ Len(replies') = n
           /\ replies'[1] = [h EXCEPT !.kind = "payload"]
           /\ \A i \in 2..n : replies'[i] = replies[i]
      /\ h.kind # "bulk" => Len(replies') = Len(h.elems) + n - 1
      /\ Off = 0 => Answers(h, pos) /\ Nxt = pos
      /\ Off > 0 => Inner(h)
  BY LoopArrived
<1>1. /\ UNCHANGED <<sock, pc, op, pos, left, torn>> /\ got = NoReply /\ got' = h /\ h.kind \in {"bulk", "header"}
  BY <1>0 DEF ReadBulkHeader
<1>2. /\ h.n = 0 /\ h.elems = <<>> /\ Len(h.elems) = 0 /\ h.for.cmd = "DATA"
  <2>1. h.n = 0 /\ h.elems = <<>> /\ h.for.cmd = "DATA"
    BY <1>0, <1>1 DEF Fits, Plain
  <2>. QED BY <2>1
<1>3. /\ Len(callbacks) \in Nat /\ n \in Nat /\ Len(wire) \in Nat /\ replies' = Rest /\ Rest \in Seq(Reply)
      /\ Off \in Nat /\ Nxt \in Nat
  BY <1>0, LoopTypes, RestType DEF ReadBulkHeader
<1>4. /\ Half /\ InOrder /\ Phased /\ (Complete => LoopTx /\ LoopWatch /\ LoopDb)
  BY <1>0 DEF LoopAgree
<1>5. /\ Off' = Off /\ Nxt' = Nxt /\ Due' = Due
  BY <1>1 DEF Off, Nxt, Due, sock
<1>6. pc # "txelement" => pos <= Len(callbacks) /\ ~Marker(callbacks[pos])
  <2>1. pc # "txelement" => Answers(h, pos)
    BY <1>0 DEF Off
  <2>. QED BY <1>2, <2>1 DEF Answers, Marker
<1>7. Phased'
  BY <1>0, <1>1, <1>4 DEF Phased, Unmarked, sock
<1> HIDE DEF n, h
<1>8. CASE h.kind = "header"
  <2>1. n = 1 /\ ~server.alive
    <3>1. 1 \in 1..n /\ ~Entire(h)
      BY <1>0, <1>3, <1>8 DEF Entire
    <3>2. ~(1 < n) /\ ~server.alive
      BY <3>1 DEF Framed, RepliesFit, n, h
    <3>. QED BY <1>0, <1>3, <3>2
  <2>2. replies' = <<>> /\ Len(replies') = 0
    <3>1. Len(replies') = 0
      BY <1>0, <1>2, <1>8, <2>1
    <3>. QED BY <1>3, <3>1, EmptySeq
  <2>3. h # NoReply
    BY <1>8 DEF NoReply
  <2>4. Half'
    BY <1>0, <1>1, <1>6, <1>8, <2>1, <2>2 DEF Half, sock
  <2>5. InOrder'
    BY <1>0, <1>1, <1>4, <2>1, <2>2 DEF InOrder, sock
  <2>6. ~Complete'
    BY <1>1, <1>8 DEF Complete
  <2>. QED BY <1>1, <1>7, <2>4, <2>5, <2>6 DEF Agree, Quiet, Loop, LoopAgree
<1>9. CASE h.kind = "bulk"
  <2> DEFINE p == [h EXCEPT !.kind = "payload"]
  <2>1. /\ p.for = h.for /\ p.kind = "payload" /\ p.n = 0 /\ p.elems = <<>> /\ Len(p.elems) = 0
    BY <1>0, <1>2 DEF Reply
  <2>2. Len(replies') = n /\ replies'[1] = p /\ \A i \in 2..n : replies'[i] = replies[i]
    BY <1>0, <1>9
  <2> HIDE DEF p
  <2>3. 1 \in 1..n /\ \A i \in 1..n : i = 1 \/ i \in 2..n
    BY <1>0, <1>3
  <2>4. Entire(p) /\ Entire(h)
    BY <1>2, <1>9, <2>1 DEF Entire
  <2>5. \A i \in 1..n : /\ Entire(replies'[i]) <=> Entire(replies[i])
                        /\ Watched(replies'[i]) <=> Watched(replies[i])
                        /\ Unwatched(replies'[i]) <=> Unwatched(replies[i])
                        /\ Selects(replies'[i]) <=> Selects(replies[i])
                        /\ HiddenIn(replies'[i]) <=> HiddenIn(replies[i])
                        /\ replies'[i].for = replies[i].for
    <3>1. /\ ~Watched(p) /\ ~Watched(h) /\ ~Unwatched(p) /\ ~Unwatched(h)
          /\ ~Selects(p) /\ ~Selects(h) /\ ~HiddenIn(p) /\ ~HiddenIn(h)
      BY <1>2, <2>1 DEF Watched, Unwatched, Selects, HiddenIn
    <3>. QED BY <2>1, <2>2, <2>3, <2>4, <3>1 DEF h
  <2>6. Complete' <=> Complete
    <3>1. got.kind # "header" /\ got'.kind # "header"
      BY <1>1, <1>9 DEF NoReply
    <3>. QED BY <1>0, <1>5, <2>2, <2>5, <3>1 DEF Complete, n
  <2>7. Half'
    <3>1. replies' # <<>>
      BY <1>0, <1>3, <2>2
    <3>. QED BY <1>1, <1>6, <1>9, <2>1, <2>2, <3>1 DEF Half, sock
  <2>8. InOrder'
    <3>1. \A i \in 1..n : i > Off => Answers(replies'[i], Nxt + i - Off - 1)
      <4> SUFFICES ASSUME NEW i \in 1..n, i > Off PROVE Answers(replies'[i], Nxt + i - Off - 1)
        OBVIOUS
      <4>1. Answers(replies[i], Nxt + i - Off - 1)
        BY <1>4 DEF InOrder, n
      <4>2. CASE i = 1
        BY <2>1, <2>2, <4>1, <4>2 DEF Answers, h
      <4>3. CASE i \in 2..n
        BY <2>2, <4>1, <4>3
      <4>. QED BY <2>3, <4>2, <4>3
    <3>2. \A i \in 1..n : i <= Off => Inner(replies'[i])
      <4> SUFFICES ASSUME NEW i \in 1..n, i <= Off PROVE Inner(replies'[i])
        OBVIOUS
      <4>1. CASE i = 1
        BY <1>2, <2>1, <2>2, <4>1 DEF Inner, Plain
      <4>2. CASE i \in 2..n
        BY <1>4, <2>2, <4>2 DEF InOrder, n
      <4>. QED BY <2>3, <4>1, <4>2
    <3>3. UNCHANGED callbacks
      BY <1>1 DEF sock
    <3>. QED BY <1>0, <1>4, <1>5, <2>2, <2>6, <3>1, <3>2, <3>3 DEF InOrder, Answers
  <2>9. ASSUME Complete PROVE LoopTx' /\ LoopWatch' /\ LoopDb'
    <3>1. LoopTx /\ LoopWatch /\ LoopDb
      BY <1>4, <2>9
    <3>2. UNCHANGED <<callbacks, watching, dbNumber, torn, op, server, wire>>
      BY <1>0, <1>1 DEF sock
    <3>3. \A i \in 1..n : \A j \in i+1..n : j \in 1..n
      BY <1>3
    <3>4. LoopTx'
      BY <3>1, <3>2 DEF LoopTx
    <3>5. LoopWatch'
      BY <2>2, <2>5, <3>1, <3>2, <3>3 DEF LoopWatch, WatchKnown, n
    <3>6. LoopDb'
      <4>1. Hidden => Hidden'
        BY <1>5, <2>2, <2>5 DEF Hidden, n
      <4>2. \A i \in Off+1..n : i \in 1..n
        BY <1>3
      <4>3. Recorded(replies, Off + 1) => Recorded(replies, Off + 1)'
        BY <1>5, <2>2, <2>5, <3>2, <3>3, <4>2 DEF Recorded, n
      <4>. QED BY <3>1, <3>2, <4>1, <4>3 DEF LoopDb
    <3>. QED BY <3>4, <3>5, <3>6
  <2>. QED BY <1>1, <1>7, <2>6, <2>7, <2>8, <2>9 DEF Agree, Quiet, Loop, LoopAgree
<1>. QED BY <1>1, <1>8, <1>9

\* A callback with a function is called with its reply.
LEMMA ReadElementAgrees ==
  ASSUME TypeOK, TypeOK', Shape, Framed, Blocks, Agree, Whole, ReadElement
  PROVE  Agree'
<1> DEFINE h == replies[1]
<1>0. /\ pc = "element" /\ Loop /\ Loop' /\ pos <= Len(callbacks) /\ ~Marker(callbacks[pos])
      /\ ReadsIt /\ Answered(callbacks[pos], TheReply)
      /\ pos' = pos + 1 /\ got' = NoReply
      /\ UNCHANGED <<status, stream, mode, callbacks, pipelineCmd, pc, op, left, torn>>
  BY DEF ReadElement, AtCallback, Loop
<1>1. stream /\ UNCHANGED wire /\ Fits(h) /\ Answers(h, pos) /\ Nxt = pos /\ Off = 0
  <2>1. Off = 0
    BY <1>0 DEF Off
  <2>. QED BY <1>0, <2>1, LoopArrived
<1>2. /\ h.kind \notin {"bulk", "header"}
      /\ IF got = NoReply THEN TheReply = h ELSE got.kind = "bulk" /\ h.kind = "payload" /\ TheReply = got
  BY <1>0, LoopPiece
<1>3. /\ pos + 1 \in 1..Len(callbacks)+1 /\ Phased
      /\ callbacks[pos].cmd \notin {"DISCARD", "RESET", "MULTI", "EXEC"}
      /\ InBlock(callbacks, pos + 1) <=> InBlock(callbacks, pos)
  BY <1>0, <1>1, AtCallbackOf DEF Marker
<1>4. h.for = callbacks[pos] /\ h.kind \notin {"array", "reset"} /\ h.n = 0 /\ h.elems = <<>>
  BY <1>1, <1>3 DEF Answers, Fits, Plain
<1>5. h.kind # "queued"
  BY <1>0, <1>1, <1>3 DEF Answers, Phased
<1> HIDE DEF h
<1>6. Positive(TheReply) <=> h.kind = "ok"
  BY <1>2, <1>4, <1>5 DEF Positive
<1>7. /\ Watched(h) \/ (watching /\ ~Unwatched(h)) => watching'
      /\ dbNumber' = IF Off = 0 /\ Selects(h) THEN h.for.arg ELSE dbNumber
  BY <1>0, <1>1, <1>4, <1>6 DEF Answered, Watched, Unwatched, Selects
<1>8. Phased'
  BY <1>0, <1>1, <1>3 DEF Phased, Unmarked
<1>9. Off' = 0 /\ Nxt' = Nxt + 1
  BY <1>0, <1>1 DEF Off, Nxt
<1>. QED BY <1>0, <1>1, <1>4, <1>7, <1>8, <1>9, LoopShift DEF h

\* The reply to MULTI in a pipeline.
LEMMA ReadTxOpenAgrees ==
  ASSUME TypeOK, TypeOK', Shape, Framed, Blocks, Agree, Whole, ReadTxOpen
  PROVE  Agree'
<1> DEFINE h == replies[1]
<1>0. /\ pc = "element" /\ Loop /\ pos <= Len(callbacks) /\ Marker(callbacks[pos])
      /\ ReadsIt /\ UNCHANGED <<sock, op, left, got>>
  BY DEF ReadTxOpen, AtMarker, Loop
<1>1. stream /\ UNCHANGED wire /\ Fits(h) /\ Answers(h, pos) /\ Nxt = pos /\ Off = 0
  <2>1. Off = 0
    BY <1>0 DEF Off
  <2>. QED BY <1>0, <2>1, LoopArrived
<1>2. got = NoReply /\ TheReply = h
  BY <1>0, <1>1, LoopPiece
<1>3. /\ pos + 1 \in 1..Len(callbacks)+1 /\ Phased /\ op.m # "execMulti"
      /\ callbacks[pos].cmd = "MULTI" /\ InBlock(callbacks, pos + 1)
  BY <1>0, <1>1, AtCallbackOf DEF Marker, Phased
<1>4. h.for = callbacks[pos] /\ h.n = 0 /\ h.elems = <<>>
  BY <1>1, <1>3 DEF Answers, Fits, Plain
<1> HIDE DEF h
<1>5. CASE h.kind # "ok"
  <2>1. ~Whole'
    BY <1>2, <1>5 DEF ReadTxOpen, Whole
  <2>. QED BY <2>1, NoClaim
<1>6. CASE h.kind = "ok"
  <2>1. pc' = "txqueued" /\ pos' = pos + 1 /\ UNCHANGED torn
    BY <1>2, <1>6 DEF ReadTxOpen
  <2>2. /\ ~Watched(h) /\ ~Selects(h)
    BY <1>3, <1>4 DEF Watched, Selects
  <2>3. Phased'
    BY <1>0, <1>1, <1>3, <2>1 DEF Phased, Unmarked, sock
  <2>4. Off' = 0 /\ Nxt' = Nxt + 1 /\ Loop'
    BY <1>0, <1>1, <2>1 DEF Off, Nxt, Loop
  <2>5. UNCHANGED <<callbacks, op, status, stream, watching, dbNumber>> /\ got' = NoReply
    BY <1>0, <1>2 DEF sock
  <2>. QED BY <1>0, <1>1, <1>4, <2>1, <2>2, <2>3, <2>4, <2>5, LoopShift DEF h
<1>. QED BY <1>5, <1>6

\* The replies to the commands of a transaction in a pipeline.
LEMMA ReadTxQueuedAgrees ==
  ASSUME TypeOK, TypeOK', Shape, Framed, Blocks, Agree, Whole, ReadTxQueued
  PROVE  Agree'
<1> DEFINE h == replies[1]
<1>0. /\ pc = "txqueued" /\ Loop /\ AtCallback
      /\ ReadsIt /\ UNCHANGED <<sock, op, left>> /\ got' = NoReply
  BY DEF ReadTxQueued, Loop
<1>1. stream /\ UNCHANGED wire /\ Fits(h) /\ Answers(h, pos) /\ Nxt = pos /\ Off = 0
  <2>1. Off = 0
    BY <1>0 DEF Off
  <2>. QED BY <1>0, <2>1, LoopArrived
<1>2. pos <= Len(callbacks) /\ ~Marker(callbacks[pos]) /\ h.for = callbacks[pos]
  BY <1>0, <1>1 DEF AtCallback, Answers
<1>3. /\ pos + 1 \in 1..Len(callbacks)+1 /\ Phased
      /\ callbacks[pos].cmd \notin {"MULTI", "EXEC"} /\ (InBlock(callbacks, pos) => InBlock(callbacks, pos + 1))
  BY <1>0, <1>1, <1>2, AtCallbackOf DEF Marker
<1>4. op.m # "execMulti" /\ InBlock(callbacks, pos)
  BY <1>0, <1>3 DEF Phased
<1>5. IF got = NoReply THEN TheReply = h ELSE got.kind = "bulk" /\ h.kind = "payload" /\ TheReply = got
  BY <1>0, LoopPiece
<1> HIDE DEF h
<1>6. CASE TheReply.kind # "queued"
  <2>1. ~Whole'
    BY <1>6 DEF ReadTxQueued, Whole
  <2>. QED BY <2>1, NoClaim
<1>7. CASE TheReply.kind = "queued"
  <2>1. pc' = "txqueued" /\ pos' = pos + 1 /\ UNCHANGED torn
    BY <1>0, <1>7 DEF ReadTxQueued
  <2>2. h.kind = "queued"
    BY <1>5, <1>7
  <2>3. h.n = 0 /\ h.elems = <<>> /\ ~Watched(h) /\ ~Selects(h)
    BY <1>1, <2>2 DEF Fits, Plain, Watched, Selects
  <2>4. Phased'
    BY <1>0, <1>1, <1>3, <1>4, <2>1 DEF Phased, Unmarked, sock
  <2>5. Off' = 0 /\ Nxt' = Nxt + 1 /\ Loop'
    BY <1>0, <1>1, <2>1 DEF Off, Nxt, Loop
  <2>6. UNCHANGED <<callbacks, op, status, stream, watching, dbNumber>>
    BY <1>0 DEF sock
  <2>. QED BY <1>0, <1>1, <2>1, <2>3, <2>4, <2>5, <2>6, LoopShift DEF h
<1>. QED BY <1>6, <1>7

\* The next element of a transaction in a pipeline.
LEMMA ReadTxElementAgrees ==
  ASSUME TypeOK, TypeOK', Shape, Framed, Blocks, Agree, Whole, ReadTxElement
  PROVE  Agree'
<1> DEFINE h == replies[1]
<1>0. /\ pc = "txelement" /\ Loop /\ NextTxElement
      /\ ReadsIt /\ UNCHANGED <<sock, op>> /\ got' = NoReply
      /\ torn' = IF TheReply.for.cmd = "SELECT" THEN torn \cup {"dbUnseen"} ELSE torn
  BY DEF ReadTxElement, Loop
<1>1. Off = left /\ Nxt = pos + 1 /\ left \in Nat \ {0} /\ Off > 0
  BY <1>0 DEF Off, Nxt, Shape
<1>2. stream /\ UNCHANGED wire /\ Fits(h) /\ Inner(h)
  BY <1>0, <1>1, LoopArrived
<1>3. IF got = NoReply THEN TheReply = h ELSE got.kind = "bulk" /\ h.kind = "payload" /\ TheReply = got
  BY <1>0, LoopPiece
<1>4. Phased
  BY <1>0, <1>2 DEF Agree, LoopAgree
<1>5. /\ pos + 1 \in 1..Len(callbacks)+1 /\ callbacks[pos].cmd = "EXEC" /\ ~InBlock(callbacks, pos + 1)
      /\ op.m # "execMulti"
  BY <1>0, <1>2, <1>4, AtCallbackOf DEF Phased
<1>6. h.kind # "array" /\ h.n = 0 /\ h.elems = <<>>
  BY <1>2 DEF Inner, Plain
<1> HIDE DEF h
<1>7. torn' = {} => torn = {} /\ h.for.cmd # "SELECT"
  <2>1. h.kind = "payload" => h.for.cmd = "DATA"
    BY <1>2 DEF Inner, Plain
  <2>. QED BY <1>0, <1>3, <2>1
<1>8. ~Watched(h)
  BY <1>2 DEF Watched, Inner
<1>9. Off' = Off - 1 /\ Nxt' = Nxt /\ Loop'
  <2>1. CASE left = 1
    BY <1>0, <1>1, <2>1 DEF Off, Nxt, Loop, NextTxElement
  <2>2. CASE left # 1
    BY <1>0, <1>1, <2>2 DEF Off, Nxt, Loop, NextTxElement
  <2>. QED BY <2>1, <2>2
<1>10. UNCHANGED <<callbacks, op, status, stream, watching, dbNumber>>
  BY <1>0 DEF sock
<1>11. Phased'
  <2>1. CASE left = 1
    BY <1>0, <1>2, <1>5, <1>10, <2>1 DEF Phased, Unmarked, NextTxElement
  <2>2. CASE left # 1
    BY <1>0, <1>2, <1>4, <1>10, <2>2 DEF Phased, Unmarked, NextTxElement
  <2>. QED BY <2>1, <2>2
<1>. QED BY <1>0, <1>1, <1>2, <1>6, <1>7, <1>8, <1>9, <1>10, <1>11, LoopShift DEF h

\* The array of a transaction in a pipeline: its elements are read next, and the
\* replies that follow them move back by as many places.
LEMMA TxExecOpens ==
  ASSUME TypeOK, TypeOK', Shape, Framed, Agree, Whole, Loop, Loop', ReadsIt, NEW h, h = replies[1],
         h.for.cmd = "EXEC", h.n > 0, got = NoReply, got' = NoReply,
         UNCHANGED <<callbacks, op, status, stream, watching, dbNumber, torn>>,
         Off = 0, Off' = h.n, Nxt' = Nxt + 1, Phased'
  PROVE  Agree'
<1> DEFINE n == Len(replies)
           m == Len(h.elems)
           d == h.n
<1>0. /\ stream /\ UNCHANGED <<server, wire>> /\ LoopAgree /\ n >= 1 /\ h \in Reply /\ Fits(h)
      /\ h.kind # "header" /\ h.elems \in Seq(Element) /\ m \in Nat
      /\ Len(replies') = m + n - 1
      /\ \A i \in 1..m : replies'[i] = h.elems[i]
      /\ \A i \in m+1..Len(replies') : replies'[i] = replies[i - m + 1]
  <2>1. h.kind \notin {"bulk", "header"}
    BY LoopPiece
  <2>. QED BY <2>1, LoopArrived
<1>1. /\ Len(callbacks) \in Nat /\ n \in Nat /\ Len(wire) \in Nat
      /\ Nxt \in Nat /\ d \in Nat /\ d > 0 /\ m <= d /\ Len(replies') \in Nat
  BY <1>0, LoopTypes DEF Reply, Fits
<1>2. h.kind = "array" /\ \A j \in 1..m : Inner(h.elems[j]) /\ h.elems[j] \in Element
  BY <1>0, <1>1 DEF Fits, Plain
<1>3. Entire(h) <=> m = d /\ \A j \in 1..m : h.elems[j].kind # "header"
  BY <1>0, <1>2 DEF Entire
<1>4. \A j \in 1..m : Entire(h.elems[j]) <=> h.elems[j].kind # "header"
  BY <1>2, ElementFits DEF Entire
<1>5. n > 1 => Entire(h)
  <2>1. 1 \in 1..n
    BY <1>0, <1>1
  <2>. QED BY <2>1 DEF Framed, RepliesFit, n
<1>6. /\ Half /\ InOrder /\ Phased /\ (Complete => LoopTx /\ LoopWatch /\ LoopDb)
  BY <1>0 DEF LoopAgree
<1>7. ~Watched(h) /\ Unwatched(h) /\ ~Selects(h)
  BY DEF Watched, Unwatched, Selects
<1>8. 1 \in 1..n /\ \A i \in 1..n : i = 1 \/ i \in 2..n
  BY <1>0, <1>1
<1>9. h = replies[1] /\ Off = 0 /\ Off' = d /\ Nxt' = Nxt + 1
  BY DEF d
<1>13. /\ m \in Nat /\ n \in Nat /\ n >= 1 /\ Len(replies') = m + n - 1
       /\ \A i \in m+1..m+n-1 : replies'[i] = replies[i - m + 1]
  BY <1>0, <1>1
<1> HIDE DEF n, m, d
<1>10. \A i \in 2..n : i + m - 1 \in m+1..m+n-1 /\ i + m - 1 \in 1..m+n-1 /\ replies'[i + m - 1] = replies[i]
  <2> SUFFICES ASSUME NEW i \in 2..n
               PROVE  i + m - 1 \in m+1..m+n-1 /\ i + m - 1 \in 1..m+n-1 /\ replies'[i + m - 1] = replies[i]
    OBVIOUS
  <2>1. i + m - 1 \in m+1..m+n-1 /\ i + m - 1 \in 1..m+n-1 /\ (i + m - 1) - m + 1 = i
    BY <1>13
  <2>. QED BY <1>13, <2>1
<1>11. \A i \in m+1..m+n-1 : i - m + 1 \in 2..n /\ replies'[i] = replies[i - m + 1]
  BY <1>13
<1>12. \A i \in 1..m+n-1 : i \in 1..m \/ i \in m+1..m+n-1
  BY <1>0, <1>1
<1>14. Half'
  BY DEF Half
<1>15. Complete => m = d /\ n + Len(wire) = Len(callbacks) + 1 - Nxt
  <2>1. Complete => n - 0 + Len(wire) = Len(callbacks) + 1 - Nxt /\ Entire(h)
    BY <1>8, <1>9 DEF Complete, Due, n
  <2>. QED BY <1>1, <1>3, <2>1
<1>16. Complete => Complete'
  <2> SUFFICES ASSUME Complete PROVE Complete'
    OBVIOUS
  <2>1. \A i \in 1..n : Entire(replies[i])
    BY DEF Complete, n
  <2>2. Entire(h)
    BY <1>8, <1>9, <2>1
  <2>3. \A i \in 1..m+n-1 : Entire(replies'[i])
    <3> SUFFICES ASSUME NEW i \in 1..m+n-1 PROVE Entire(replies'[i])
      OBVIOUS
    <3>1. CASE i \in 1..m
      BY <1>0, <1>3, <1>4, <2>2, <3>1 DEF m
    <3>2. CASE i \in m+1..m+n-1
      <4>1. i - m + 1 \in 1..n
        BY <1>1, <1>11, <3>2
      <4>. QED BY <1>11, <2>1, <3>2, <4>1
    <3>. QED BY <1>12, <3>1, <3>2
  <2>4. (m + n - 1) - d + Len(wire) = Len(callbacks) + 1 - (Nxt + 1) /\ d <= m + n - 1
    <3>1. n >= 1
      BY <1>0 DEF n
    <3>. QED BY <1>1, <1>13, <1>15, <3>1
  <2>5. Due' = Len(callbacks) + 1 - (Nxt + 1)
    BY <1>9 DEF Due
  <2>6. Len(replies') - Off' + Len(wire') = Due' /\ Off' <= Len(replies')
    BY <1>0, <1>9, <1>13, <2>4, <2>5
  <2>7. got'.kind # "header"
    BY DEF NoReply
  <2>. QED BY <1>13, <2>3, <2>6, <2>7 DEF Complete
<1>17. Complete' => Complete
  <2> SUFFICES ASSUME Complete' PROVE Complete
    OBVIOUS
  <2>1. /\ (m + n - 1) - d + Len(wire) = Len(callbacks) + 1 - (Nxt + 1) /\ d <= m + n - 1
        /\ \A i \in 1..m+n-1 : Entire(replies'[i])
    BY <1>0, <1>9, <1>13 DEF Complete, Due
  <2>2. m = d
    <3>1. CASE n > 1
      BY <1>3, <1>5, <3>1
    <3>2. CASE ~(n > 1)
      BY <1>1, <1>13, <2>1, <3>2
    <3>. QED BY <3>1, <3>2
  <2>3. Entire(h)
    <3>1. \A j \in 1..m : j \in 1..m+n-1
      BY <1>1, <1>8, <1>13
    <3>2. \A j \in 1..m : Entire(h.elems[j])
      BY <1>0, <2>1, <3>1 DEF m
    <3>. QED BY <1>3, <1>4, <2>2, <3>2
  <2>4. \A i \in 1..n : Entire(replies[i])
    <3> SUFFICES ASSUME NEW i \in 1..n PROVE Entire(replies[i])
      OBVIOUS
    <3>1. CASE i \in 2..n
      BY <1>10, <2>1, <3>1
    <3>. QED BY <1>8, <1>9, <2>3, <3>1
  <2>5. n - 0 + Len(wire) = Len(callbacks) + 1 - Nxt /\ 0 <= n
    BY <1>1, <1>13, <2>1, <2>2
  <2>6. got.kind # "header"
    BY DEF NoReply
  <2>. QED BY <1>9, <2>4, <2>5, <2>6 DEF Complete, Due, n
<1>18. InOrder'
  <2>1. \A i \in 1..m+n-1 : i > d => Answers(replies'[i], Nxt + 1 + i - d - 1)
    <3> SUFFICES ASSUME NEW i \in 1..m+n-1, i > d PROVE Answers(replies'[i], Nxt + 1 + i - d - 1)
      OBVIOUS
    <3>1. i \in m+1..m+n-1
      BY <1>1, <1>12, <1>13
    <3>2. i - m + 1 \in 2..n /\ replies'[i] = replies[i - m + 1] /\ n > 1
      BY <1>1, <1>11, <3>1
    <3>3. m = d
      BY <1>3, <1>5, <3>2
    <3>4. i - m + 1 \in 1..n /\ i - m + 1 > 0 /\ Nxt + (i - m + 1) - 0 - 1 = Nxt + 1 + i - d - 1
      BY <1>1, <1>13, <3>2, <3>3
    <3>5. Answers(replies[i - m + 1], Nxt + (i - m + 1) - 0 - 1)
      BY <1>6, <1>9, <3>4 DEF InOrder, n
    <3>. QED BY <3>2, <3>4, <3>5
  <2>2. \A i \in 1..m+n-1 : i <= d => Inner(replies'[i])
    <3> SUFFICES ASSUME NEW i \in 1..m+n-1, i <= d PROVE Inner(replies'[i])
      OBVIOUS
    <3>1. i \in 1..m
      <4> SUFFICES ASSUME i \in m+1..m+n-1 PROVE FALSE
        BY <1>12
      <4>1. n > 1
        BY <1>1, <1>11
      <4>2. m = d
        BY <1>3, <1>5, <4>1
      <4>. QED BY <1>1, <4>2
    <3>. QED BY <1>0, <1>2, <3>1 DEF m
  <2>3. server'.alive => Complete'
    BY <1>0, <1>6, <1>16 DEF InOrder
  <2>4. Len(wire) <= Len(callbacks) /\ \A i \in 1..Len(wire) : wire[i] = callbacks[Len(callbacks) - Len(wire) + i]
    BY <1>6 DEF InOrder
  <2>. QED BY <1>0, <1>9, <1>13, <2>1, <2>2, <2>3, <2>4 DEF InOrder, Answers
<1>19. ASSUME Complete PROVE LoopTx' /\ LoopWatch' /\ LoopDb'
  <2>0. LoopTx /\ LoopWatch /\ LoopDb /\ m = d
    BY <1>6, <1>15, <1>19
  <2>1. LoopTx'
    BY <1>0, <2>0 DEF LoopTx
  <2>2. LoopWatch'
    <3> SUFFICES ASSUME server.watch PROVE WatchKnown'
      BY <1>0, <2>0 DEF LoopWatch
    <3>1. PICK i \in 1..n : Watched(replies[i]) /\ \A j \in i+1..n : ~Unwatched(replies[j])
      BY <1>7, <1>8, <1>9, <2>0 DEF LoopWatch, WatchKnown, n
    <3>2. i \in 2..n
      BY <1>7, <1>8, <1>9, <3>1
    <3>3. \A j \in i+m-1+1..m+n-1 : j \in m+1..m+n-1 /\ j - m + 1 \in i+1..n
      BY <1>1, <1>13, <3>2
    <3>4. Watched(replies'[i + m - 1]) /\ \A j \in i+m-1+1..m+n-1 : ~Unwatched(replies'[j])
      BY <1>10, <1>11, <3>1, <3>2, <3>3
    <3>5. i + m - 1 \in 1..m+n-1
      BY <1>10, <3>2
    <3>. QED BY <1>13, <3>4, <3>5 DEF WatchKnown
  <2>3. LoopDb'
    <3> SUFFICES ASSUME torn = {} PROVE Hidden' \/ Recorded(replies, Off + 1)'
      BY DEF LoopDb
    <3>1. CASE Hidden
      <4>1. PICK i \in 1..n : HiddenIn(replies[i])
        BY <1>9, <3>1 DEF Hidden, n
      <4>2. CASE i = 1
        <5>1. PICK j \in 1..m : h.elems[j].for.cmd = "SELECT"
          BY <1>9, <4>1, <4>2 DEF HiddenIn, m
        <5>2. j \in 1..m+n-1 /\ j <= d /\ replies'[j] = h.elems[j]
          BY <1>0, <1>1, <1>8, <1>13, <2>0 DEF m
        <5>. QED BY <1>9, <1>13, <5>1, <5>2 DEF Hidden
      <4>3. CASE i \in 2..n
        BY <1>10, <1>13, <4>1, <4>3 DEF Hidden
      <4>. QED BY <1>8, <4>2, <4>3
    <3>2. CASE \E i \in 1..n : /\ Selects(replies[i]) /\ server.db = replies[i].for.arg
                               /\ \A j \in i+1..n : ~Selects(replies[j])
      <4>1. PICK i \in 1..n : /\ Selects(replies[i]) /\ server.db = replies[i].for.arg
                              /\ \A j \in i+1..n : ~Selects(replies[j])
        BY <3>2
      <4>2. i \in 2..n
        BY <1>7, <1>8, <1>9, <4>1
      <4>3. \A j \in i+m-1+1..m+n-1 : j \in m+1..m+n-1 /\ j - m + 1 \in i+1..n
        BY <1>1, <1>13, <4>2
      <4>4. /\ Selects(replies'[i + m - 1]) /\ server.db = replies'[i + m - 1].for.arg
            /\ \A j \in i+m-1+1..m+n-1 : ~Selects(replies'[j])
        BY <1>10, <1>11, <4>1, <4>2, <4>3
      <4>5. i + m - 1 \in d+1..m+n-1
        BY <1>10, <2>0, <4>2
      <4>. QED BY <1>0, <1>9, <1>13, <4>4, <4>5 DEF Recorded
    <3>3. CASE server.db = dbNumber /\ \A j \in 1..n : ~Selects(replies[j])
      <4>1. \A j \in d+1..m+n-1 : j \in m+1..m+n-1 /\ j - m + 1 \in 1..n
        BY <1>1, <1>13, <2>0
      <4>2. \A j \in d+1..m+n-1 : ~Selects(replies'[j])
        BY <1>11, <3>3, <4>1
      <4>. QED BY <1>0, <1>9, <1>13, <3>3, <4>2 DEF Recorded
    <3>4. Off + 1 = 1
      BY <1>9
    <3>. QED BY <2>0, <3>1, <3>2, <3>3, <3>4 DEF LoopDb, Recorded, n
  <2>. QED BY <2>1, <2>2, <2>3
<1>20. LoopAgree'
  BY <1>14, <1>17, <1>18, <1>19 DEF LoopAgree
<1>. QED BY <1>20 DEF Agree, Quiet, Loop

\* The reply to EXEC in a pipeline.
LEMMA ReadTxExecAgrees ==
  ASSUME TypeOK, TypeOK', Shape, Framed, Blocks, Agree, Whole, ReadTxExec
  PROVE  Agree'
<1> DEFINE h == replies[1]
<1>0. /\ pc = "txqueued" /\ Loop /\ AtMarker
      /\ ReadsIt /\ UNCHANGED <<sock, op, got, torn>> /\ left' = TheReply.n
  BY DEF ReadTxExec, Loop
<1>1. /\ stream /\ UNCHANGED wire /\ Fits(h) /\ h \in Reply /\ h.elems \in Seq(Element)
      /\ Answers(h, pos) /\ Nxt = pos /\ Off = 0
  <2>1. Off = 0
    BY <1>0 DEF Off
  <2>. QED BY <1>0, <2>1, LoopArrived
<1>2. pos <= Len(callbacks) /\ Marker(callbacks[pos]) /\ h.for = callbacks[pos]
  BY <1>0, <1>1 DEF AtMarker, Answers
<1>3. got = NoReply /\ TheReply = h
  BY <1>0, <1>1, <1>2, LoopPiece
<1>4. pos + 1 \in 1..Len(callbacks)+1 /\ Phased /\ op.m # "execMulti" /\ InBlock(callbacks, pos)
  BY <1>0, <1>1, <1>2, AtCallbackOf DEF Phased
<1>5. callbacks[pos].cmd = "EXEC" /\ ~InBlock(callbacks, pos + 1)
  BY <1>0, <1>1, <1>2, <1>4, AtCallbackOf DEF Marker
<1>6. UNCHANGED <<callbacks, op, status, stream, watching, dbNumber, torn>> /\ got' = NoReply
  BY <1>0, <1>3 DEF sock
<1>7. h.n \in Nat /\ Len(h.elems) \in Nat /\ Len(h.elems) <= h.n
  BY <1>1 DEF Reply, Fits
<1> HIDE DEF h
<1>8. CASE h.n > 0
  <2>1. pc' = "txelement" /\ pos' = pos /\ left' = h.n
    BY <1>0, <1>3, <1>8 DEF ReadTxExec
  <2>2. Phased'
    BY <1>1, <1>2, <1>4, <1>5, <1>6, <2>1 DEF Phased, Unmarked
  <2>3. Off' = h.n /\ Nxt' = Nxt + 1 /\ Loop'
    BY <1>1, <2>1 DEF Off, Nxt, Loop
  <2>. QED BY <1>0, <1>1, <1>2, <1>3, <1>5, <1>6, <1>8, <2>2, <2>3, TxExecOpens DEF h
<1>9. CASE ~(h.n > 0)
  <2>1. pc' = "element" /\ pos' = pos + 1
    BY <1>0, <1>3, <1>9 DEF ReadTxExec
  <2>2. h.n = 0 /\ h.elems = <<>>
    <3>1. h.n = 0 /\ Len(h.elems) = 0
      BY <1>7, <1>9
    <3>. QED BY <1>1, <3>1, EmptySeq
  <2>3. ~Watched(h) /\ Unwatched(h) /\ ~Selects(h)
    BY <1>2, <1>5 DEF Watched, Unwatched, Selects
  <2>4. Phased'
    BY <1>1, <1>4, <1>5, <1>6, <2>1 DEF Phased, Unmarked
  <2>5. Off' = 0 /\ Nxt' = Nxt + 1 /\ Loop'
    BY <1>1, <2>1 DEF Off, Nxt, Loop
  <2>. QED BY <1>0, <1>1, <1>6, <2>2, <2>3, <2>4, <2>5, LoopShift DEF h
<1>. QED BY <1>8, <1>9

-----------------------------------------------------------------------------
(* Every step. *)

\* Nothing is claimed of a connection that is closed, or on which one of the
\* events of torn has happened.
LEMMA ClosedAgrees ==
  ASSUME Framed,
         \/ Close \/ CheckEofFails \/ WriteRawFails \/ ReadSeesEof \/ ReadTimesOut
         \/ ReadStopsShort \/ ReadClosed \/ PastTheEnd
  PROVE  Agree'
<1>1. CASE Close \/ CheckEofFails \/ WriteRawFails \/ ReadSeesEof \/ ReadTimesOut
  <2>1. ~stream'
    BY <1>1 DEF Close, CheckEofFails, WriteRawFails, ReadSeesEof, ReadTimesOut, Disconnected
  <2>. QED BY <2>1, NoClaim
<1>2. CASE ReadStopsShort
  <2>1. ~Whole'
    BY <1>2 DEF ReadStopsShort, Whole
  <2>. QED BY <2>1, NoClaim
<1>3. CASE ReadClosed
  <2>1. ~stream'
    BY <1>3 DEF ReadClosed, Connected, Framed, Streamed, sock
  <2>. QED BY <2>1, NoClaim
<1>4. CASE PastTheEnd
  <2>1. pc' = "freed"
    BY <1>4 DEF PastTheEnd, Goes
  <2>. QED BY <2>1, NoClaim
<1>. QED BY <1>1, <1>2, <1>3, <1>4

\* A reply of exec() is read.
LEMMA ReadAgrees ==
  ASSUME TypeOK, TypeOK', Shape, Framed, Framed', Blocks, Agree,
         \/ ReadBulkHeader \/ ReadExec \/ ReadElement \/ ReadTxOpen \/ ReadTxQueued
         \/ ReadTxExec \/ ReadTxElement
  PROVE  Agree'
<1>1. CASE ~Whole
  <2>1. torn \subseteq torn'
    BY DEF ReadBulkHeader, ReadExec, ReadElement, ReadTxOpen, ReadTxQueued, ReadTxExec, ReadTxElement
  <2>. QED BY <1>1, <2>1, NoClaim DEF Whole
<1>2. CASE Whole /\ ReadBulkHeader
  <2>1. pc = "reply" \/ Loop
    BY <1>2 DEF ReadBulkHeader, SockReads, VariantReads, Loop
  <2>. QED BY <1>2, <2>1, OneHeaderAgrees, LoopHeaderAgrees
<1>3. CASE Whole /\ ~ReadBulkHeader
  BY <1>3, ReadExecAgrees, ReadElementAgrees, ReadTxOpenAgrees, ReadTxQueuedAgrees, ReadTxExecAgrees,
     ReadTxElementAgrees
<1>. QED BY <1>1, <1>2, <1>3

\* The server takes a command.
LEMMA ServerAgrees ==
  ASSUME TypeOK, Framed, Blocks, Agree, Server
  PROVE  Agree'
<1>1. PICK r \in Reply : Handles1(r)
  BY ServerHandles DEF Framed
<1>2. UNCHANGED <<sock, call, torn>> /\ wire # <<>>
  BY <1>1 DEF Handles1, Replied
<1>3. CASE ~stream \/ ~Whole \/ pc = "freed"
  <2>1. ~stream' \/ ~Whole' \/ pc' = "freed"
    BY <1>2, <1>3 DEF sock, call, Whole
  <2>. QED BY <2>1, NoClaim
<1>4. CASE stream /\ Whole /\ pc # "freed"
  <2>1. ~Quiet
    BY <1>2, <1>4 DEF Agree, QuietAgree
  <2>2. pc \in {"reply", "exec"} \/ Loop
    BY <1>4, <2>1, TypeParts DEF CallTypes, PCs, Quiet, Loop
  <2>. QED BY <1>1, <1>4, <2>2, OneHandled, LoopHandled
<1>. QED BY <1>3, <1>4

LEMMA SameAgrees ==
  ASSUME Agree, UNCHANGED vars
  PROVE  Agree'
<1>1. UNCHANGED <<status, stream, mode, watching, dbNumber, callbacks, pc, op, pos, left, got,
                  server, wire, replies, torn>>
  BY DEF vars, sock, call, net
<1>2. QuietAgree' <=> QuietAgree
  BY <1>1 DEF QuietAgree, Tx
<1>3. OneAgree => OneAgree'
  <2>1. TheReply' = TheReply /\ Tx' = Tx
    BY <1>1 DEF TheReply, Tx
  <2>2. Told(TheReply) => Told(TheReply)'
    BY <1>1, <2>1 DEF Told, ToldTx, ToldWatch, ToldDb, Recorded, Tx, Atomic
  <2>3. (Asked => Asked') /\ (Lost => Lost')
    BY <1>1, <2>1 DEF Asked, Lost
  <2>4. Answer => Answer'
    BY <1>1, <2>2 DEF Answer
  <2>. QED BY <1>1, <2>3, <2>4 DEF OneAgree, Unmarked
<1>4. LoopAgree => LoopAgree'
  <2>1. Off' = Off /\ Nxt' = Nxt /\ Due' = Due
    BY <1>1 DEF Off, Nxt, Due
  <2>2. (Half => Half') /\ (Phased => Phased') /\ (Complete' <=> Complete)
    BY <1>1, <2>1 DEF Half, Phased, Complete, Unmarked
  <2>3. InOrder => InOrder'
    BY <1>1, <2>1, <2>2 DEF InOrder, Answers
  <2>4. (LoopTx => LoopTx') /\ (LoopWatch => LoopWatch') /\ (LoopDb => LoopDb')
    BY <1>1, <2>1 DEF LoopTx, LoopWatch, LoopDb, WatchKnown, Hidden, Recorded
  <2>. QED BY <2>2, <2>3, <2>4 DEF LoopAgree
<1>. QED BY <1>1, <1>2, <1>3, <1>4 DEF Agree, Whole, Quiet, Loop

LEMMA NextAgrees ==
  ASSUME TypeOK, TypeOK', Shape, PipelineInv, Framed, Framed', Blocks, Emptied, Agree, [Next]_vars
  PROVE  Agree'
<1>1. CASE Application
  BY <1>1, MethodAgrees, ObjectAgrees DEF Application
<1>2. CASE Client
  <2>1. CASE \/ ServerOpen \/ NewObject
             \/ Enqueue \/ EnterPipeline \/ EnqueueMarker \/ NothingToDo \/ EmptyPipeline
             \/ StartWrite \/ CheckEofLive \/ CheckEofReconnects
    BY <2>1, ServerOpenAgrees, ObjectAgrees, MethodAgrees
  <2>2. CASE WriteRaw \/ EndOfLoop \/ ExecDone
    BY <2>2, WriteRawAgrees, EndOfLoopAgrees, ExecDoneAgrees
  <2>3. CASE \/ Close \/ CheckEofFails \/ WriteRawFails \/ ReadSeesEof \/ ReadTimesOut
             \/ ReadStopsShort \/ ReadClosed \/ PastTheEnd
    BY <2>3, ClosedAgrees
  <2>4. CASE ReadAnswer \/ ReadQueued \/ ReadMulti \/ ReadDiscard \/ ReadReset \/ ReadFarewell
    BY <2>4, OneReadAgrees
  <2>5. CASE \/ ReadBulkHeader \/ ReadExec \/ ReadElement \/ ReadTxOpen \/ ReadTxQueued
             \/ ReadTxExec \/ ReadTxElement
    BY <2>5, ReadAgrees
  <2>. QED BY <1>2, <2>1, <2>2, <2>3, <2>4, <2>5 DEF Client
<1>3. CASE Server
  BY <1>3, ServerAgrees
<1>4. CASE Environment
  BY <1>4, TouchesAgrees, ClosesAgrees DEF Environment
<1>5. CASE UNCHANGED vars
  BY <1>5, SameAgrees
<1>. QED BY <1>1, <1>2, <1>3, <1>4, <1>5 DEF Next

-----------------------------------------------------------------------------
(* The inductive invariant, and the theorems. *)

AgreeInv == TypeOK /\ Shape /\ PipelineInv /\ Framed /\ Blocks /\ Emptied /\ Agree

LEMMA InitInv ==
  Init => AgreeInv
<1> SUFFICES ASSUME Init PROVE AgreeInv
  OBVIOUS
<1>1. /\ status \in {"DISCONNECTED", "CONNECTED"} /\ stream = (status = "CONNECTED")
      /\ mode = {} /\ watching = FALSE /\ dbNumber = 0 /\ callbacks = <<>> /\ pipelineCmd = <<>>
      /\ pc = "idle" /\ op = NoOp /\ got = NoReply /\ wire = <<>> /\ replies = <<>> /\ torn = {}
      /\ server = IF stream THEN Fresh(0) ELSE Gone
  BY DEF Init
<1>2. /\ server.tx = "none" /\ server.queue = <<>> /\ ~server.watch /\ server.db = 0
  BY <1>1 DEF Fresh, Gone
<1>3. Len(<<>>) = 0
  OBVIOUS
<1>4. TypeOK /\ Shape
  BY InitTypes
<1>5. PipelineInv
  BY DEF Init, PipelineInv, PipelineCalls, InPipeline, NoOp
<1>6. Streamed
  BY <1>1 DEF Streamed
<1>7. Stepped
  BY <1>1 DEF Stepped, NoOp, AllMethods, Loop
<1>8. QueueFits /\ RepliesFit
  BY <1>1, <1>2, <1>3 DEF QueueFits, RepliesFit
<1>9. Blocks
  BY <1>1 DEF Blocks, InPipeline
<1>10. Emptied
  BY <1>1 DEF Emptied
<1>11. Agree
  <2>1. QuietAgree
    BY <1>1, <1>2 DEF QuietAgree, Tx
  <2>. QED BY <1>1, <2>1 DEF Agree, Loop
<1>. QED BY <1>4, <1>5, <1>6, <1>7, <1>8, <1>9, <1>10, <1>11 DEF AgreeInv, Framed

LEMMA NextInv ==
  AgreeInv /\ [Next]_vars => AgreeInv'
<1> SUFFICES ASSUME AgreeInv, [Next]_vars PROVE AgreeInv'
  OBVIOUS
<1>1. TypeOK' /\ Shape'
  BY NextTypes DEF AgreeInv
<1>2. PipelineInv'
  BY NextPipeline DEF AgreeInv
<1>3. Framed' /\ Blocks'
  BY <1>1, <1>2, NextFrame DEF AgreeInv
<1>4. Emptied'
  BY <1>2, NextEmptied DEF AgreeInv
<1>5. Agree'
  BY <1>1, <1>3, NextAgrees DEF AgreeInv
<1>. QED BY <1>1, <1>2, <1>3, <1>4, <1>5 DEF AgreeInv

\* What a method reads next is the reply to what it sent.
LEMMA OursByInv ==
  AgreeInv => RepliesMatched
<1> SUFFICES ASSUME AgreeInv PROVE ReplyIsOurs /\ NothingUnread
  BY DEF RepliesMatched
<1>1. NothingUnread
  <2> SUFFICES ASSUME Whole, pc = "idle" PROVE wire = <<>> /\ replies = <<>>
    BY DEF NothingUnread, Whole
  <2>. QED BY DEF AgreeInv, Framed, Streamed, Gone, Fresh, Agree, Quiet, QuietAgree
<1>2. ReplyIsOurs
  <2> SUFFICES ASSUME Whole, Reading, ~VariantReads, got = NoReply, replies # <<>>
               PROVE  Head(replies).for = Expected
    BY DEF ReplyIsOurs, Whole
  <2>1. stream /\ replies \in Seq(Reply) /\ Len(replies) \in Nat /\ pos \in Nat
    BY TypeParts DEF AgreeInv, Framed, Streamed, NetTypes, CallTypes
  <2>2. 1 \in 1..Len(replies) /\ Head(replies) = replies[1]
    BY <2>1
  <2>3. CASE pc \in {"reply", "exec"}
    <3>1. Answer
      BY <2>1, <2>3 DEF AgreeInv, Agree, OneAgree, Asked, Lost
    <3>. QED BY <2>2, <2>3, <3>1 DEF Answer, Expected
  <2>4. CASE pc \in {"element", "txqueued"}
    <3>1. LoopAgree /\ Off = 0 /\ Nxt = pos /\ Nxt + 1 - Off - 1 = pos
      BY <2>1, <2>4 DEF AgreeInv, Agree, Loop, Off, Nxt
    <3>2. Answers(replies[1], pos)
      BY <2>2, <3>1 DEF LoopAgree, InOrder
    <3>. QED BY <2>2, <2>4, <3>2 DEF Answers, Expected
  <2>. QED BY <2>3, <2>4 DEF Reading, SockReads, SockGets, VariantReads
<1>. QED BY <1>1, <1>2

LEMMA MirroredByInv ==
  AgreeInv => ServerMirrored
<1> SUFFICES ASSUME AgreeInv PROVE TxMirrored /\ WatchMirrored /\ DbMirrored
  BY DEF ServerMirrored
<1>1. Whole /\ pc = "idle" /\ stream => QuietAgree
  BY DEF AgreeInv, Agree, Quiet
<1>2. TxMirrored
  BY <1>1 DEF TxMirrored, Whole, QuietAgree, Tx
<1>3. WatchMirrored
  BY <1>1 DEF WatchMirrored, Whole, QuietAgree
<1>4. DbMirrored
  <2>1. status = "READY" => stream
    BY DEF AgreeInv, Framed, Streamed
  <2>2. torn = {} => Whole
    BY DEF Whole
  <2>. QED BY <1>1, <2>1, <2>2 DEF DbMirrored, QuietAgree
<1>. QED BY <1>2, <1>3, <1>4

\* Only redis_check_eof leaves the check for the write on another connection.
LEMMA SilentByInv ==
  ASSUME AgreeInv, [Next]_vars, Whole, pc = "check", pc' = "write", server' # server
  PROVE  server.tx = "none" /\ ~server.watch
<1>1. CheckEofReconnects
  <2>1. pc # pc'
    OBVIOUS
  <2>2. CASE Application
    BY <2>2 DEF Application, Call, Reconnect, Destruct, Connect, Callable, call
  <2>3. CASE Server \/ Environment
    <3>1. UNCHANGED call
      BY <2>3, ServerHandles DEF AgreeInv, Framed, Handles1, Replied, Environment, ServerTouches, ServerCloses
    <3>. QED BY <2>1, <3>1 DEF call
  <2>4. CASE Client
    <3>1. CheckEofLive \/ CheckEofFails \/ CheckEofReconnects
      BY <2>4 DEF Client, ServerOpen, NewObject, Enqueue, EnterPipeline, EnqueueMarker, NothingToDo,
         EmptyPipeline, Close, StartWrite, WriteRaw, WriteRawFails, ReadBulkHeader, ReadAnswer, ReadQueued,
         ReadMulti, ReadDiscard, ReadReset, ReadFarewell, ReadExec, ReadElement, EndOfLoop, ReadTxOpen,
         ReadTxQueued, ReadTxExec, PastTheEnd, ReadTxElement, ExecDone, ReadSeesEof, ReadTimesOut,
         ReadStopsShort, ReadClosed, Reading, SockReads, SockGets, VariantReads
    <3>2. ~CheckEofLive
      BY DEF CheckEofLive, net
    <3>3. ~CheckEofFails
      BY DEF CheckEofFails, WriteFailed, Goes, Returns
    <3>. QED BY <3>1, <3>2, <3>3
  <2>. QED BY <2>1, <2>2, <2>3, <2>4 DEF Next, vars, call
<1>2. mode # {"MULTI"} /\ ~watching
  BY <1>1 DEF CheckEofReconnects, MayReconnect
<1>3. QuietAgree /\ Tx
  BY DEF AgreeInv, Framed, Streamed, Agree, Quiet, QuietAgree
<1>. QED BY <1>2, <1>3 DEF QuietAgree, Tx

LEMMA AlwaysInv ==
  Spec => []AgreeInv
BY InitInv, NextInv, PTL DEF Spec

\* Whatever the server and the network do between two steps, a method reads the
\* reply to the command it sent, each callback of exec() the one to its own
\* command, and no call leaves a reply for the next (redis_process_cmd,
\* redis_sock_read_multibulk_multi_reply_loop), unless the loop of exec() gave up,
\* a read stopped short, or callbacks of an earlier connection were left.
THEOREM RepliesAreMatched ==
  Spec => []RepliesMatched
BY AlwaysInv, OursByInv, PTL

\* Between calls on an open connection RedisSock.mode, watching, dbNumber and the
\* callbacks are what the server holds for the connection.
THEOREM ServerIsMirrored ==
  Spec => []ServerMirrored
BY AlwaysInv, MirroredByInv, PTL

\* redis_check_eof never moves a command of a transaction, or of one that watches
\* keys, to a new connection that knows nothing of them.
THEOREM NeverReconnectsSilently ==
  Spec => NoSilentReconnect
<1>1. AgreeInv /\ [Next]_vars =>
        [(torn \subseteq {"dbUnseen"} /\ pc = "check" /\ pc' = "write" /\ server' # server)
           => server.tx = "none" /\ ~server.watch]_vars
  BY SilentByInv DEF Whole
<1>. QED BY <1>1, AlwaysInv, PTL DEF Spec, NoSilentReconnect
=============================================================================
