--------------------------- MODULE ClusterProofs ----------------------------
(***************************************************************************)
(* The proofs about Cluster, for any nodes, slots and replicas, any number  *)
(* of calls and of events.  Types: whatever moves while a call is on its    *)
(* way, each slot is mapped to a node the client has a socket for, or the   *)
(* call ends and none is.  Replies: each command is given its own, through  *)
(* redirections, lost connections and transactions over several nodes.      *)
(* Modes: each socket is in MULTI when its server is.  Watched keys: EXEC   *)
(* runs nothing that was written since.  Effects: a command takes effect    *)
(* once, and in a transaction by EXEC.                                      *)
(***************************************************************************)
EXTENDS Cluster, SequenceTheorems, TLAPS

-----------------------------------------------------------------------------
(* The invariant. *)

\* A redirection names a node and a slot.
Replies == {r \in Reply : r.kind \in {"moved", "ask"} => r.to \in Nodes /\ r.slot \in Slots}

LinkType == [open : BOOLEAN, multi : BOOLEAN, watching : BOOLEAN, readonly : BOOLEAN,
             eof : BOOLEAN, wire : Seq(Replies), tx : {"none", "open", "doomed"},
             queue : Seq(Queued), watched : SUBSET Slots, touched : BOOLEAN, asking : BOOLEAN]

ClusterTypes ==
  /\ owner \in [Slots -> Nodes] /\ moving \in [Slots -> Nodes \cup {None}]
  /\ alive \subseteq Nodes /\ events \in 0..MaxEvents

TableTypes ==
  /\ nodes \subseteq Nodes /\ master \in [Slots -> nodes \cup {None}]
  /\ slaves \in [Nodes -> SUBSET Nodes] /\ nodeSlot \in [Nodes -> Slots \cup {None}]

CallTypes ==
  /\ mode \in {"ATOMIC", "MULTI"} /\ fold \in Seq([id : Nat, slot : Slots]) /\ refused \subseteq Slots
  /\ cmdSlot \in Slots \cup {None} /\ cmdSock \in Nodes \cup {None}
  /\ redir \in [type : {"NONE", "MOVED", "ASK"}] /\ missed \subseteq (1..3) \X Nodes
  /\ pc \in {"idle", "multi", "asking", "write", "read", "exec", "collect", "abort", "unwatch"}
  /\ op \in Op /\ pos \in Nat \ {0}
  /\ guarded \subseteq Slots /\ stale \subseteq guarded /\ torn \subseteq Tears

\* The steps in which a command is on its way.
OnTheWay == {"multi", "asking", "write", "read"}

\* A command of exec() is about an item of the queue, any other about a slot; it is not
\* queued yet.  A queue is no longer than the calls that could fill it.  What cluster_sock_write
\* has tried is forgotten when it returns.
CallShape ==
  /\ op.cmd.id <= MaxCalls /\ Len(fold) <= op.cmd.id /\ pos <= MaxCalls + 1
  /\ op.cmd.name = "WATCH" => op.cmd.slot \in Slots
  /\ pc \in OnTheWay =>
       /\ cmdSock \in Nodes
       /\ op.m \in {"exec", "unwatch"} => pc # "multi" /\ cmdSlot \in Slots
       /\ IF op.m = "exec" THEN pos <= Len(fold) ELSE Len(fold) < op.cmd.id
       /\ op.m \notin {"exec", "unwatch"} => op.slot \in Slots
  /\ pc \in {"exec", "collect", "abort"} => pos <= Len(fold) + 1
  /\ pc \in {"exec", "collect"} => op.m = "exec"
  /\ pc = "unwatch" => op.m = "unwatch" /\ Len(fold) < op.cmd.id
  /\ mode = "ATOMIC" => fold = <<>>
  /\ pc # "write" => missed = {}

\* Every slot is mapped, or none is and nothing is counted on.
Covered  == \A s \in Slots : master[s] \in nodes
Unmapped == /\ \A s \in Slots : master[s] = None
            /\ pc \notin OnTheWay /\ fold = <<>> /\ guarded = {}
Coverage == Covered \/ Unmapped

LinkTypes == link \in [Nodes -> LinkType]

TypeInv == ClusterTypes /\ LinkTypes /\ TableTypes /\ CallTypes /\ CallShape /\ Coverage

\* A step that leaves the table alone and starts nothing.
LEMMA StaysCovered ==
  ASSUME Coverage, TableTypes, UNCHANGED table, pc' \in OnTheWay => pc \in OnTheWay,
         fold' = fold \/ fold' = <<>> \/ pc \in OnTheWay, guarded' \subseteq guarded \/ pc \in OnTheWay
  PROVE  TableTypes' /\ Coverage'
BY DEF Coverage, Covered, Unmapped, TableTypes, table

\* What is on its way, or in the queue, or watched, has a master.
LEMMA HasMaster ==
  ASSUME TypeInv
  PROVE  /\ pc \in OnTheWay \/ fold # <<>> \/ guarded # {} => Covered
         /\ pc \in OnTheWay \/ fold # <<>> \/ guarded # {} => \A s \in Slots : master[s] \in nodes /\ master[s] \in Nodes
         /\ \A s \in Slots : master[s] = None \/ (master[s] \in nodes /\ master[s] \in Nodes /\ Covered)
<1>1. nodes \subseteq Nodes /\ master \in [Slots -> nodes \cup {None}] /\ None \notin Nodes
  BY NoneAssumption DEF TypeInv, TableTypes
<1>2. pc \in OnTheWay \/ fold # <<>> \/ guarded # {} => Covered
  BY DEF TypeInv, Coverage, Unmapped
<1>3. \A s \in Slots : master[s] = None \/ (master[s] \in nodes /\ Covered)
  BY <1>1 DEF TypeInv, Coverage, Unmapped, Covered
<1>. QED BY <1>1, <1>2, <1>3 DEF Covered

-----------------------------------------------------------------------------
(* Links. *)

LEMMA LinkFields ==
  ASSUME NEW l \in LinkType
  PROVE  /\ l.open \in BOOLEAN /\ l.multi \in BOOLEAN /\ l.watching \in BOOLEAN
         /\ l.readonly \in BOOLEAN /\ l.eof \in BOOLEAN /\ l.touched \in BOOLEAN
         /\ l.asking \in BOOLEAN /\ l.wire \in Seq(Replies) /\ l.queue \in Seq(Queued)
         /\ l.watched \subseteq Slots /\ l.tx \in {"none", "open", "doomed"}
BY DEF LinkType

LEMMA LinkChanges ==
  ASSUME NEW l \in LinkType
  PROVE  /\ \A b \in BOOLEAN : [l EXCEPT !.multi = b] \in LinkType
         /\ \A b \in BOOLEAN : [l EXCEPT !.watching = b] \in LinkType
         /\ \A b \in BOOLEAN : [l EXCEPT !.readonly = b] \in LinkType
         /\ \A b \in BOOLEAN : [l EXCEPT !.touched = b] \in LinkType
         /\ \A w \in Seq(Replies) : [l EXCEPT !.wire = w] \in LinkType
         /\ \A b, d \in BOOLEAN : [l EXCEPT !.multi = b, !.watching = d] \in LinkType
<1>1. \A b \in BOOLEAN : [l EXCEPT !.multi = b] \in LinkType
  BY DEF LinkType
<1>2. \A b \in BOOLEAN : [l EXCEPT !.watching = b] \in LinkType
  BY DEF LinkType
<1>3. \A b \in BOOLEAN : [l EXCEPT !.readonly = b] \in LinkType
  BY DEF LinkType
<1>4. \A b \in BOOLEAN : [l EXCEPT !.touched = b] \in LinkType
  BY DEF LinkType
<1>5. \A w \in Seq(Replies) : [l EXCEPT !.wire = w] \in LinkType
  BY DEF LinkType
<1>6. \A b, d \in BOOLEAN : [l EXCEPT !.multi = b, !.watching = d] \in LinkType
  BY DEF LinkType
<1>. QED BY <1>1, <1>2, <1>3, <1>4, <1>5, <1>6

LEMMA NewLinks == Closed \in LinkType /\ Fresh \in LinkType
<1>1. <<>> \in Seq(Replies) /\ <<>> \in Seq(Queued)
  OBVIOUS
<1>2. Closed \in LinkType
  BY <1>1 DEF Closed, LinkType
<1>3. [Closed EXCEPT !.open = TRUE] \in LinkType
  <2> HIDE DEF Closed
  <2>. QED BY <1>2 DEF LinkType
<1>. QED BY <1>2, <1>3 DEF Fresh

LEMMA DroppedType ==
  ASSUME NEW l \in LinkType
  PROVE  Dropped(l) \in LinkType
<1> DEFINE d == [Closed EXCEPT !.open = TRUE, !.multi = l.multi, !.eof = TRUE,
                               !.watching = l.watching, !.readonly = l.readonly]
<1>1. Closed \in LinkType /\ l.multi \in BOOLEAN /\ l.watching \in BOOLEAN /\ l.readonly \in BOOLEAN
  BY NewLinks, LinkFields
<1>2. d \in LinkType
  <2> DEFINE m == l.multi  w == l.watching  r == l.readonly
  <2>1. m \in BOOLEAN /\ w \in BOOLEAN /\ r \in BOOLEAN
    BY <1>1
  <2> HIDE DEF m, w, r
  <2>2. [Closed EXCEPT !.open = TRUE, !.multi = m, !.eof = TRUE, !.watching = w, !.readonly = r] \in LinkType
    BY <1>1, <2>1 DEF LinkType
  <2>. QED BY <2>2 DEF m, w, r
<1> HIDE DEF d
<1>3. Dropped(l) = IF l.open THEN d ELSE l
  BY DEF Dropped, d
<1>. QED BY <1>2, <1>3

LEMMA LiveType ==
  ASSUME LinkTypes, NEW n \in Nodes
  PROVE  Live(n) \in LinkType
<1>1. link[n] \in LinkType
  BY DEF LinkTypes
<1>. QED BY <1>1, NewLinks DEF Live

-----------------------------------------------------------------------------
(* The servers. *)

Verdicts == {"down", "here", "ask", "moved"}

LEMMA VerdictType ==
  ASSUME ClusterTypes, NEW n \in Nodes, NEW l \in LinkType, NEW c, c.slot \in Slots \cup {None}
  PROVE  /\ Verdict(n, l, c) \in Verdicts
         /\ Verdict(n, l, c) \in {"ask", "moved"} => c.slot \in Slots
         /\ Verdict(n, l, c) = "ask" => moving[c.slot] \in Nodes
         /\ Verdict(n, l, c) = "moved" => owner[c.slot] \in Nodes
<1>1. CASE c.slot = None
  BY <1>1 DEF Verdict, Verdicts
<1>2. CASE c.slot # None /\ owner[c.slot] \notin alive
  BY <1>2 DEF Verdict, Verdicts
<1>3. CASE c.slot # None /\ n = owner[c.slot] /\ owner[c.slot] \in alive
  BY <1>3 DEF Verdict, Verdicts, ClusterTypes
<1>4. CASE c.slot # None /\ n # owner[c.slot] /\ owner[c.slot] \in alive
  <2>1. Verdict(n, l, c) \in {"here", "moved"}
    BY <1>4 DEF Verdict
  <2>. QED BY <1>4, <2>1 DEF Verdicts, ClusterTypes
<1>. QED BY <1>1, <1>2, <1>3, <1>4

LEMMA KeySlotType ==
  ASSUME NEW l \in LinkType, NEW c \in Command
  PROVE  /\ KeySlot(l, c) \in Slots \cup {None}
         /\ c.name # "EXEC" => KeySlot(l, c) = c.slot
         /\ [c EXCEPT !.slot = KeySlot(l, c)].slot = KeySlot(l, c)
<1>1. c.slot \in Slots \cup {None} /\ [c EXCEPT !.slot = KeySlot(l, c)].slot = KeySlot(l, c)
  BY DEF Command
<1>2. QueuedSlots(l) \subseteq Slots
  <2>1. \A q \in ToSet(l.queue) : q \in Queued
    BY LinkFields DEF ToSet
  <2>. QED BY <2>1 DEF QueuedSlots, Queued
<1>. QED BY <1>1, <1>2 DEF KeySlot

LEMMA KindType ==
  ASSUME ClusterTypes, NEW n \in Nodes, NEW l \in LinkType, NEW c \in Command, NEW refuse \in BOOLEAN
  PROVE  LET kind == KindOf(n, l, c, refuse)  s == KeySlot(l, c) IN
         /\ kind \in Kinds
         /\ kind \in {"ask", "moved"} => s \in Slots
         /\ kind = "ask" => moving[s] \in Nodes
         /\ kind = "moved" => owner[s] \in Nodes
<1> DEFINE kind == KindOf(n, l, c, refuse)  s == KeySlot(l, c)
<1>1. c.slot \in Slots \cup {None}
  BY DEF Command
<1>2. CASE c.name \in {"DATA", "NODE", "WATCH"}
  <2>1. s = c.slot
    BY <1>2, KeySlotType
  <2>2. kind \in {Verdict(n, l, c)} \ {"here"} \/ kind \in {"error", "ok", "queued", "value"}
    BY <1>2 DEF KindOf
  <2> HIDE DEF kind, s
  <2>3. /\ Verdict(n, l, c) \in Verdicts
        /\ Verdict(n, l, c) \in {"ask", "moved"} => c.slot \in Slots
        /\ Verdict(n, l, c) = "ask" => moving[c.slot] \in Nodes
        /\ Verdict(n, l, c) = "moved" => owner[c.slot] \in Nodes
    BY <1>1, VerdictType
  <2>4. /\ kind \in Kinds
        /\ kind \in {"ask", "moved"} => s \in Slots
        /\ kind = "ask" => moving[s] \in Nodes
        /\ kind = "moved" => owner[s] \in Nodes
    BY <2>1, <2>2, <2>3 DEF Verdicts, Kinds
  <2>. QED BY <2>4 DEF kind, s
<1>3. CASE c.name = "EXEC"
  <2> DEFINE v == Verdict(n, l, [c EXCEPT !.slot = s])
  <2>1. kind \in {v} \ {"here"} \/ kind \in {"error", "nil", "array"}
    BY <1>3 DEF KindOf, ExecVerdict
  <2>2. s \in Slots \cup {None} /\ [c EXCEPT !.slot = s].slot = s
    BY KeySlotType
  <2> HIDE DEF s
  <2> DEFINE d == [c EXCEPT !.slot = s]
  <2>3. d.slot \in Slots \cup {None} /\ d.slot = s
    BY <2>2
  <2> HIDE DEF d
  <2>4. /\ Verdict(n, l, d) \in Verdicts
        /\ Verdict(n, l, d) \in {"ask", "moved"} => d.slot \in Slots
        /\ Verdict(n, l, d) = "ask" => moving[d.slot] \in Nodes
        /\ Verdict(n, l, d) = "moved" => owner[d.slot] \in Nodes
    BY <2>3, VerdictType
  <2>5. v = Verdict(n, l, d)
    BY DEF d
  <2> HIDE DEF kind, v
  <2>6. /\ kind \in Kinds
        /\ kind \in {"ask", "moved"} => s \in Slots
        /\ kind = "ask" => moving[s] \in Nodes
        /\ kind = "moved" => owner[s] \in Nodes
    BY <2>1, <2>3, <2>4, <2>5 DEF Verdicts, Kinds
  <2>. QED BY <2>6 DEF kind, s
<1>4. CASE c.name \notin {"DATA", "NODE", "WATCH", "EXEC"}
  BY <1>4 DEF KindOf, Kinds
<1>. QED BY <1>2, <1>3, <1>4

LEMMA RepliesType ==
  ASSUME ClusterTypes, NEW n \in Nodes, NEW l \in LinkType, NEW c \in Command, NEW refuse \in BOOLEAN
  PROVE  RepliesTo(n, l, c, KindOf(n, l, c, refuse)) \in Seq(Replies)
<1> DEFINE kind == KindOf(n, l, c, refuse)
           s    == KeySlot(l, c)
           to   == CASE kind = "moved" -> owner[s] [] kind = "ask" -> moving[s] [] OTHER -> None
           head == [for |-> c.id, kind |-> kind, to |-> to, slot |-> s]
           elements == [i \in 1..Len(l.queue) |->
                          [for |-> l.queue[i].id, kind |-> "value", to |-> None, slot |-> None]]
<1>1. /\ kind \in Kinds
      /\ kind \in {"ask", "moved"} => s \in Slots
      /\ kind = "ask" => moving[s] \in Nodes
      /\ kind = "moved" => owner[s] \in Nodes
  BY KindType
<1>2. s \in Slots \cup {None} /\ c.id \in Nat
  BY KeySlotType DEF Command
<1>3. RepliesTo(n, l, c, kind) = <<head>> \o (IF kind = "array" THEN elements ELSE <<>>)
  BY DEF RepliesTo
<1> HIDE DEF kind, s
<1>4. head \in Replies
  <2>1. to \in Nodes \cup {None} /\ (kind \in {"moved", "ask"} => to \in Nodes)
    BY <1>1
  <2> HIDE DEF to
  <2>. QED BY <1>1, <1>2, <2>1 DEF Replies, Reply
<1>5. elements \in Seq(Replies)
  <2>1. l.queue \in Seq(Queued)
    BY LinkFields
  <2>2. \A i \in 1..Len(l.queue) : l.queue[i].id \in Nat
    <3> DEFINE q == l.queue
    <3>1. q \in Seq(Queued)
      BY <2>1
    <3> HIDE DEF q
    <3>2. \A i \in 1..Len(q) : q[i] \in Queued
      BY <3>1
    <3>3. \A i \in 1..Len(q) : q[i].id \in Nat
      BY <3>2 DEF Queued
    <3>. QED BY <3>3 DEF q
  <2>3. \A i \in 1..Len(l.queue) :
          [for |-> l.queue[i].id, kind |-> "value", to |-> None, slot |-> None] \in Replies
    BY <2>2 DEF Replies, Reply, Kinds
  <2>4. Len(l.queue) \in Nat
    BY <2>1
  <2>. QED BY <2>3, <2>4
<1> HIDE DEF head, elements
<1>6. <<head>> \o (IF kind = "array" THEN elements ELSE <<>>) \in Seq(Replies)
  BY <1>4, <1>5
<1>. QED BY <1>3, <1>6 DEF kind

LEMMA ServedType ==
  ASSUME ClusterTypes, NEW n \in Nodes, NEW l \in LinkType, NEW c \in Command, NEW refuse \in BOOLEAN,
         c.name = "WATCH" => c.slot \in Slots
  PROVE  Served(n, l, c, refuse) \in LinkType
<1> DEFINE kind == KindOf(n, l, c, refuse)
           ends == c.name \in {"EXEC", "DISCARD"}
           wire == l.wire \o RepliesTo(n, l, c, kind)
           t == CASE ends -> "none"
                  [] c.name = "MULTI" -> "open"
                  [] c.name \in {"DATA", "NODE", "WATCH"} /\ l.tx # "none" /\ kind # "queued" -> "doomed"
                  [] OTHER -> l.tx
           queue == CASE ends -> <<>>
                      [] kind = "queued" -> Append(l.queue, [id |-> c.id, slot |-> c.slot])
                      [] OTHER -> l.queue
           watched == CASE ends \/ c.name = "UNWATCH" -> {}
                        [] c.name = "WATCH" /\ kind = "ok" -> l.watched \cup {c.slot}
                        [] OTHER -> l.watched
           touched == l.touched /\ ~(ends \/ c.name = "UNWATCH")
           asking == c.name = "ASKING"
<1>1. Served(n, l, c, refuse) =
        IF l.eof THEN l ELSE [l EXCEPT !.wire = wire, !.tx = t, !.queue = queue, !.watched = watched,
                                       !.touched = touched, !.asking = asking]
  BY DEF Served
<1>2. wire \in Seq(Replies)
  <2>1. l.wire \in Seq(Replies) /\ RepliesTo(n, l, c, kind) \in Seq(Replies)
    BY LinkFields, RepliesType
  <2> HIDE DEF kind
  <2>. QED BY <2>1
<1>3. t \in {"none", "open", "doomed"}
  <2>1. l.tx \in {"none", "open", "doomed"}
    BY LinkFields
  <2> HIDE DEF kind
  <2>. QED BY <2>1
<1>4. queue \in Seq(Queued)
  <2>1. l.queue \in Seq(Queued) /\ [id |-> c.id, slot |-> c.slot] \in Queued
    BY LinkFields DEF Command, Queued
  <2> HIDE DEF kind
  <2>. QED BY <2>1
<1>5. watched \in SUBSET Slots
  <2>1. l.watched \subseteq Slots
    BY LinkFields
  <2> HIDE DEF kind
  <2>. QED BY <2>1
<1>6. touched \in BOOLEAN /\ asking \in BOOLEAN
  OBVIOUS
<1> HIDE DEF wire, t, queue, watched, touched, asking
<1>7. [l EXCEPT !.wire = wire, !.tx = t, !.queue = queue, !.watched = watched,
                !.touched = touched, !.asking = asking] \in LinkType
  BY <1>2, <1>3, <1>4, <1>5, <1>6 DEF LinkType
<1>. QED BY <1>1, <1>7

-----------------------------------------------------------------------------
(* What a control command or a read makes of a link. *)

LEMMA ControlType ==
  ASSUME NEW name \in {"NODE", "MULTI", "EXEC", "DISCARD", "UNWATCH", "ASKING", "READONLY"}
  PROVE  Control(name) \in Command /\ Control(name).name = name
BY DEF Control, Command

LEMMA DirectType ==
  ASSUME ClusterTypes, LinkTypes, NEW n \in Nodes,
         NEW name \in {"MULTI", "DISCARD", "READONLY", "ASKING"}, NEW o \in Direct(n, name)
  PROVE  o.l \in LinkType /\ o.late \in BOOLEAN /\ o.ok \in BOOLEAN
<1> DEFINE l == Served(n, Live(n), Control(name), FALSE)
           first == l.wire[1]
           rest == [first EXCEPT !.kind = "rest"]
           answered == IF first.kind = "ok" THEN [l EXCEPT !.wire = Tail(l.wire)]
                       ELSE [l EXCEPT !.wire = <<rest>> \o Tail(l.wire)]
<1>1. l \in LinkType
  <2>1. Live(n) \in LinkType /\ Control(name) \in Command /\ Control(name).name # "WATCH"
    BY LiveType, ControlType
  <2>. QED BY <2>1, ServedType
<1>2. \/ o = [ok |-> FALSE, l |-> Closed, late |-> FALSE]
      \/ l.wire # <<>> /\ o = [ok |-> first.kind = "ok", l |-> answered, late |-> FALSE]
      \/ o = [ok |-> FALSE, l |-> l, late |-> TRUE]
  BY Zenon DEF Direct
<1>3. ASSUME l.wire # <<>> PROVE answered \in LinkType
  <2> HIDE DEF l
  <2> DEFINE w == l.wire
  <2>1. w \in Seq(Replies) /\ w # <<>>
    BY <1>1, <1>3, LinkFields
  <2> HIDE DEF w
  <2>2. Tail(w) \in Seq(Replies) /\ w[1] \in Replies
    BY <2>1
  <2>3. first \in Replies
    BY <2>2 DEF w
  <2> HIDE DEF first
  <2>4. rest \in Replies
    BY <2>3 DEF Replies, Reply, Kinds
  <2> HIDE DEF rest
  <2>5. <<rest>> \o Tail(w) \in Seq(Replies)
    BY <2>2, <2>4
  <2>6. answered = IF first.kind = "ok" THEN [l EXCEPT !.wire = Tail(w)]
                   ELSE [l EXCEPT !.wire = <<rest>> \o Tail(w)]
    BY DEF w
  <2> HIDE DEF answered
  <2>. QED BY <1>1, <2>2, <2>5, <2>6, LinkChanges
<1> HIDE DEF l, answered
<1>4. CASE o = [ok |-> FALSE, l |-> Closed, late |-> FALSE]
  BY <1>4, NewLinks
<1>5. CASE l.wire # <<>> /\ o = [ok |-> first.kind = "ok", l |-> answered, late |-> FALSE]
  BY <1>3, <1>5
<1>6. CASE o = [ok |-> FALSE, l |-> l, late |-> TRUE]
  BY <1>1, <1>6
<1>. QED BY <1>2, <1>4, <1>5, <1>6

LEMMA ReadsType ==
  ASSUME LinkTypes, NEW n \in Nodes, NEW o \in Reads(n)
  PROVE  o.l \in LinkType /\ o.late \in BOOLEAN /\ o.r \in Replies \cup {NoReply}
<1> DEFINE l == link[n]  w == l.wire
<1>1. l \in LinkType /\ w \in Seq(Replies)
  <2>1. l \in LinkType
    BY DEF LinkTypes
  <2>. QED BY <2>1, LinkFields
<1>2. \/ w = <<>> /\ o = [r |-> NoReply, l |-> IF l.eof THEN Closed ELSE l, late |-> FALSE]
      \/ /\ w # <<>>
         /\ o = [r |-> IF Head(w).kind = "rest" THEN NoReply ELSE Head(w),
                 l |-> [l EXCEPT !.wire = Tail(w)], late |-> FALSE]
      \/ o = [r |-> NoReply, l |-> l, late |-> TRUE]
  BY DEF Reads
<1>3. ASSUME w # <<>> PROVE Head(w) \in Replies /\ Tail(w) \in Seq(Replies)
  <2> HIDE DEF w
  <2>. QED BY <1>1, <1>3
<1>4. w # <<>> => [l EXCEPT !.wire = Tail(w)] \in LinkType
  <2> HIDE DEF l, w
  <2>. QED BY <1>1, <1>3, LinkChanges
<1>5. CASE w = <<>> /\ o = [r |-> NoReply, l |-> IF l.eof THEN Closed ELSE l, late |-> FALSE]
  <2> HIDE DEF l, w
  <2>. QED BY <1>1, <1>5, NewLinks
<1>6. CASE /\ w # <<>>
           /\ o = [r |-> IF Head(w).kind = "rest" THEN NoReply ELSE Head(w),
                   l |-> [l EXCEPT !.wire = Tail(w)], late |-> FALSE]
  <2> HIDE DEF l, w
  <2>. QED BY <1>3, <1>4, <1>6
<1>7. CASE o = [r |-> NoReply, l |-> l, late |-> TRUE]
  <2> HIDE DEF l, w
  <2>. QED BY <1>1, <1>7
<1>. QED BY <1>2, <1>5, <1>6, <1>7

\* A redirection that is read names a node and a slot.
LEMMA Redirects ==
  ASSUME NEW r \in Replies \cup {NoReply}
  PROVE  /\ r.kind \in Kinds \cup {"lost"}
         /\ r.kind \in {"moved", "ask"} => r.to \in Nodes /\ r.slot \in Slots
BY DEF Replies, Reply, NoReply, Kinds

LEMMA DisconnectedType ==
  ASSUME NEW ls \in [Nodes -> LinkType]
  PROVE  Disconnected(ls) \in [Nodes -> LinkType]
BY NewLinks DEF Disconnected

LEMMA ResetType ==
  ASSUME NEW ls \in [Nodes -> LinkType]
  PROVE  Reset(ls) \in [Nodes -> LinkType]
<1> DEFINE r == [n \in Nodes |-> [ls[n] EXCEPT !.multi = FALSE, !.watching = FALSE]]
<1>1. \A n \in Nodes : [ls[n] EXCEPT !.multi = FALSE, !.watching = FALSE] \in LinkType
  BY LinkChanges
<1>2. r \in [Nodes -> LinkType]
  BY <1>1
<1>3. Reset(ls) = [n \in Nodes |-> IF n \in nodes THEN r[n] ELSE ls[n]]
  BY DEF Reset
<1> HIDE DEF r
<1>. QED BY <1>2, <1>3

-----------------------------------------------------------------------------
(* The steps. *)

\* A call that fails.
LEMMA FailsType ==
  ASSUME TypeInv, NEW ACTION ls, ls \in [Nodes -> LinkType], NEW ACTION type, NEW ACTION tears,
         tears \subseteq Tears, Fails(ls, type, tears), UNCHANGED <<op, fold, mode>>, missed' = {}
  PROVE  /\ LinkTypes' /\ CallShape' /\ pc' \in {"idle", "abort"} /\ pos' \in Nat \ {0}
         /\ guarded' \subseteq Slots /\ stale' \subseteq guarded' /\ torn' \subseteq Tears
<1>1. LinkTypes'
  BY DEF Fails, LinkTypes
<1>2. torn' \subseteq Tears
  <2>1. torn \subseteq Tears
    BY DEF TypeInv, CallTypes
  <2>2. /\ QueueLost(ls) \subseteq Tears /\ Orphaned(ls) \subseteq Tears
        /\ OldAsk(type) \subseteq Tears /\ Split \subseteq Tears
    BY DEF QueueLost, Orphaned, OldAsk, Split, Tears
  <2>3. torn' \subseteq torn \cup tears \cup Orphaned(ls) \cup OldAsk(type) \cup Split \cup QueueLost(ls)
    BY DEF Fails
  <2>. QED BY <2>1, <2>2, <2>3
<1>3. guarded' = {} /\ stale' = {}
  BY DEF Fails, Unguarded
<1>4. \/ op.m = "exec" /\ pc' = "abort" /\ pos' = 1
      \/ op.m # "exec" /\ pc' = "idle" /\ pos' = pos
  BY DEF Fails, Returns
<1>5. pos' \in Nat \ {0} /\ pc' \in {"idle", "abort"}
  BY <1>4 DEF TypeInv, CallTypes
<1>6. CallShape'
  <2>1. /\ op.cmd.id <= MaxCalls /\ Len(fold) <= op.cmd.id /\ pos <= MaxCalls + 1
        /\ op.cmd.name = "WATCH" => op.cmd.slot \in Slots
        /\ mode = "ATOMIC" => fold = <<>>
    BY DEF TypeInv, CallShape
  <2>2. Len(fold) \in Nat /\ MaxCalls \in Nat
    BY BoundAssumption DEF TypeInv, CallTypes
  <2>. QED BY <1>4, <2>1, <2>2 DEF CallShape, OnTheWay
<1>. QED BY <1>1, <1>2, <1>3, <1>5, <1>6

LEMMA FailsKeeps ==
  ASSUME TypeInv, NEW ACTION ls, ls \in [Nodes -> LinkType], NEW ACTION type, NEW ACTION tears,
         tears \subseteq Tears, Fails(ls, type, tears),
         UNCHANGED <<cluster, mode, fold, op>>, missed' = {}, TableTypes', Coverage',
         redir' \in [type : {"NONE", "MOVED", "ASK"}], refused' \subseteq Slots,
         cmdSlot' \in Slots \cup {None}, cmdSock' \in Nodes \cup {None}
  PROVE  TypeInv'
<1>1. /\ LinkTypes' /\ CallShape' /\ pc' \in {"idle", "abort"} /\ pos' \in Nat \ {0}
      /\ guarded' \subseteq Slots /\ stale' \subseteq guarded' /\ torn' \subseteq Tears
  BY FailsType
<1>2. ClusterTypes'
  BY DEF TypeInv, ClusterTypes, cluster
<1>3. CallTypes'
  BY <1>1 DEF TypeInv, CallTypes
<1>. QED BY <1>1, <1>2, <1>3 DEF TypeInv

\* The environment.
LEMMA TouchedType ==
  ASSUME NEW ls \in [Nodes -> LinkType], NEW s
  PROVE  Touched(ls, s) \in [Nodes -> LinkType]
<1> DEFINE t == [n \in Nodes |-> [ls[n] EXCEPT !.touched = TRUE]]
<1>1. t \in [Nodes -> LinkType]
  BY LinkChanges
<1>2. Touched(ls, s) = [n \in Nodes |-> IF s \in ls[n].watched THEN t[n] ELSE ls[n]]
  BY DEF Touched
<1> HIDE DEF t
<1>. QED BY <1>1, <1>2

LEMMA EnvironmentKeeps ==
  ASSUME TypeInv, Environment
  PROVE  TypeInv'
<1>1. /\ link \in [Nodes -> LinkType]
      /\ \A s : Touched(link, s) \in [Nodes -> LinkType]
      /\ \A n \in Nodes : [link EXCEPT ![n] = Dropped(@)] \in [Nodes -> LinkType]
  <2>1. link \in [Nodes -> LinkType]
    BY DEF TypeInv, LinkTypes
  <2>2. \A n \in Nodes : Dropped(link[n]) \in LinkType
    BY <2>1, DroppedType
  <2>. QED BY <2>1, <2>2, TouchedType
<1>2. ASSUME UNCHANGED <<table, tx, target, call, guarded, torn>>, stale' \subseteq guarded,
             link' \in [Nodes -> LinkType], ClusterTypes'
      PROVE  TypeInv'
  <2>1. LinkTypes' /\ TableTypes' /\ Coverage'
    BY <1>2, StaysCovered DEF TypeInv, LinkTypes, tx, call
  <2>2. CallTypes' /\ CallShape'
    BY <1>2 DEF TypeInv, CallTypes, CallShape, tx, target, call
  <2>. QED BY <1>2, <2>1, <2>2 DEF TypeInv
<1>3. ASSUME NEW s \in Slots, KeyWritten(s) PROVE TypeInv'
  <2>1. ClusterTypes' /\ stale' \subseteq guarded /\ link' \in [Nodes -> LinkType]
    BY <1>1, <1>3 DEF KeyWritten, TypeInv, ClusterTypes, CallTypes, cluster
  <2>2. UNCHANGED <<table, tx, target, call, guarded, torn>>
    BY <1>3 DEF KeyWritten
  <2>. QED BY <1>2, <2>1, <2>2
<1>4. ASSUME UNCHANGED <<table, tx, target, call, history>>,
             link' \in [Nodes -> LinkType], ClusterTypes'
      PROVE  TypeInv'
  <2>1. stale' \subseteq guarded
    BY <1>4 DEF TypeInv, CallTypes, history
  <2>2. UNCHANGED <<table, tx, target, call, guarded, torn>>
    BY <1>4 DEF history
  <2>. QED BY <1>2, <1>4, <2>1, <2>2
<1>5. events \in 0..MaxEvents /\ MaxEvents \in Nat
  BY BoundAssumption DEF TypeInv, ClusterTypes
<1>6. ASSUME NEW s \in Slots, NEW n \in Nodes, SlotMoves(s, n) \/ KeyMoves(s, n) PROVE TypeInv'
  <2>1. ClusterTypes'
    BY <1>5, <1>6 DEF SlotMoves, KeyMoves, Happening, TypeInv, ClusterTypes
  <2>2. UNCHANGED <<table, tx, target, call, history>> /\ link' \in [Nodes -> LinkType]
    BY <1>1, <1>6 DEF SlotMoves, KeyMoves
  <2>. QED BY <1>4, <2>1, <2>2
<1>7. ASSUME NEW s \in Slots, MigrationEnds(s) PROVE TypeInv'
  <2>1. ClusterTypes'
    BY <1>7 DEF MigrationEnds, TypeInv, ClusterTypes
  <2>2. UNCHANGED <<table, tx, target, call, history>> /\ link' \in [Nodes -> LinkType]
    BY <1>1, <1>7 DEF MigrationEnds
  <2>. QED BY <1>4, <2>1, <2>2
<1>8. ASSUME NEW n \in Nodes, ServerCloses(n) PROVE TypeInv'
  <2>1. ClusterTypes'
    BY <1>5, <1>8 DEF ServerCloses, Happening, TypeInv, ClusterTypes
  <2>2. UNCHANGED <<table, tx, target, call, history>> /\ link' \in [Nodes -> LinkType]
    BY <1>1, <1>8 DEF ServerCloses
  <2>. QED BY <1>4, <2>1, <2>2
<1>9. ASSUME NEW n \in Nodes, NEW r \in Nodes, NodeDies(n, r) PROVE TypeInv'
  <2>1. ClusterTypes'
    BY <1>5, <1>9 DEF NodeDies, Happening, TypeInv, ClusterTypes
  <2>2. UNCHANGED <<table, tx, target, call, history>> /\ link' \in [Nodes -> LinkType]
    BY <1>1, <1>9 DEF NodeDies
  <2>. QED BY <1>4, <2>1, <2>2
<1>. QED BY <1>3, <1>6, <1>7, <1>8, <1>9 DEF Environment

\* The calls of the application.
LEMMA StartsTyped == Init => TypeInv
<1> SUFFICES ASSUME Init PROVE TypeInv
  OBVIOUS
<1>1. ClusterTypes
  BY HomeAssumption, BoundAssumption DEF Init, ClusterTypes
<1>2. LinkTypes
  BY NewLinks DEF Init, LinkTypes
<1>3. TableTypes
  <2>1. nodes \subseteq Nodes /\ master \in [Slots -> nodes]
    BY HomeAssumption DEF Init
  <2>2. slaves \in [Nodes -> SUBSET Nodes]
    BY DEF Init
  <2>3. \A n \in nodes : (CHOOSE s \in Slots : Home[s] = n) \in Slots
    BY DEF Init
  <2>4. nodeSlot \in [Nodes -> Slots \cup {None}]
    <3>1. nodeSlot = [n \in Nodes |-> IF n \in nodes THEN CHOOSE s \in Slots : Home[s] = n ELSE None]
      BY DEF Init
    <3>. QED BY <2>3, <3>1
  <2>. QED BY <2>1, <2>2, <2>4 DEF TableTypes
<1>4. CallTypes
  <2>1. op \in Op
    BY DEF Init, NoOp, Op, Control, Command
  <2>. QED BY <2>1 DEF Init, CallTypes
<1>5. CallShape
  BY BoundAssumption DEF Init, CallShape, NoOp, Control, OnTheWay
<1>6. Coverage
  BY HomeAssumption DEF Init, Coverage, Covered
<1>. QED BY <1>1, <1>2, <1>3, <1>4, <1>5, <1>6 DEF TypeInv

LEMMA SendKeeps ==
  ASSUME TypeInv, NEW s \in Slots, NEW m \in {"write", "read", "directed", "watch"},
         NEW name \in {"DATA", "NODE", "WATCH"}, NEW readonly \in BOOLEAN,
         pc = "idle", Send(m, name, s, readonly)
  PROVE  TypeInv'
<1> DEFINE c == [name |-> name, id |-> NextId, ro |-> m \in {"read", "watch"},
                 slot |-> IF name = "NODE" THEN None ELSE s]
<1>1. /\ op.cmd.id < MaxCalls /\ op' = [m |-> m, slot |-> s, readonly |-> readonly, cmd |-> c]
      /\ UNCHANGED <<cluster, link, table, redir, missed, tx, pos, guarded, stale, torn>>
  BY DEF Send
<1>2. op.cmd.id \in Nat /\ Len(fold) \in Nat /\ Len(fold) <= op.cmd.id
  BY DEF TypeInv, CallTypes, CallShape, Op, Command
<1>3. c \in Command /\ c.id = op.cmd.id + 1 /\ (c.name = "WATCH" => c.slot \in Slots)
  BY <1>2 DEF Command, NextId
<1> HIDE DEF c
<1>4. op' \in Op /\ op'.cmd = c /\ op'.slot = s /\ op'.m = m
  BY <1>1, <1>3 DEF Op, AllCalls
<1>5. ClusterTypes' /\ LinkTypes' /\ TableTypes'
  BY <1>1 DEF TypeInv, ClusterTypes, LinkTypes, TableTypes, cluster, table
<1>6. CASE master[s] = None
  <2>1. pc' = "idle" /\ UNCHANGED <<cmdSlot, cmdSock>>
    BY <1>1, <1>6 DEF Send, Returns
  <2>2. CallTypes' /\ CallShape'
    BY <1>1, <1>2, <1>3, <1>4, <2>1, BoundAssumption DEF TypeInv, CallTypes, CallShape, OnTheWay, tx
  <2>3. Coverage'
    BY <1>1, <2>1, StaysCovered DEF TypeInv, OnTheWay, tx
  <2>. QED BY <1>5, <2>2, <2>3 DEF TypeInv
<1>7. CASE master[s] # None
  <2>1. cmdSlot' = s /\ cmdSock' = master[s] /\ pc' \in {"multi", "asking", "write"}
    BY <1>1, <1>7 DEF Send, Sending
  <2>2. master[s] \in Nodes /\ Covered
    BY <1>7, HasMaster
  <2>3. CallTypes'
    BY <1>1, <1>4, <2>1, <2>2 DEF TypeInv, CallTypes, tx
  <2>4. CallShape'
    BY <1>1, <1>2, <1>3, <1>4, <2>1, <2>2, BoundAssumption DEF TypeInv, CallShape, OnTheWay, tx
  <2>5. Coverage'
    BY <1>1, <2>2 DEF Coverage, Covered, table
  <2>. QED BY <1>5, <2>3, <2>4, <2>5 DEF TypeInv
<1>. QED BY <1>6, <1>7

LEMMA NumberedType ==
  ASSUME TypeInv, NEW m \in AllCalls, NEW name \in {"NODE", "MULTI", "EXEC", "DISCARD", "UNWATCH"},
         Numbered(m, name)
  PROVE  /\ op' \in Op /\ op'.cmd.name # "WATCH" /\ op'.m = m
         /\ op'.cmd.id <= MaxCalls /\ Len(fold) <= op'.cmd.id
         /\ Len(fold) < op'.cmd.id
         /\ Len(fold) \in Nat /\ Len(fold) + 1 <= MaxCalls
<1> DEFINE c == [Control(name) EXCEPT !.id = NextId]
<1>1. op' = [op EXCEPT !.m = m, !.slot = None, !.cmd = c] /\ op.cmd.id < MaxCalls
  BY DEF Numbered
<1>2. op.cmd.id \in Nat /\ Len(fold) \in Nat /\ Len(fold) <= op.cmd.id /\ MaxCalls \in Nat
  BY BoundAssumption DEF TypeInv, CallTypes, CallShape, Op, Command
<1>3. c \in Command /\ c.id = op.cmd.id + 1 /\ c.name = name
  <2> DEFINE id == NextId  new == Control(name)
  <2>1. new \in Command /\ new.name = name
    BY ControlType
  <2>2. id \in Nat /\ id = op.cmd.id + 1
    BY <1>2 DEF NextId
  <2> HIDE DEF id, new
  <2>3. /\ [new EXCEPT !.id = id] \in Command
        /\ [new EXCEPT !.id = id].id = id /\ [new EXCEPT !.id = id].name = name
    BY <2>1, <2>2 DEF Command
  <2>. QED BY <2>2, <2>3 DEF id, new
<1> HIDE DEF c
<1>4. op' \in Op /\ op'.cmd = c /\ op'.m = m
  BY <1>1, <1>3 DEF Op, TypeInv, CallTypes
<1>. QED BY <1>1, <1>2, <1>3, <1>4

LEMMA BeginKeeps ==
  ASSUME TypeInv, Begin
  PROVE  TypeInv'
<1>1. ASSUME NEW s \in Slots, CallCommand(s) \/ CallRead(s) \/ CallDirected(s) \/ CallWatch(s)
      PROVE  TypeInv'
  <2>1. op.readonly \in BOOLEAN
    BY DEF TypeInv, CallTypes, Op
  <2>. QED BY <1>1, <2>1, SendKeeps DEF CallCommand, CallRead, CallDirected, CallWatch, Idle
<1>2. CASE CallMulti
  <2>1. /\ op' \in Op /\ op'.cmd.name # "WATCH"
        /\ op'.cmd.id <= MaxCalls /\ Len(fold) <= op'.cmd.id
    BY <1>2, NumberedType DEF CallMulti, AllCalls
  <2>2. /\ UNCHANGED <<cluster, link, table, fold, refused, target, pos, guarded, stale, torn>>
        /\ mode' = "MULTI" /\ pc' = "idle" /\ pc = "idle"
    BY <1>2 DEF CallMulti, Returns, Idle
  <2>3. ClusterTypes' /\ LinkTypes' /\ TableTypes' /\ Coverage'
    BY <2>2, StaysCovered DEF TypeInv, ClusterTypes, LinkTypes, cluster, OnTheWay, tx
  <2>4. CallTypes' /\ CallShape'
    BY <2>1, <2>2 DEF TypeInv, CallTypes, CallShape, target, OnTheWay
  <2>. QED BY <2>3, <2>4 DEF TypeInv
<1>3. CASE CallExec
  <2>1. /\ op' \in Op /\ op'.cmd.name # "WATCH" /\ op'.m = "exec"
        /\ op'.cmd.id <= MaxCalls /\ Len(fold) <= op'.cmd.id /\ Len(fold) \in Nat
    BY <1>3, NumberedType DEF CallExec, AllCalls
  <2>2. /\ UNCHANGED <<cluster, link, table, tx, target, guarded, stale, torn>>
        /\ pc' = "exec" /\ pos' = 1 /\ pc = "idle"
    BY <1>3 DEF CallExec, Idle
  <2>3. ClusterTypes' /\ LinkTypes' /\ TableTypes' /\ Coverage'
    BY <2>2, StaysCovered DEF TypeInv, ClusterTypes, LinkTypes, cluster, OnTheWay, tx
  <2>4. CallTypes' /\ CallShape'
    BY <2>1, <2>2, BoundAssumption DEF TypeInv, CallTypes, CallShape, target, tx, OnTheWay
  <2>. QED BY <2>3, <2>4 DEF TypeInv
<1>4. CASE CallDiscard
  <2>1. /\ op' \in Op /\ op'.cmd.name # "WATCH" /\ op'.m = "discard"
        /\ op'.cmd.id <= MaxCalls /\ Len(fold) <= op'.cmd.id /\ Len(fold) \in Nat
    BY <1>4, NumberedType DEF CallDiscard, AllCalls
  <2>2. /\ UNCHANGED <<cluster, link, table, tx, target, guarded, stale, torn>>
        /\ pc' = "abort" /\ pos' = 1 /\ pc = "idle"
    BY <1>4 DEF CallDiscard, Idle
  <2>3. ClusterTypes' /\ LinkTypes' /\ TableTypes' /\ Coverage'
    BY <2>2, StaysCovered DEF TypeInv, ClusterTypes, LinkTypes, cluster, OnTheWay, tx
  <2>4. CallTypes' /\ CallShape'
    BY <2>1, <2>2, BoundAssumption DEF TypeInv, CallTypes, CallShape, target, tx, OnTheWay
  <2>. QED BY <2>3, <2>4 DEF TypeInv
<1>5. CASE CallUnwatch
  <2>1. /\ op' \in Op /\ op'.cmd.name # "WATCH"
        /\ op'.cmd.id <= MaxCalls /\ Len(fold) <= op'.cmd.id
        /\ op'.m = "unwatch" /\ Len(fold) < op'.cmd.id
    BY <1>5, NumberedType DEF CallUnwatch, AllCalls
  <2>2. /\ UNCHANGED <<cluster, link, table, tx, target, pos, torn>>
        /\ pc' = "unwatch" /\ guarded' = {} /\ stale' = {} /\ pc = "idle"
    BY <1>5 DEF CallUnwatch, Unguarded, Idle
  <2>3. ClusterTypes' /\ LinkTypes' /\ TableTypes' /\ Coverage'
    BY <2>2, StaysCovered DEF TypeInv, ClusterTypes, LinkTypes, cluster, OnTheWay, tx
  <2>4. CallTypes' /\ CallShape'
    BY <2>1, <2>2 DEF TypeInv, CallTypes, CallShape, target, tx, OnTheWay
  <2>. QED BY <2>3, <2>4 DEF TypeInv
<1>6. CASE CallClose
  <2>1. /\ op' \in Op /\ op'.cmd.name # "WATCH"
        /\ op'.cmd.id <= MaxCalls /\ Len(fold) <= op'.cmd.id
    BY <1>6, NumberedType DEF CallClose, AllCalls
  <2>2. /\ UNCHANGED <<cluster, table, tx, target, pos>>
        /\ pc' = "idle" /\ guarded' = {} /\ stale' = {} /\ link' = Disconnected(link)
        /\ torn' = torn \cup QueueLost(link') /\ pc = "idle"
    BY <1>6 DEF CallClose, Returns, Unguarded, Idle
  <2>3. ClusterTypes' /\ TableTypes' /\ Coverage'
    BY <2>2, StaysCovered DEF TypeInv, ClusterTypes, cluster, OnTheWay, tx
  <2>4. LinkTypes'
    BY <2>2, DisconnectedType DEF TypeInv, LinkTypes
  <2>5. torn' \subseteq Tears
    BY <2>2 DEF QueueLost, Tears, TypeInv, CallTypes
  <2>6. CallTypes' /\ CallShape'
    BY <2>1, <2>2, <2>5 DEF TypeInv, CallTypes, CallShape, target, tx, OnTheWay
  <2>. QED BY <2>3, <2>4, <2>6 DEF TypeInv
<1>7. CASE CallReconnect
  <2>1. /\ op' \in Op /\ op'.cmd.name # "WATCH"
        /\ op'.cmd.id <= MaxCalls /\ Len(fold) <= op'.cmd.id /\ Len(fold) \in Nat
    BY <1>7, NumberedType DEF CallReconnect, AllCalls
  <2> DEFINE again == nodes \cup {n \in Attached : link[n].open}
  <2>2. /\ UNCHANGED <<cluster, table, refused, target, pos, torn>>
        /\ pc' = "idle" /\ guarded' = {} /\ stale' = {} /\ pc = "idle"
        /\ \/ UNCHANGED <<link, mode, fold>>
           \/ /\ mode' = "ATOMIC" /\ fold' = <<>>
              /\ link' = [n \in Nodes |-> IF n \in again /\ again \subseteq alive THEN Fresh
                                          ELSE Disconnected(link)[n]]
    BY <1>7 DEF CallReconnect, Returns, Unguarded, Idle
  <2>3. ClusterTypes' /\ TableTypes' /\ Coverage'
    BY <2>2, StaysCovered DEF TypeInv, ClusterTypes, cluster, OnTheWay
  <2>4. LinkTypes'
    <3>1. Disconnected(link) \in [Nodes -> LinkType]
      BY DisconnectedType DEF TypeInv, LinkTypes
    <3> HIDE DEF again
    <3>. QED BY <2>2, <3>1, NewLinks DEF LinkTypes, TypeInv
  <2>5. CallTypes'
    <3> DEFINE S == [id : Nat, slot : Slots]
    <3>1. (mode' = mode /\ fold' = fold) \/ (mode' = "ATOMIC" /\ fold' = <<>>)
      BY <2>2
    <3>2. <<>> \in Seq(S)
      OBVIOUS
    <3>3. mode \in {"ATOMIC", "MULTI"} /\ fold \in Seq(S)
      BY DEF TypeInv, CallTypes
    <3>4. mode' \in {"ATOMIC", "MULTI"} /\ fold' \in Seq([id : Nat, slot : Slots])
      BY <3>1, <3>2, <3>3
    <3>. QED BY <2>1, <2>2, <3>4 DEF TypeInv, CallTypes, target
  <2>6. CallShape'
    <3>1. fold' = fold \/ Len(fold') = 0
      BY <2>2
    <3>2. Len(fold') <= op'.cmd.id
      <4>1. op'.cmd.id \in Nat
        BY <2>1 DEF Op, Command
      <4>. QED BY <2>1, <3>1, <4>1
    <3>. QED BY <2>1, <2>2, <3>2 DEF TypeInv, CallShape, OnTheWay, target
  <2>. QED BY <2>3, <2>4, <2>5, <2>6 DEF TypeInv
<1>. QED BY <1>1, <1>2, <1>3, <1>4, <1>5, <1>6, <1>7 DEF Begin

\* A call that goes on: what it may have changed.
LEMMA GoesOnKeeps ==
  ASSUME TypeInv, LinkTypes', TableTypes', Covered', UNCHANGED <<cluster, tx, op, pos>>,
         pc \in OnTheWay, pc' \in OnTheWay,
         op.m \in {"exec", "unwatch"} => pc' # "multi" /\ cmdSlot' \in Slots,
         redir' \in [type : {"NONE", "MOVED", "ASK"}],
         cmdSlot' \in Slots \cup {None}, cmdSock' \in Nodes,
         missed' \subseteq (1..3) \X Nodes, pc' # "write" => missed' = {},
         guarded' \subseteq Slots, stale' \subseteq guarded', torn' \subseteq Tears
  PROVE  TypeInv'
<1>1. ClusterTypes'
  BY DEF TypeInv, ClusterTypes, cluster
<1>2. CallTypes'
  BY DEF TypeInv, CallTypes, tx, OnTheWay
<1>3. CallShape'
  BY DEF TypeInv, CallShape, tx, OnTheWay
<1>. QED BY <1>1, <1>2, <1>3 DEF TypeInv, Coverage

\* MULTI and ASKING before a command.
LEMMA PreludeKeeps ==
  ASSUME TypeInv, SendMulti \/ SendAsking
  PROVE  TypeInv'
<1>1. /\ pc \in OnTheWay /\ cmdSock \in Nodes /\ pc \in {"multi", "asking"}
      /\ pc = "multi" => op.m \notin {"exec", "unwatch"} /\ op.slot \in Slots /\ master[op.slot] \in Nodes
      /\ op.m \in {"exec", "unwatch"} => cmdSlot \in Slots
      /\ Covered /\ missed = {}
      /\ link \in [Nodes -> LinkType] /\ ClusterTypes /\ LinkTypes
  <2>1. pc \in {"multi", "asking"}
    BY DEF SendMulti, SendAsking
  <2>. QED BY <2>1, HasMaster DEF TypeInv, CallShape, LinkTypes, OnTheWay
<1>2. /\ UNCHANGED <<cluster, table, op, effects, cmdSlot, cmdSock, redir, missed, mode, fold>>
      /\ pc = "multi" => UNCHANGED refused
  BY DEF SendMulti, SendAsking, target, tx
<1>3. Covered' /\ Coverage'
  BY <1>1, <1>2 DEF Covered, Coverage, table
<1>4. /\ redir \in [type : {"NONE", "MOVED", "ASK"}] /\ refused \subseteq Slots
      /\ cmdSlot \in Slots \cup {None} /\ guarded \subseteq Slots /\ stale \subseteq guarded
      /\ torn \subseteq Tears
  BY DEF TypeInv, CallTypes
<1>5. TableTypes'
  BY <1>2 DEF TypeInv, TableTypes, table
<1>6. ASSUME NEW n \in Nodes, NEW name \in {"MULTI", "ASKING"}, NEW o \in Direct(n, name)
      PROVE  /\ [link EXCEPT ![n] = o.l] \in [Nodes -> LinkType]
             /\ [link EXCEPT ![n] = o.l, ![cmdSock].multi = TRUE] \in [Nodes -> LinkType]
             /\ Late(o) \subseteq Tears
  <2>1. o.l \in LinkType
    BY <1>1, DirectType
  <2> DEFINE ls == [link EXCEPT ![n] = o.l]
  <2>2. ls \in [Nodes -> LinkType]
    BY <1>1, <2>1
  <2>3. [link EXCEPT ![n] = o.l, ![cmdSock].multi = TRUE] = [ls EXCEPT ![cmdSock].multi = TRUE]
    OBVIOUS
  <2> HIDE DEF ls
  <2>4. [ls[cmdSock] EXCEPT !.multi = TRUE] \in LinkType
    BY <1>1, <2>2, LinkChanges
  <2>5. [ls EXCEPT ![cmdSock].multi = TRUE] \in [Nodes -> LinkType]
    BY <1>1, <2>2, <2>4
  <2>. QED BY <2>2, <2>3, <2>5 DEF ls, Late, Tears
<1>7. CASE SendMulti
  <2> DEFINE n == master[op.slot]
  <2>1. n \in Nodes
    BY <1>1, <1>7 DEF SendMulti
  <2>2. PICK o \in Direct(n, "MULTI") :
          IF o.ok
          THEN /\ link' = [[link EXCEPT ![n] = o.l] EXCEPT ![cmdSock].multi = TRUE]
               /\ pc' = Sending(redir.type) /\ GoesOn
          ELSE Fails([link EXCEPT ![n] = o.l], redir.type, Late(o))
    BY <1>7 DEF SendMulti
  <2> HIDE DEF n
  <2> DEFINE ls == [link EXCEPT ![n] = o.l]
  <2>3. ls \in [Nodes -> LinkType] /\ Late(o) \subseteq Tears
        /\ [ls EXCEPT ![cmdSock].multi = TRUE] \in [Nodes -> LinkType]
    BY <1>6, <2>1
  <2>4. CASE o.ok
    <3>1. /\ LinkTypes' /\ pc' \in {"asking", "write"}
          /\ guarded' = guarded /\ stale' = stale /\ torn' = torn /\ pos' = pos
      BY <2>2, <2>3, <2>4 DEF LinkTypes, Sending, GoesOn
    <3>2. UNCHANGED tx
      BY <1>2, <1>7 DEF SendMulti, tx
    <3>. QED BY <1>1, <1>2, <1>3, <1>4, <1>5, <3>1, <3>2, GoesOnKeeps DEF OnTheWay
  <2>5. CASE ~o.ok
    <3>1. Fails(ls, redir.type, Late(o)) /\ refused' = refused
      BY <1>2, <1>7, <2>2, <2>5 DEF SendMulti
    <3> HIDE DEF ls
    <3>. QED BY <1>1, <1>2, <1>3, <1>4, <1>5, <2>3, <3>1, FailsKeeps
  <2>. QED BY <2>4, <2>5
<1>8. CASE SendAsking
  <2>1. PICK o \in Direct(cmdSock, "ASKING") :
          IF o.ok THEN link' = [link EXCEPT ![cmdSock] = o.l] /\ pc' = "write" /\ GoesOn /\ UNCHANGED refused
          ELSE Fails([link EXCEPT ![cmdSock] = o.l], redir.type, Late(o)) /\ Unsent
    BY <1>8 DEF SendAsking
  <2> DEFINE ls == [link EXCEPT ![cmdSock] = o.l]
  <2>2. ls \in [Nodes -> LinkType] /\ Late(o) \subseteq Tears
    BY <1>1, <1>6
  <2>3. CASE o.ok
    <3>1. /\ LinkTypes' /\ pc' = "write" /\ UNCHANGED tx
          /\ guarded' = guarded /\ stale' = stale /\ torn' = torn /\ pos' = pos
      BY <1>2, <2>1, <2>2, <2>3 DEF LinkTypes, GoesOn, tx
    <3>. QED BY <1>1, <1>2, <1>3, <1>4, <1>5, <3>1, GoesOnKeeps DEF OnTheWay
  <2>4. CASE ~o.ok
    <3>1. Fails(ls, redir.type, Late(o)) /\ refused' \subseteq Slots
      BY <1>1, <1>4, <2>1, <2>4 DEF Unsent
    <3> HIDE DEF ls
    <3>. QED BY <1>1, <1>2, <1>3, <1>4, <1>5, <2>2, <3>1, FailsKeeps
  <2>. QED BY <2>3, <2>4
<1>. QED BY <1>7, <1>8

\* cluster_sock_write.
LEMMA ReadiedType ==
  ASSUME ClusterTypes, LinkTypes, NEW n \in Nodes, NEW k, NEW o \in Readied(n, k)
  PROVE  o.l \in LinkType /\ o.late \in BOOLEAN /\ o.ok \in BOOLEAN
<1>1. Live(n) \in LinkType
  BY LiveType
<1>2. CASE o = [ok |-> Reachable(n), l |-> Live(n), late |-> FALSE]
  <2>1. Reachable(n) \in BOOLEAN
    BY <1>1, LinkFields DEF Reachable
  <2>. QED BY <1>1, <1>2, <2>1
<1>3. ASSUME NEW d \in Direct(n, "READONLY"), o = [d EXCEPT !.l.readonly = d.ok]
      PROVE  o.l \in LinkType /\ o.late \in BOOLEAN /\ o.ok \in BOOLEAN
  <2>1. d.l \in LinkType /\ d.late \in BOOLEAN /\ d.ok \in BOOLEAN
    BY DirectType
  <2>2. o.l = [d.l EXCEPT !.readonly = d.ok] /\ o.late = d.late /\ o.ok = d.ok
    <3>1. PICK x, y, z : d = [ok |-> x, l |-> y, late |-> z]
      BY Zenon DEF Direct
    <3>2. o = [ok |-> x, l |-> [y EXCEPT !.readonly = x], late |-> z]
      BY <1>3, <3>1
    <3>. QED BY <3>1, <3>2
  <2>. QED BY <2>1, <2>2, LinkChanges
<1>. QED BY <1>2, <1>3 DEF Readied

LEMMA WriteKeeps ==
  ASSUME TypeInv, Write
  PROVE  TypeInv'
<1>1. /\ pc = "write" /\ pc \in OnTheWay /\ cmdSock \in Nodes
      /\ op.m \in {"exec", "unwatch"} => cmdSlot \in Slots
      /\ ClusterTypes /\ LinkTypes /\ link \in [Nodes -> LinkType]
      /\ op.cmd \in Command /\ (op.cmd.name = "WATCH" => op.cmd.slot \in Slots)
      /\ op.m = "exec" => cmdSlot \in Slots
  <2>1. pc = "write"
    BY DEF Write
  <2>. QED BY <2>1 DEF TypeInv, CallShape, CallTypes, LinkTypes, OnTheWay, Op
<1>2. UNCHANGED <<cluster, table, redir, mode, fold, op>>
  BY DEF Write
<1>3. /\ redir \in [type : {"NONE", "MOVED", "ASK"}] /\ refused \subseteq Slots
      /\ cmdSlot \in Slots \cup {None} /\ guarded \subseteq Slots /\ stale \subseteq guarded
      /\ torn \subseteq Tears /\ missed \subseteq (1..3) \X Nodes
  BY DEF TypeInv, CallTypes
<1>4. TableTypes' /\ Covered' /\ Coverage' /\ \A n \in Nodes : nodeSlot[n] \in Slots \cup {None}
  BY <1>1, <1>2, HasMaster DEF TypeInv, TableTypes, table, Covered, Coverage
<1>5. ASSUME NEW k \in 1..3, NEW n \in Nodes, NEW refuse \in BOOLEAN, WriteTo(n, k, refuse)
      PROVE  TypeInv'
  <2>1. PICK o \in Readied(n, k) : link' = [link EXCEPT ![n] = Served(n, o.l, op.cmd, refuse)]
    BY <1>5 DEF WriteTo
  <2>2. /\ cmdSock' = n /\ missed' = {}
        /\ cmdSlot' = (IF k = 3 THEN nodeSlot[n] ELSE cmdSlot) /\ pc' = "read"
        /\ torn' = torn \cup WatchLost \cup FellBack(n)
        /\ UNCHANGED <<pos, ret, guarded, stale, refused>> /\ n \in Tried[k]
    BY <1>5 DEF WriteTo, Trying
  <2>3. LinkTypes'
    <3>1. o.l \in LinkType
      BY <1>1, ReadiedType
    <3>2. Served(n, o.l, op.cmd, refuse) \in LinkType
      BY <1>1, <3>1, ServedType
    <3>. QED BY <1>1, <2>1, <3>2 DEF LinkTypes
  <2>4. torn' \subseteq Tears
    <3>1. WatchLost \subseteq Tears /\ FellBack(n) \subseteq Tears
      BY DEF WatchLost, FellBack, Tears
    <3>. QED BY <1>3, <2>2, <3>1
  <2>5. op.m \in {"exec", "unwatch"} => k # 3
    BY <2>2 DEF Tried, IsDirect
  <2>6. cmdSlot' \in Slots \cup {None} /\ (op.m \in {"exec", "unwatch"} => cmdSlot' \in Slots)
    BY <1>1, <1>3, <1>4, <2>2, <2>5
  <2>7. pc' \in OnTheWay /\ pc' # "multi" /\ pc' # "write"
    BY <2>2 DEF OnTheWay
  <2>8. /\ UNCHANGED <<cluster, tx, op, pos>> /\ redir' \in [type : {"NONE", "MOVED", "ASK"}]
        /\ guarded' \subseteq Slots /\ stale' \subseteq guarded' /\ cmdSock' \in Nodes
        /\ missed' = {}
    BY <1>2, <1>3, <2>2 DEF tx
  <2>. QED BY <1>1, <1>4, <2>3, <2>4, <2>6, <2>7, <2>8, GoesOnKeeps
<1>6. ASSUME NEW k \in 1..3, NEW n \in Nodes, Miss(n, k)
      PROVE  TypeInv'
  <2>1. PICK o \in Readied(n, k) : link' = [link EXCEPT ![n] = o.l] /\ torn' = torn \cup Late(o) \cup FellBack(n)
    BY <1>6 DEF Miss
  <2>2. /\ missed' = missed \cup {<<k, n>>}
        /\ UNCHANGED <<cmdSlot, cmdSock, effects, pc, pos, ret, guarded, stale, refused>>
    BY <1>6 DEF Miss
  <2>3. o.l \in LinkType /\ Late(o) \subseteq Tears /\ FellBack(n) \subseteq Tears
    BY <1>1, ReadiedType DEF Late, FellBack, Tears
  <2>4. LinkTypes' /\ torn' \subseteq Tears /\ UNCHANGED <<cluster, tx, op, pos>>
    BY <1>1, <1>2, <1>3, <2>1, <2>2, <2>3 DEF LinkTypes, tx
  <2>5. missed' \subseteq (1..3) \X Nodes /\ pc' = "write" /\ pc' \in OnTheWay
    BY <1>1, <1>3, <2>2
  <2>. QED BY <1>1, <1>2, <1>3, <1>4, <2>2, <2>4, <2>5, GoesOnKeeps
<1>7. CASE NobodyToWriteTo
  <2>1. /\ Fails(link, redir.type, {}) /\ UNCHANGED <<cmdSlot, cmdSock, effects>>
        /\ missed' = {} /\ refused' \subseteq Slots
    BY <1>1, <1>3, <1>7 DEF NobodyToWriteTo, Unsent
  <2>. QED BY <1>1, <1>2, <1>3, <1>4, <2>1, FailsKeeps
<1>. QED BY <1>5, <1>6, <1>7 DEF Write

-----------------------------------------------------------------------------
(* cluster_check_response. *)

LEMMA NodesAreType ==
  ASSUME ClusterTypes, NEW ns \in SUBSET Owners, NodesAre(ns)
  PROVE  /\ nodes' \subseteq Nodes /\ slaves' \in [Nodes -> SUBSET Nodes]
         /\ nodeSlot' \in [Nodes -> Slots \cup {None}]
<1>1. nodes' = ns /\ ns \subseteq Nodes
  BY DEF NodesAre, Owners, ClusterTypes
<1>2. slaves' \in [Nodes -> SUBSET Nodes]
  BY DEF NodesAre, ClusterTypes
<1>3. \A n \in ns : (CHOOSE s \in Slots : owner[s] = n) \in Slots
  BY DEF Owners
<1>4. nodeSlot' = [n \in Nodes |-> IF n \in ns THEN CHOOSE s \in Slots : owner[s] = n ELSE None]
  BY DEF NodesAre
<1>5. nodeSlot' \in [Nodes -> Slots \cup {None}]
  BY <1>3, <1>4
<1>. QED BY <1>1, <1>2, <1>5

\* A redirection keeps each slot mapped to a node of the table, mapped anew or one by one; or
\* the call fails.
LEMMA MappedType ==
  ASSUME ClusterTypes, Mapped
  PROVE  LinkTypes' /\ TableTypes' /\ Covered'
<1>1. NodesAre(Owners) /\ master' = owner /\ link' = [n \in Nodes |-> Closed]
  BY DEF Mapped
<1>2. /\ nodes' \subseteq Nodes /\ slaves' \in [Nodes -> SUBSET Nodes]
      /\ nodeSlot' \in [Nodes -> Slots \cup {None}]
  BY <1>1, NodesAreType
<1>3. \A s \in Slots : owner[s] \in nodes'
  BY <1>1 DEF NodesAre, Owners
<1>4. owner \in [Slots -> nodes']
  BY <1>3 DEF ClusterTypes
<1>. QED BY <1>1, <1>2, <1>3, <1>4, NewLinks DEF LinkTypes, TableTypes, Covered

LEMMA PointsType ==
  ASSUME TableTypes, Covered, NEW to \in Nodes, NEW s \in Slots, NEW r, r.to = to, r.slot = s,
         Points(r, nodes \cup {to})
  PROVE  TableTypes' /\ Covered'
BY DEF Points, TableTypes, Covered

LEMMA FollowType ==
  ASSUME TypeInv, NEW r, r.kind \in {"moved", "ask"}, r.to \in Nodes, r.slot \in Slots,
         NEW ls \in [Nodes -> LinkType], op.slot \in Slots, pc \in OnTheWay, pc # "write",
         op.m \notin {"exec", "unwatch"}, mode = "ATOMIC",
         FollowMoved(r, ls) \/ FollowAsk(r, ls),
         UNCHANGED <<cluster, tx, op, missed, cmdSlot>>, redir' \in [type : {"NONE", "MOVED", "ASK"}]
  PROVE  TypeInv'
<1>0. /\ TableTypes /\ ClusterTypes /\ Covered /\ missed = {} /\ fold = <<>>
      /\ cmdSlot \in Slots \cup {None} /\ cmdSock \in Nodes /\ refused \subseteq Slots
      /\ guarded \subseteq Slots /\ stale \subseteq guarded /\ torn \subseteq Tears
      /\ UNCHANGED <<mode, fold, refused>>
  BY HasMaster DEF TypeInv, CallTypes, CallShape, tx
<1>1. ASSUME NEW type, GoesRound(type), LinkTypes', TableTypes', Covered', cmdSock' \in Nodes
      PROVE  TypeInv'
  <2>1. /\ pc' \in {"asking", "write"} /\ torn' = torn \cup WatchMoved
        /\ UNCHANGED <<pos, ret, guarded, stale>>
    BY <1>1 DEF GoesRound, Sending
  <2>2. torn' \subseteq Tears
    BY <1>0, <2>1 DEF WatchMoved, Tears
  <2>3. pc' \in OnTheWay /\ missed' = {}
    BY <1>0, <2>1 DEF OnTheWay
  <2>. QED BY <1>0, <1>1, <2>1, <2>2, <2>3, GoesOnKeeps
<1>2. ASSUME LinkTypes', TableTypes', Covered', ToItsMaster
      PROVE  TypeInv'
  <2>1. cmdSock' \in Nodes
    BY <1>2 DEF ToItsMaster, TableTypes, Covered
  <2>. QED BY <1>1, <1>2, <2>1 DEF ToItsMaster
<1>3. ASSUME NEW ACTION k, k \in [Nodes -> LinkType], NEW type, Fails(k, type, {}), TableTypes', Coverage',
             cmdSock' = cmdSock
      PROVE  TypeInv'
  <2>1. {} \subseteq Tears
    OBVIOUS
  <2>. QED BY <1>0, <1>3, <2>1, FailsKeeps
<1>4. CASE UNCHANGED table /\ link' = ls /\ ToItsMaster
  <2>1. LinkTypes' /\ TableTypes' /\ Covered'
    BY <1>0, <1>4 DEF LinkTypes, TableTypes, Covered, table
  <2>. QED BY <1>2, <1>4, <2>1
<1>5. CASE Points(r, nodes \cup {r.to}) /\ link' = ls /\ ToItsMaster
  <2> DEFINE to == r.to  s == r.slot
  <2>1. to \in Nodes /\ s \in Slots
    OBVIOUS
  <2> HIDE DEF to, s
  <2>2. TableTypes' /\ Covered'
    BY <1>0, <1>5, <2>1, PointsType DEF to, s
  <2>3. LinkTypes'
    BY <1>5 DEF LinkTypes
  <2>. QED BY <1>2, <1>5, <2>2, <2>3
<1>6. CASE Mapped /\ ToItsMaster
  BY <1>0, <1>2, <1>6, MappedType
<1>7. CASE UNCHANGED table /\ Fails(ls, "MOVED", {}) /\ UNCHANGED cmdSock
  <2>1. TableTypes' /\ Coverage'
    BY <1>0, <1>7 DEF TableTypes, Covered, Coverage, table
  <2>. QED BY <1>3, <1>7, <2>1
<1>8. ASSUME NEW ns \in SUBSET Owners, NodesAre(ns), master' = [s \in Slots |-> None],
             Fails([n \in Nodes |-> Closed], "MOVED", {}), UNCHANGED cmdSock
      PROVE  TypeInv'
  <2>1. TableTypes'
    BY <1>0, <1>8, NodesAreType DEF TableTypes
  <2>2. Coverage'
    <3>1. guarded' = {} /\ fold' = <<>>
      BY <1>0, <1>8 DEF Fails, Unguarded
    <3>2. pc' \notin OnTheWay
      BY <1>8 DEF Fails, Returns, OnTheWay
    <3>. QED BY <1>8, <3>1, <3>2 DEF Coverage, Unmapped
  <2> DEFINE k == [n \in Nodes |-> Closed]
  <2>3. k \in [Nodes -> LinkType] /\ Fails(k, "MOVED", {})
    BY <1>8, NewLinks
  <2> HIDE DEF k
  <2>. QED BY <1>3, <1>8, <2>1, <2>2, <2>3
<1>9. CASE FollowMoved(r, ls)
  <2>1. master[r.slot] # None
    BY <1>0, NoneAssumption DEF Covered, TableTypes
  <2>2. nodes \cup {r.to} = nodes \cup {r.to}
    OBVIOUS
  <2>3. CASE MappingFails(ls) /\ UNCHANGED cmdSock
    BY <1>7, <1>8, <2>3 DEF MappingFails
  <2>. QED BY <1>4, <1>5, <1>6, <1>7, <1>9, <2>1, <2>3 DEF FollowMoved, UpdateSlot
<1>10. CASE FollowAsk(r, ls)
  <2> DEFINE to == r.to  s == r.slot
  <2>1. to \in Nodes /\ s \in Slots
    OBVIOUS
  <2>2. /\ nodes' = nodes \cup {to} /\ master' = master /\ slaves' = slaves
        /\ nodeSlot' = [nodeSlot EXCEPT ![to] = IF to \in nodes THEN nodeSlot[to] ELSE s]
        /\ link' = ls /\ cmdSock' = to /\ GoesRound("ASK")
    BY <1>10 DEF FollowAsk
  <2> HIDE DEF to, s
  <2>3. TableTypes' /\ Covered' /\ LinkTypes'
    BY <1>0, <2>1, <2>2 DEF TableTypes, Covered, LinkTypes
  <2>. QED BY <1>1, <2>1, <2>2, <2>3
<1>. QED BY <1>9, <1>10

\* What a read that ends the call for good leaves.
LEMMA ReturnsKeeps ==
  ASSUME TypeInv, LinkTypes', UNCHANGED <<cluster, table, op>>,
         mode' \in {"ATOMIC", "MULTI"}, fold' \in Seq([id : Nat, slot : Slots]), Len(fold') <= op.cmd.id,
         refused' \subseteq Slots,
         cmdSlot' \in Slots \cup {None}, cmdSock' \in Nodes \cup {None},
         redir' \in [type : {"NONE", "MOVED", "ASK"}], pc' = "idle",
         mode' = "ATOMIC" => fold' = <<>>, missed' = {},
         fold' = fold \/ fold' = <<>> \/ pc \in OnTheWay, guarded' \subseteq guarded \/ pc \in OnTheWay,
         pos' = pos, guarded' \subseteq Slots, stale' \subseteq guarded', torn' \subseteq Tears
  PROVE  TypeInv'
<1>1. ClusterTypes' /\ TableTypes' /\ Coverage'
  BY StaysCovered DEF TypeInv, ClusterTypes, cluster, OnTheWay
<1>2. CallTypes'
  BY DEF TypeInv, CallTypes
<1>3. CallShape'
  BY DEF TypeInv, CallShape, OnTheWay
<1>. QED BY <1>1, <1>2, <1>3 DEF TypeInv

LEMMA ReadKeeps ==
  ASSUME TypeInv, Read
  PROVE  TypeInv'
<1>1. /\ pc = "read" /\ op.m # "exec" /\ pc \in OnTheWay /\ cmdSock \in Nodes
      /\ IF op.m = "unwatch" THEN cmdSlot \in Slots ELSE op.slot \in Slots
      /\ Len(fold) < op.cmd.id /\ missed = {} /\ Covered
      /\ mode = "ATOMIC" => fold = <<>>
  <2>1. pc = "read" /\ op.m # "exec"
    BY DEF Read
  <2>. QED BY <2>1, HasMaster DEF TypeInv, CallShape, OnTheWay
<1>2. /\ redir \in [type : {"NONE", "MOVED", "ASK"}] /\ refused \subseteq Slots
      /\ cmdSlot \in Slots \cup {None} /\ guarded \subseteq Slots /\ stale \subseteq guarded
      /\ torn \subseteq Tears /\ mode \in {"ATOMIC", "MULTI"} /\ op.cmd.id \in Nat
      /\ fold \in Seq([id : Nat, slot : Slots]) /\ link \in [Nodes -> LinkType] /\ LinkTypes
      /\ \A s \in Slots : master[s] \in Nodes
      /\ op.m # "unwatch" => op.slot \in Slots
  BY <1>1, HasMaster DEF TypeInv, CallTypes, LinkTypes, Op, Command
<1>3. UNCHANGED <<cluster, mode, refused, cmdSlot, missed, op, effects>>
  BY DEF Read
<1>4. PICK o \in Reads(cmdSock) :
       LET ls == [link EXCEPT ![cmdSock] = o.l] IN
       CASE op.m = "directed" /\ o.r.kind \in Good             -> SlotSucceeded(o, ls)
         [] op.m = "unwatch" /\ o.r.kind \in {"ok", "queued"}  -> UnwatchAnswered(o, ls)
         [] \/ op.m = "directed" /\ o.r.kind \notin Good
            \/ op.m = "unwatch" /\ o.r.kind \notin {"ok", "queued"} -> SlotFailed(o, ls)
         [] ~IsDirect /\ o.r.kind \in Good                    -> Succeeded(o, ls)
         [] ~IsDirect /\ o.r.kind \in {"moved", "ask"}        -> Redirected(o, ls)
         [] op.m = "watch" /\ o.r.kind = "error"              -> WatchRefused(o, ls)
         [] OTHER                                             -> Failed(o, ls)
  BY DEF Read
<1> DEFINE ls == [link EXCEPT ![cmdSock] = o.l]
<1>5. /\ o.l \in LinkType /\ o.r \in Replies \cup {NoReply} /\ ls \in [Nodes -> LinkType]
      /\ o.r.kind \in {"moved", "ask"} => o.r.to \in Nodes /\ o.r.slot \in Slots
  <2>1. o.l \in LinkType /\ o.r \in Replies \cup {NoReply}
    BY <1>1, <1>2, ReadsType
  <2>2. o.r.kind \in {"moved", "ask"} => o.r.to \in Nodes /\ o.r.slot \in Slots
    BY <2>1, Redirects
  <2>. QED BY <1>1, <1>2, <2>1, <2>2
<1> HIDE DEF ls
<1>6. \/ op.m = "directed" /\ SlotSucceeded(o, ls)
      \/ SlotFailed(o, ls)
      \/ ~IsDirect /\ Succeeded(o, ls)
      \/ ~IsDirect /\ o.r.kind \in {"moved", "ask"} /\ Redirected(o, ls)
      \/ op.m = "unwatch" /\ UnwatchAnswered(o, ls)
      \/ op.m = "watch" /\ WatchRefused(o, ls)
      \/ Failed(o, ls)
  BY <1>4 DEF ls
<1>7. ASSUME Hands(o), op.m # "unwatch"
      PROVE  /\ fold' \in Seq([id : Nat, slot : Slots]) /\ Len(fold') <= op.cmd.id
             /\ pc' = "idle" /\ UNCHANGED <<table, cmdSock, pos, stale>>
             /\ mode' = "ATOMIC" => fold' = <<>>
  <2>1. /\ fold' = (IF mode = "MULTI" THEN Append(fold, [id |-> op.cmd.id, slot |-> op.slot]) ELSE fold)
        /\ pc' = "idle" /\ UNCHANGED <<table, cmdSock, pos, stale>>
    BY <1>7 DEF Hands, Returns
  <2>2. [id |-> op.cmd.id, slot |-> op.slot] \in [id : Nat, slot : Slots]
    BY <1>2, <1>7
  <2> DEFINE x == [id |-> op.cmd.id, slot |-> op.slot]  S == [id : Nat, slot : Slots]
  <2> HIDE DEF x, S
  <2>3. fold \in Seq(S) /\ x \in S
    BY <1>2, <2>2 DEF x, S
  <2>4. Append(fold, x) \in Seq(S) /\ Len(Append(fold, x)) = Len(fold) + 1 /\ Len(fold) \in Nat
    BY <2>3
  <2>5. fold' \in Seq(S) /\ Len(fold') <= op.cmd.id
    BY <1>1, <1>2, <2>1, <2>3, <2>4 DEF x
  <2>6. mode' = "ATOMIC" => fold' = <<>>
    BY <1>1, <1>3, <2>1
  <2>. QED BY <2>1, <2>5, <2>6 DEF S
<1>8. ASSUME NEW b \in BOOLEAN, NEW s \in Slots
      PROVE  [ls EXCEPT ![master[s]].watching = b] \in [Nodes -> LinkType]
  <2> DEFINE n == master[s]
  <2> HIDE DEF n
  <2>1. n \in Nodes /\ ls[n] \in LinkType
    BY <1>2, <1>5 DEF n
  <2>2. [ls[n] EXCEPT !.watching = b] \in LinkType
    BY <2>1, LinkChanges
  <2>3. [ls EXCEPT ![n].watching = b] \in [Nodes -> LinkType]
    BY <1>5, <2>2
  <2>. QED BY <2>3 DEF n
<1>18. op.m # "unwatch" => [ls EXCEPT ![master[op.slot]].watching = TRUE] \in [Nodes -> LinkType]
  <2>1. op.m # "unwatch" => op.slot \in Slots
    BY <1>2
  <2>. QED BY <1>8, <2>1
<1>9. cmdSock \in Nodes \cup {None}
  BY <1>1
<1>17. ASSUME UNCHANGED table PROVE TableTypes' /\ Coverage'
  BY <1>1, <1>17 DEF TypeInv, TableTypes, Covered, Coverage, table
<1>10. CASE op.m = "directed" /\ SlotSucceeded(o, ls)
  <2>1. Hands(o) /\ link' = ls /\ UNCHANGED <<redir, guarded, torn>>
    BY <1>10 DEF SlotSucceeded
  <2>2. LinkTypes'
    BY <1>5, <2>1 DEF LinkTypes
  <2>. QED BY <1>1, <1>2, <1>3, <1>7, <1>9, <1>10, <2>1, <2>2, ReturnsKeeps
<1>11. CASE SlotFailed(o, ls)
  <2>1. /\ redir' \in [type : {"NONE", "MOVED", "ASK"}] /\ Fails(ls, redir'.type, Late(o))
        /\ UNCHANGED <<table, cmdSock, fold>>
    BY <1>2, <1>11 DEF SlotFailed
  <2>2. Late(o) \subseteq Tears
    BY DEF Late, Tears
  <2>. QED BY <1>1, <1>2, <1>3, <1>5, <1>9, <1>17, <2>1, <2>2, FailsKeeps
<1>12. CASE ~IsDirect /\ Succeeded(o, ls)
  <2>0. op.m # "unwatch"
    BY <1>12 DEF IsDirect
  <2>1. Hands(o) /\ redir' = [type |-> "NONE"]
    BY <1>12 DEF Succeeded
  <2>2. LinkTypes' /\ guarded' \subseteq Slots /\ guarded \subseteq guarded'
    BY <1>1, <1>2, <1>5, <1>12, <1>18, <2>0 DEF Succeeded, LinkTypes
  <2>3. redir' \in [type : {"NONE", "MOVED", "ASK"}]
    BY <2>1
  <2>4. stale' \subseteq guarded'
    BY <1>2, <1>7, <2>0, <2>1, <2>2
  <2>5. torn' \subseteq Tears
    BY <1>2, <1>12 DEF Succeeded, WatchedElsewhere, Tears
  <2>. QED BY <1>1, <1>2, <1>3, <1>7, <1>9, <2>0, <2>1, <2>2, <2>3, <2>4, <2>5, ReturnsKeeps
<1>13. CASE ~IsDirect /\ o.r.kind \in {"moved", "ask"} /\ Redirected(o, ls)
  <2>1. redir' \in [type : {"NONE", "MOVED", "ASK"}] /\ UNCHANGED fold
    BY <1>13 DEF Redirected
  <2>2. CASE mode = "MULTI"
    <3>1. Fails(ls, redir'.type, {}) /\ UNCHANGED <<table, cmdSock>>
      BY <1>13, <2>2 DEF Redirected
    <3>. QED BY <1>1, <1>2, <1>3, <1>5, <1>9, <1>17, <2>1, <3>1, FailsKeeps
  <2>3. CASE mode # "MULTI"
    <3> DEFINE r == o.r
    <3>1. /\ r.kind \in {"moved", "ask"} /\ r.to \in Nodes /\ r.slot \in Slots
          /\ FollowMoved(r, ls) \/ FollowAsk(r, ls)
      BY <1>5, <1>13, <2>3 DEF Redirected
    <3>2. UNCHANGED <<cluster, tx, op, missed, cmdSlot>> /\ op.m \notin {"exec", "unwatch"} /\ mode = "ATOMIC"
      BY <1>2, <1>3, <1>13, <2>1, <2>3 DEF tx, IsDirect
    <3> HIDE DEF r
    <3>. QED BY <1>1, <1>2, <1>5, <2>1, <3>1, <3>2, FollowType
  <2>. QED BY <2>2, <2>3
<1>14. CASE op.m = "watch" /\ WatchRefused(o, ls)
  <2>1. /\ redir' = [type |-> "NONE"]
        /\ link' = [ls EXCEPT ![master[op.slot]].watching = TRUE]
        /\ guarded' = guarded \cup {op.slot}
        /\ torn' = torn \cup {"watchLost"} /\ pc' = "idle"
        /\ UNCHANGED <<table, cmdSock, fold, pos, stale>>
    BY <1>14 DEF WatchRefused, Returns
  <2>2. /\ LinkTypes' /\ guarded' \subseteq Slots /\ stale' \subseteq guarded'
        /\ torn' \subseteq Tears /\ redir' \in [type : {"NONE", "MOVED", "ASK"}]
    BY <1>1, <1>2, <1>14, <1>18, <2>1 DEF LinkTypes, Tears
  <2>3. Len(fold') <= op.cmd.id
    BY <1>1, <1>2, <2>1
  <2>. QED BY <1>1, <1>2, <1>3, <1>9, <2>1, <2>2, <2>3, ReturnsKeeps
<1>15. CASE Failed(o, ls)
  <2> DEFINE after == IF o.r.kind = "lost" THEN [ls EXCEPT ![cmdSock] = Closed] ELSE ls
  <2>1. /\ redir' \in [type : {"NONE", "MOVED", "ASK"}] /\ Fails(after, redir'.type, {})
        /\ UNCHANGED <<table, cmdSock, fold>>
    BY <1>2, <1>15 DEF Failed
  <2>2. after \in [Nodes -> LinkType]
    BY <1>5, NewLinks
  <2> HIDE DEF after
  <2>. QED BY <1>1, <1>2, <1>3, <1>9, <1>17, <2>1, <2>2, FailsKeeps
<1>16. CASE op.m = "unwatch" /\ UnwatchAnswered(o, ls)
  <2>1. /\ link' = [ls EXCEPT ![master[cmdSlot]].watching = FALSE]
        /\ torn' = torn \cup StillWatching(link') /\ pc' = "unwatch"
        /\ UNCHANGED <<table, cmdSock, fold, redir, pos, ret, guarded, stale>>
    BY <1>16 DEF UnwatchAnswered
  <2>2. LinkTypes' /\ torn' \subseteq Tears
    BY <1>1, <1>2, <1>8, <1>16, <2>1 DEF LinkTypes, StillWatching, Tears
  <2>3. ClusterTypes' /\ TableTypes' /\ Coverage'
    BY <1>3, <1>17, <2>1 DEF TypeInv, ClusterTypes, cluster
  <2>4. CallTypes' /\ CallShape'
    BY <1>1, <1>3, <1>16, <2>1, <2>2 DEF TypeInv, CallTypes, CallShape, OnTheWay
  <2>. QED BY <2>2, <2>3, <2>4 DEF TypeInv
<1>. QED BY <1>6, <1>10, <1>11, <1>12, <1>13, <1>14, <1>15, <1>16

-----------------------------------------------------------------------------
(* exec() and discard(). *)

LEMMA EndsTxKeeps ==
  ASSUME TypeInv, NEW ACTION ls, ls \in [Nodes -> LinkType], NEW ACTION answers, NEW ACTION tears,
         tears \subseteq Tears, EndsTx(ls, answers, tears),
         UNCHANGED <<cluster, table, refused, redir, op, pos, missed>>, pc # "write",
         cmdSlot' \in Slots \cup {None}, cmdSock' \in Nodes \cup {None}
  PROVE  TypeInv'
<1>1. /\ link' = Reset(ls) /\ mode' = "ATOMIC" /\ fold' = <<>> /\ pc' = "idle"
      /\ guarded' = {} /\ stale' = {}
      /\ torn' = torn \cup tears \cup StillWatching(Reset(ls))
  BY DEF EndsTx, Returns, Unguarded
<1>2. LinkTypes'
  BY <1>1, ResetType DEF LinkTypes
<1>3. torn' \subseteq Tears
  <2>1. torn \subseteq Tears /\ StillWatching(Reset(ls)) \subseteq Tears
    BY DEF TypeInv, CallTypes, StillWatching, Tears
  <2>. QED BY <1>1, <2>1
<1>4. op.cmd.id \in Nat /\ refused \subseteq Slots /\ redir \in [type : {"NONE", "MOVED", "ASK"}]
      /\ missed = {}
  BY DEF TypeInv, CallTypes, CallShape, Op, Command
<1>5. fold' \in Seq([id : Nat, slot : Slots]) /\ Len(fold') <= op.cmd.id
  BY <1>1, <1>4
<1>6. /\ mode' \in {"ATOMIC", "MULTI"} /\ guarded' \subseteq Slots /\ stale' \subseteq guarded'
      /\ UNCHANGED <<cluster, table, op>> /\ pos' = pos
      /\ missed' = {} /\ guarded' \subseteq guarded /\ refused' \subseteq Slots /\ redir' \in [type : {"NONE", "MOVED", "ASK"}]
  BY <1>1, <1>4
<1>. QED BY <1>1, <1>2, <1>3, <1>5, <1>6, ReturnsKeeps

\* An item of the queue is about a slot of a node.
LEMMA ItemType ==
  ASSUME TypeInv, pos <= Len(fold)
  PROVE  Item \in [id : Nat, slot : Slots] /\ Item.slot \in Slots /\ master[Item.slot] \in Nodes
<1>1. fold \in Seq([id : Nat, slot : Slots]) /\ pos \in Nat \ {0}
  BY DEF TypeInv, CallTypes
<1>2. fold[pos] \in [id : Nat, slot : Slots]
  <2> DEFINE S == [id : Nat, slot : Slots]
  <2> HIDE DEF S
  <2>1. fold \in Seq(S)
    BY <1>1 DEF S
  <2>2. fold[pos] \in S
    BY <1>1, <2>1
  <2>. QED BY <2>2 DEF S
<1>3. Item.slot \in Slots
  BY <1>2 DEF Item
<1>4. fold # <<>>
  BY <1>1
<1>. QED BY <1>2, <1>3, <1>4, HasMaster DEF Item

\* The steps of the loops over the queue that do not end the call.
LEMMA LoopKeeps ==
  ASSUME TypeInv, LinkTypes', UNCHANGED <<cluster, table, mode, fold, op, redir, missed>>,
         refused' \subseteq Slots, cmdSlot' \in Slots \cup {None}, cmdSock' \in Nodes \cup {None},
         pc \in {"exec", "collect", "abort", "read"}, pc' \in {"exec", "collect", "abort"},
         pc' \in {"exec", "collect"} => op.m = "exec",
         pos' \in Nat \ {0}, pos' <= Len(fold) + 1,
         guarded' \subseteq guarded, guarded' \subseteq Slots, stale' \subseteq guarded', torn' \subseteq Tears
  PROVE  TypeInv'
<1>1. ClusterTypes' /\ TableTypes' /\ Coverage'
  BY StaysCovered DEF TypeInv, ClusterTypes, cluster, OnTheWay
<1>2. CallTypes'
  BY DEF TypeInv, CallTypes
<1>3. op.cmd.id <= MaxCalls /\ Len(fold) <= op.cmd.id
      /\ op.cmd.id \in Nat /\ Len(fold) \in Nat /\ MaxCalls \in Nat
  BY BoundAssumption DEF TypeInv, CallTypes, CallShape, Op, Command
<1>4. pos' <= MaxCalls + 1
  BY <1>3
<1>5. CallShape'
  BY <1>4 DEF TypeInv, CallShape, OnTheWay
<1>. QED BY <1>1, <1>2, <1>5 DEF TypeInv

LEMMA ExecKeeps ==
  ASSUME TypeInv, ExecNode \/ ReadExec \/ ExecSent
  PROVE  TypeInv'
<1>1. /\ redir \in [type : {"NONE", "MOVED", "ASK"}] /\ refused \subseteq Slots
      /\ cmdSlot \in Slots \cup {None} /\ cmdSock \in Nodes \cup {None}
      /\ guarded \subseteq Slots /\ stale \subseteq guarded
      /\ torn \subseteq Tears /\ pos \in Nat \ {0} /\ Len(fold) \in Nat
      /\ link \in [Nodes -> LinkType] /\ LinkTypes
  BY DEF TypeInv, CallTypes, LinkTypes
<1>2. CASE ExecNode
  <2>1. /\ pc = "exec" /\ pos <= Len(fold) /\ op.m = "exec"
        /\ UNCHANGED <<cluster, link, table, tx, redir, missed, op, ret, history>>
    BY <1>2 DEF ExecNode, TypeInv, CallShape
  <2>2. UNCHANGED <<mode, fold, refused, guarded, stale, torn>>
    BY <2>1 DEF tx, history
  <2>3. Item.slot \in Slots /\ master[Item.slot] \in Nodes
    BY <2>1, ItemType
  <2>4. LinkTypes'
    BY <1>1, <2>1 DEF LinkTypes
  <2>5. CASE link[master[Item.slot]].multi
    <3>1. /\ cmdSlot' = Item.slot /\ cmdSock' = master[Item.slot]
          /\ pc' \in {"asking", "write"} /\ pos' = pos
      BY <1>2, <2>5 DEF ExecNode, Sending
    <3>2. ClusterTypes' /\ TableTypes' /\ Coverage'
      <4>1. fold # <<>>
        BY <1>1, <2>1
      <4>. QED BY <2>1, <4>1, HasMaster DEF TypeInv, ClusterTypes, TableTypes, Covered, Coverage, cluster, table
    <3>3. CallTypes'
      BY <2>1, <2>2, <2>3, <3>1 DEF TypeInv, CallTypes
    <3>4. CallShape'
      BY <2>1, <2>2, <2>3, <3>1 DEF TypeInv, CallShape, OnTheWay
    <3>. QED BY <2>4, <3>2, <3>3, <3>4 DEF TypeInv
  <2>6. CASE ~link[master[Item.slot]].multi
    <3>1. pos' = pos + 1 /\ UNCHANGED <<cmdSlot, cmdSock, pc>>
      BY <1>2, <2>6 DEF ExecNode
    <3>. QED BY <1>1, <2>1, <2>2, <2>4, <3>1, LoopKeeps
  <2>. QED BY <2>5, <2>6
<1>3. CASE ReadExec
  <2>1. /\ pc = "read" /\ op.m = "exec"
        /\ UNCHANGED <<cluster, table, mode, fold, cmdSlot, cmdSock, missed, op, effects>>
    BY <1>3 DEF ReadExec
  <2>2. cmdSock \in Nodes /\ cmdSlot \in Slots /\ pos <= Len(fold) /\ missed = {}
        /\ TableTypes' /\ Coverage'
    <3>1. pc \in OnTheWay /\ Covered
      BY <2>1, HasMaster DEF OnTheWay
    <3>. QED BY <2>1, <3>1 DEF TypeInv, CallShape, TableTypes, Coverage, Covered, table
  <2>3. PICK o \in Reads(cmdSock) :
       LET ls == [link EXCEPT ![cmdSock] = o.l] IN
       /\ refused' = IF o.r.kind = "array" THEN refused \ {cmdSlot} ELSE refused \cup {cmdSlot}
       /\ IF o.r.kind \in {"array", "nil"}
          THEN /\ link' = [ls EXCEPT ![cmdSock].multi = FALSE, ![cmdSock].watching = FALSE]
               /\ pc' = "exec" /\ pos' = pos + 1
               /\ UNCHANGED <<redir, ret, guarded, stale, torn>>
          ELSE /\ redir' = CASE o.r.kind = "ask"   -> [type |-> "ASK"]
                             [] o.r.kind = "moved" -> [type |-> "MOVED"]
                             [] OTHER -> redir
               /\ Fails(ls, redir'.type, Late(o))
    BY <1>3 DEF ReadExec
  <2> DEFINE ls == [link EXCEPT ![cmdSock] = o.l]
             after == [ls EXCEPT ![cmdSock].multi = FALSE, ![cmdSock].watching = FALSE]
  <2>4. refused' \subseteq Slots
    BY <1>1, <2>2, <2>3
  <2>5. o.l \in LinkType /\ ls \in [Nodes -> LinkType]
    BY <1>1, <2>2, ReadsType
  <2>6. after \in [Nodes -> LinkType]
    <3> DEFINE m == [ls EXCEPT ![cmdSock].multi = FALSE]
    <3>1. after = [m EXCEPT ![cmdSock].watching = FALSE]
      OBVIOUS
    <3> HIDE DEF ls, after
    <3>2. [ls[cmdSock] EXCEPT !.multi = FALSE] \in LinkType
      BY <2>2, <2>5, LinkChanges
    <3>3. m \in [Nodes -> LinkType]
      BY <2>2, <2>5, <3>2
    <3> HIDE DEF m
    <3>4. [m[cmdSock] EXCEPT !.watching = FALSE] \in LinkType
      BY <2>2, <3>3, LinkChanges
    <3>. QED BY <2>2, <3>1, <3>3, <3>4
  <2>7. CASE o.r.kind \in {"array", "nil"}
    <3>1. link' = after /\ pc' = "exec" /\ pos' = pos + 1
          /\ UNCHANGED <<redir, ret, guarded, stale, torn>>
      BY <2>3, <2>7
    <3> HIDE DEF after
    <3>2. LinkTypes'
      BY <2>6, <3>1 DEF LinkTypes
    <3>. QED BY <1>1, <2>1, <2>2, <2>4, <3>1, <3>2, LoopKeeps
  <2>8. CASE o.r.kind \notin {"array", "nil"}
    <3>1. redir' \in [type : {"NONE", "MOVED", "ASK"}] /\ Fails(ls, redir'.type, Late(o))
      BY <1>1, <2>3, <2>8
    <3>2. Late(o) \subseteq Tears
      BY DEF Late, Tears
    <3> HIDE DEF ls
    <3>. QED BY <1>1, <2>1, <2>2, <2>4, <2>5, <3>1, <3>2, FailsKeeps
  <2>. QED BY <2>7, <2>8
<1>4. CASE ExecSent
  <2>1. /\ pc = "exec" /\ op.m = "exec" /\ pc' = "collect" /\ pos' = 1
        /\ UNCHANGED <<cluster, link, table, tx, target, op, ret, history>>
    BY <1>4 DEF ExecSent, TypeInv, CallShape
  <2>2. UNCHANGED <<cluster, table, mode, fold, op, redir, missed, refused, cmdSlot, cmdSock, guarded, stale, torn>>
    BY <2>1 DEF tx, target, history
  <2>3. LinkTypes' /\ pos' \in Nat \ {0} /\ pos' <= Len(fold) + 1
    BY <1>1, <2>1 DEF LinkTypes
  <2>. QED BY <1>1, <2>1, <2>2, <2>3, LoopKeeps
<1>. QED BY <1>2, <1>3, <1>4

LEMMA CollectKeeps ==
  ASSUME TypeInv, CollectReply \/ Collected
  PROVE  TypeInv'
<1>1. /\ redir \in [type : {"NONE", "MOVED", "ASK"}] /\ refused \subseteq Slots
      /\ cmdSlot \in Slots \cup {None} /\ cmdSock \in Nodes \cup {None}
      /\ guarded \subseteq Slots /\ stale \subseteq guarded
      /\ torn \subseteq Tears /\ pos \in Nat \ {0} /\ Len(fold) \in Nat
      /\ link \in [Nodes -> LinkType] /\ LinkTypes
  BY DEF TypeInv, CallTypes, LinkTypes
<1>2. CASE CollectReply
  <2>1. /\ pc = "collect" /\ pos <= Len(fold) /\ op.m = "exec"
        /\ UNCHANGED <<cluster, table, refused, redir, missed, op, effects>>
    BY <1>2 DEF CollectReply, TypeInv, CallShape
  <2>2. Item.slot \in Slots /\ master[Item.slot] \in Nodes
    BY <2>1, ItemType
  <2>3. CASE Item.slot \in refused
    <3>1. /\ pos' = pos + 1 /\ UNCHANGED <<link, cmdSlot, cmdSock, pc, mode, fold, guarded, stale>>
          /\ torn' = torn \cup OldRefusal
      BY <1>2, <2>3 DEF CollectReply
    <3>2. LinkTypes' /\ torn' \subseteq Tears
      BY <1>1, <3>1 DEF LinkTypes, OldRefusal, Tears
    <3>. QED BY <1>1, <2>1, <3>1, <3>2, LoopKeeps
  <2>4. CASE Item.slot \notin refused
    <3> DEFINE n == master[Item.slot]
    <3>1. n \in Nodes
      BY <2>2
    <3>2. PICK o \in Reads(n) :
               IF o.r.kind = "lost"
               THEN /\ EndsTx([link EXCEPT ![n] = o.l], <<NoAnswer(op.cmd.id)>>, {"splitExec"} \cup Late(o))
                    /\ UNCHANGED pos
               ELSE /\ link' = [link EXCEPT ![n] = o.l]
                    /\ pos' = pos + 1
                    /\ UNCHANGED <<pc, mode, fold, guarded, stale, torn>>
      BY <1>2, <2>4 DEF CollectReply
    <3>3. cmdSlot' = Item.slot /\ cmdSock' = n
      BY <1>2, <2>4 DEF CollectReply
    <3> HIDE DEF n
    <3> DEFINE ls == [link EXCEPT ![n] = o.l]
    <3>4. ls \in [Nodes -> LinkType]
      BY <1>1, <3>1, ReadsType
    <3>5. CASE o.r.kind = "lost"
      <4>1. {"splitExec"} \cup Late(o) \subseteq Tears
        BY DEF Late, Tears
      <4>2. EndsTx(ls, <<NoAnswer(op.cmd.id)>>, {"splitExec"} \cup Late(o)) /\ pos' = pos
        BY <3>2, <3>5
      <4> DEFINE answers == <<NoAnswer(op.cmd.id)>>  tears == {"splitExec"} \cup Late(o)
      <4> HIDE DEF ls, answers, tears
      <4>3. EndsTx(ls, answers, tears) /\ tears \subseteq Tears
        BY <4>1, <4>2 DEF answers, tears
      <4>. QED BY <2>1, <2>2, <3>1, <3>3, <3>4, <4>2, <4>3, EndsTxKeeps
    <3>6. CASE o.r.kind # "lost"
      <4>1. /\ link' = ls /\ pos' = pos + 1
            /\ UNCHANGED <<pc, mode, fold, guarded, stale, torn>>
        BY <3>2, <3>6
      <4> HIDE DEF ls
      <4>2. LinkTypes'
        BY <3>4, <4>1 DEF LinkTypes
      <4>. QED BY <1>1, <2>1, <2>2, <3>1, <3>3, <4>1, <4>2, LoopKeeps
    <3>. QED BY <3>5, <3>6
  <2>. QED BY <2>3, <2>4
<1>3. CASE Collected
  <2>1. EndsTx(link, ret, {}) /\ UNCHANGED <<cluster, table, refused, target, op, pos, effects>>
    BY <1>3 DEF Collected
  <2>2. UNCHANGED <<redir, missed, cmdSlot, cmdSock>> /\ pc = "collect"
    BY <1>3, <2>1 DEF target, Collected
  <2>. QED BY <1>1, <2>1, <2>2, EndsTxKeeps
<1>. QED BY <1>2, <1>3

LEMMA DiscardKeeps ==
  ASSUME TypeInv, DiscardNode \/ Discarded
  PROVE  TypeInv'
<1>1. /\ redir \in [type : {"NONE", "MOVED", "ASK"}] /\ refused \subseteq Slots
      /\ cmdSlot \in Slots \cup {None} /\ cmdSock \in Nodes \cup {None}
      /\ guarded \subseteq Slots /\ stale \subseteq guarded
      /\ torn \subseteq Tears /\ pos \in Nat \ {0} /\ Len(fold) \in Nat
      /\ link \in [Nodes -> LinkType] /\ LinkTypes /\ op.cmd.id \in Nat
  BY DEF TypeInv, CallTypes, LinkTypes, Op, Command
<1>2. CASE DiscardNode
  <2>1. /\ pc = "abort" /\ pos <= Len(fold)
        /\ UNCHANGED <<cluster, table, refused, target, op, effects>>
    BY <1>2 DEF DiscardNode
  <2>2. UNCHANGED <<redir, missed, cmdSlot, cmdSock>>
    BY <2>1 DEF target
  <2> DEFINE n == master[Item.slot]
  <2>3. n \in Nodes
    BY <2>1, ItemType
  <2>4. CASE link[n].multi
    <3>1. PICK o \in Direct(n, "DISCARD") :
            IF o.ok THEN /\ EndsTx(Disconnected([link EXCEPT ![n] = o.l]), <<NoAnswer(op.cmd.id)>>, {})
                         /\ UNCHANGED pos
            ELSE /\ link' = [link EXCEPT ![n] = [o.l EXCEPT !.multi = FALSE, !.watching = FALSE]]
                 /\ torn' = torn \cup {"abort"} \cup Late(o)
                 /\ pos' = pos + 1
                 /\ UNCHANGED <<pc, ret, mode, fold, guarded, stale>>
      BY <1>2, <2>4 DEF DiscardNode
    <3> HIDE DEF n
    <3>2. o.l \in LinkType
      BY <1>1, <2>3, DirectType DEF TypeInv
    <3>3. CASE o.ok
      <4> DEFINE ls == Disconnected([link EXCEPT ![n] = o.l])
                 answers == <<NoAnswer(op.cmd.id)>>
      <4>1. ls \in [Nodes -> LinkType]
        <5>1. [link EXCEPT ![n] = o.l] \in [Nodes -> LinkType]
          BY <1>1, <2>3, <3>2
        <5>. QED BY <5>1, DisconnectedType
      <4>2. EndsTx(ls, answers, {}) /\ pos' = pos
        BY <3>1, <3>3
      <4> HIDE DEF ls, answers
      <4>. QED BY <1>1, <2>1, <2>2, <4>1, <4>2, EndsTxKeeps
    <3>4. CASE ~o.ok
      <4> DEFINE l == [o.l EXCEPT !.multi = FALSE, !.watching = FALSE]
      <4>1. l \in LinkType
        BY <3>2, LinkChanges
      <4>2. /\ link' = [link EXCEPT ![n] = l] /\ pos' = pos + 1
            /\ torn' = torn \cup {"abort"} \cup Late(o)
            /\ UNCHANGED <<pc, ret, mode, fold, guarded, stale>>
        BY <3>1, <3>4
      <4> HIDE DEF l
      <4>3. LinkTypes' /\ torn' \subseteq Tears
        BY <1>1, <2>3, <4>1, <4>2 DEF LinkTypes, Late, Tears
      <4>. QED BY <1>1, <2>1, <2>2, <4>2, <4>3, LoopKeeps
    <3>. QED BY <3>3, <3>4
  <2>5. CASE ~link[n].multi
    <3>1. pos' = pos + 1 /\ UNCHANGED <<link, pc, ret, mode, fold, guarded, stale, torn>>
      BY <1>2, <2>5 DEF DiscardNode
    <3>2. LinkTypes'
      BY <1>1, <3>1 DEF LinkTypes
    <3>. QED BY <1>1, <2>1, <2>2, <3>1, <3>2, LoopKeeps
  <2>. QED BY <2>4, <2>5
<1>3. CASE Discarded
  <2>1. UNCHANGED <<cluster, table, refused, redir, missed, cmdSlot, cmdSock, op, pos>> /\ pc = "abort"
    BY <1>3 DEF Discarded, target
  <2>2. CASE op.m = "exec"
    <3>1. EndsTx(link, <<NoAnswer(op.cmd.id)>>, {})
      BY <1>3, <2>2 DEF Discarded
    <3> DEFINE answers == <<NoAnswer(op.cmd.id)>>
    <3> HIDE DEF answers
    <3>2. EndsTx(link, answers, {})
      BY <3>1 DEF answers
    <3>. QED BY <1>1, <2>1, <3>2, EndsTxKeeps
  <2>3. CASE op.m # "exec"
    <3>1. /\ mode' = "ATOMIC" /\ fold' = <<>> /\ pc' = "idle" /\ guarded' = {} /\ stale' = {}
          /\ UNCHANGED <<link, torn>>
      BY <1>3, <2>3 DEF Discarded, Returns, Unguarded
    <3>2. LinkTypes' /\ fold' \in Seq([id : Nat, slot : Slots]) /\ Len(fold') <= op.cmd.id
      BY <1>1, <3>1 DEF LinkTypes
    <3>3. missed' = {}
      BY <2>1 DEF TypeInv, CallShape
    <3>. QED BY <1>1, <2>1, <3>1, <3>2, <3>3, ReturnsKeeps
  <2>. QED BY <2>2, <2>3
<1>. QED BY <1>2, <1>3

LEMMA UnwatchKeeps ==
  ASSUME TypeInv, UnwatchNode \/ Unwatched
  PROVE  TypeInv'
<1>1. /\ redir \in [type : {"NONE", "MOVED", "ASK"}] /\ refused \subseteq Slots
      /\ cmdSlot \in Slots \cup {None} /\ cmdSock \in Nodes \cup {None}
      /\ guarded \subseteq Slots /\ stale \subseteq guarded /\ mode \in {"ATOMIC", "MULTI"}
      /\ torn \subseteq Tears /\ fold \in Seq([id : Nat, slot : Slots]) /\ Len(fold) <= op.cmd.id
      /\ link \in [Nodes -> LinkType] /\ LinkTypes
  BY DEF TypeInv, CallTypes, LinkTypes, CallShape
<1>2. CASE UnwatchNode
  <2>1. /\ pc = "unwatch" /\ op.m = "unwatch" /\ Len(fold) < op.cmd.id
        /\ UNCHANGED <<cluster, link, table, mode, fold, refused, redir, missed, op, pos, guarded, stale, torn>>
    BY <1>2 DEF UnwatchNode, tx, history, TypeInv, CallShape
  <2>2. PICK s \in Slots : master[s] # None /\ cmdSlot' = s /\ cmdSock' = master[s] /\ pc' = Sending(redir.type)
    BY <1>2 DEF UnwatchNode, Watchers
  <2>3. master[s] \in Nodes /\ Covered /\ pc' \in {"asking", "write"}
    BY <2>2, HasMaster DEF Sending
  <2>4. ClusterTypes' /\ LinkTypes' /\ TableTypes' /\ Coverage'
    BY <2>1, <2>3 DEF TypeInv, ClusterTypes, LinkTypes, TableTypes, Coverage, Covered, cluster, table
  <2>5. CallTypes' /\ CallShape'
    BY <2>1, <2>2, <2>3 DEF TypeInv, CallTypes, CallShape, OnTheWay
  <2>. QED BY <2>4, <2>5 DEF TypeInv
<1>3. CASE Unwatched
  <2>1. /\ pc = "unwatch" /\ pc' = "idle"
        /\ UNCHANGED <<cluster, table, link, mode, fold, refused, redir, missed, cmdSlot, cmdSock, op, pos,
                       guarded, stale, torn>>
    BY <1>3 DEF Unwatched, tx, target, history, Returns
  <2>2. LinkTypes'
    BY <1>1, <2>1 DEF LinkTypes
  <2>3. Len(fold') <= op.cmd.id /\ fold' \in Seq([id : Nat, slot : Slots])
    BY <1>1, <2>1
  <2>4. missed' = {} /\ (mode' = "ATOMIC" => fold' = <<>>)
    BY <2>1 DEF TypeInv, CallShape
  <2>. QED BY <1>1, <2>1, <2>2, <2>3, <2>4, ReturnsKeeps
<1>. QED BY <1>2, <1>3

LEMMA TypesInductive ==
  ASSUME TypeInv, [Next]_vars
  PROVE  TypeInv'
<1>1. CASE Continue
  BY <1>1, PreludeKeeps, WriteKeeps, ReadKeeps, ExecKeeps, CollectKeeps, DiscardKeeps, UnwatchKeeps
     DEF Continue
<1>2. CASE UNCHANGED vars
  <2>1. UNCHANGED <<cluster, link, table, tx, target, call, history>>
    BY <1>2 DEF vars
  <2>2. ClusterTypes' /\ LinkTypes' /\ TableTypes' /\ Coverage'
    BY <2>1 DEF TypeInv, ClusterTypes, LinkTypes, TableTypes, Coverage, Covered, Unmapped, cluster, table, tx, call, history
  <2>3. CallTypes' /\ CallShape'
    BY <2>1 DEF TypeInv, CallTypes, CallShape, tx, target, call, history
  <2>. QED BY <2>2, <2>3 DEF TypeInv
<1>. QED BY <1>1, <1>2, BeginKeeps, EnvironmentKeeps DEF Next

LEMMA TypesFollow ==
  ASSUME TypeInv
  PROVE  TypeOK
<1>1. DOMAIN link = Nodes /\ \A n \in Nodes : link[n] \in LinkType
  BY DEF TypeInv, LinkTypes
<1>2. ASSUME NEW l \in LinkType PROVE LinkOK(l)
  <2> DEFINE w == l.wire  q == l.queue
  <2>1. w \in Seq(Replies) /\ q \in Seq(Queued)
    BY LinkFields
  <2> HIDE DEF w, q
  <2>2. ToSet(w) \subseteq Replies /\ ToSet(q) \subseteq Queued
    BY <2>1 DEF ToSet
  <2>3. ToSet(w) \subseteq Reply
    BY <2>2 DEF Replies
  <2>. QED BY <2>2, <2>3, LinkFields DEF LinkOK, w, q
<1>3. ToSet(fold) \subseteq Queued
  <2> DEFINE S == [id : Nat, slot : Slots]
  <2>1. fold \in Seq(S)
    BY DEF TypeInv, CallTypes
  <2>2. S \subseteq Queued
    BY DEF Queued
  <2> HIDE DEF S
  <2>3. ToSet(fold) \subseteq S
    BY <2>1 DEF ToSet
  <2>. QED BY <2>2, <2>3
<1>4. pos \in 1..(MaxCalls + 1)
  BY BoundAssumption DEF TypeInv, CallTypes, CallShape
<1>5. redir.type \in {"NONE", "MOVED", "ASK"}
  BY DEF TypeInv, CallTypes
<1>6. pc \in {"multi", "asking", "write", "read"} => None \notin {master[s] : s \in Slots}
  BY HasMaster, NoneAssumption DEF OnTheWay
<1>. QED BY <1>1, <1>2, <1>3, <1>4, <1>5, <1>6 DEF TypeOK, TypeInv, ClusterTypes, TableTypes, CallTypes

\* Every variable has its type, and whatever redirections are followed, nodes promoted and
\* tables read again while a call is on its way, cluster_send_command finds each slot mapped to a
\* node it has in redisCluster.nodes: cluster_update_slot adds the node before it maps the slot,
\* and a mapping that fails half-way, which leaves no slot mapped, ends the call.
THEOREM TypeCorrect == Spec => []TypeOK
<1>1. Init => TypeInv
  BY StartsTyped
<1>2. TypeInv /\ [Next]_vars => TypeInv'
  BY TypesInductive
<1>3. TypeInv => TypeOK
  BY TypesFollow
<1>. QED BY <1>1, <1>2, <1>3, PTL DEF Spec

-----------------------------------------------------------------------------
(* The invariant of replies and transactions. *)

\* A connection that is closed, at either end, has nothing on it.
Sound(l) == /\ ~l.open \/ l.eof => l.wire = <<>> /\ l.tx = "none"
            /\ ~l.open => ~l.multi
            /\ l.tx = "none" => l.queue = <<>>

\* These are the ids of the items of q that S numbers, in order.
Lists(ids, q, S) == \E f \in [1..Len(ids) -> S] :
  /\ \A k \in 1..Len(ids) : ids[k] = q[f[k]].id
  /\ \A k, m \in 1..Len(ids) : k < m => f[k] < f[m]
  /\ \A i \in S : \E k \in 1..Len(ids) : f[k] = i
QueueIds(queue) == [k \in 1..Len(queue) |-> queue[k].id]
WireIds(w) == [k \in 1..Len(w) |-> w[k].for]

\* The connection to a node that the items S of q are queued at ...
\* ... while nothing is asked of it: it is in MULTI if the server is, and that is if
\* something is queued there, or about to be.
Loose(l, q, S) ==
  /\ Sound(l) /\ l.wire = <<>>
  /\ l.tx # "none" => l.multi /\ Lists(QueueIds(l.queue), q, S)
  /\ l.multi => l.tx # "none" \/ l.eof
Quiet(l, q, S, next) ==
  /\ Sound(l) /\ l.wire = <<>>
  /\ l.tx # "none" => l.multi /\ Lists(QueueIds(l.queue), q, S)
  /\ l.multi => l.tx # "none" \/ l.eof
  /\ S # {} => l.multi
  /\ l.multi => S # {} \/ next

\* ... when it has command id: the one reply is its own, and MULTI queues it.
Answering(l, q, S, inMulti, id) ==
  /\ Sound(l) /\ l.multi = inMulti /\ (S # {} => inMulti)
  /\ l.tx # "none" => l.multi /\ l.wire # <<>>
  /\ l.multi => l.tx # "none" \/ l.eof
  /\ l.wire # <<>> =>
       /\ Len(l.wire) = 1 /\ l.wire[1].for = id /\ l.wire[1].kind \notin {"rest", "array"}
       /\ inMulti /\ l.wire[1].kind \in Good => l.wire[1].kind = "queued"
       /\ inMulti => IF l.wire[1].kind = "queued"
                     THEN \E ids \in Seq(Nat) : QueueIds(l.queue) = Append(ids, id) /\ Lists(ids, q, S)
                     ELSE Lists(QueueIds(l.queue), q, S)

\* ... when it has EXEC: the reply, and after an array the values of the items.
Executing(l, q, S, id) ==
  /\ Sound(l) /\ l.multi /\ l.tx = "none"
  /\ IF l.wire = <<>> THEN l.eof
     ELSE /\ l.wire[1].for = id /\ l.wire[1].kind # "rest"
          /\ IF l.wire[1].kind = "array" THEN Lists(WireIds(Tail(l.wire)), q, S) ELSE Len(l.wire) = 1

\* ... after that: the values, or nothing.
Executed(l, q, S) == /\ Sound(l) /\ ~l.multi /\ l.tx = "none"
                     /\ l.wire # <<>> => Lists(WireIds(l.wire), q, S)

\* ... when the transaction is given up.
Aborting(l, S) == /\ Sound(l) /\ l.wire = <<>>
                  /\ l.tx # "none" => l.multi
                  /\ l.multi => S # {}

\* ... when it has been closed.
Gone(l) == Sound(l) /\ l.wire = <<>> /\ l.tx = "none" /\ ~l.multi

\* The items, from p on, that are for node n.
Items(n, p) == {i \in p..Len(fold) : master[fold[i].slot] = n}

InExec    == op.m = "exec" /\ pc \in OnTheWay \cup {"exec"}
InCommand == op.m # "exec" /\ pc \in OnTheWay

Reading(n) == pc = "read" /\ n = cmdSock
Next1(n)   == InCommand /\ mode = "MULTI" /\ pc # "multi" /\ n = cmdSock
Done(n)    == \E j \in 1..(pos - 1) : master[fold[j].slot] = n
\* The node of a transaction that could not be written to.
Left(n)    == missed # {} /\ mode = "MULTI" /\ n = cmdSock
\* multi_len says that the node has run its part.
Accepted(n) == \E j \in 1..(pos - 1) : master[fold[j].slot] = n /\ fold[j].slot \notin refused

Fits(n) == Quiet(link[n], fold, Items(n, 1), Next1(n))
NodeFits(n) ==
  /\ InCommand /\ Reading(n) => Answering(link[n], fold, Items(n, 1), mode = "MULTI", op.cmd.id)
  /\ InExec /\ Reading(n) => Executing(link[n], fold, Items(n, 1), op.cmd.id)
  /\ InExec /\ Done(n) /\ ~Reading(n) =>
       Executed(link[n], fold, Items(n, 1)) /\ (link[n].wire # <<>> => Accepted(n))
  /\ Left(n) => Gone(link[n])
  /\ pc = "collect" => Executed(link[n], fold, Items(n, pos))
  /\ pc = "abort" => Aborting(link[n], Items(n, pos))
  /\ pc \notin {"collect", "abort"} /\ ~Reading(n) /\ ~(InExec /\ Done(n)) /\ ~Left(n) => Fits(n)

\* Which call can be where.
Stepped ==
  /\ mode = "ATOMIC" => fold = <<>>
  /\ pc \in {"multi", "exec", "collect", "abort"} => mode = "MULTI"
  /\ pc = "unwatch" => mode = "ATOMIC" /\ op.m = "unwatch" /\ op.cmd.name = "UNWATCH" /\ ~op.cmd.ro
  /\ pc = "exec" => op.cmd.name = "EXEC" /\ ~op.cmd.ro
  /\ pc \in OnTheWay => /\ op.m \in {"read", "watch", "unwatch"} => mode = "ATOMIC"
                        /\ op.m = "exec" => mode = "MULTI"
                        /\ op.m \in {"write", "read", "directed", "watch", "exec", "unwatch"}
                        /\ op.m = "exec" => op.cmd.name = "EXEC"
                        /\ op.m # "exec" => op.cmd.name \in {"DATA", "NODE", "WATCH", "UNWATCH"}
                        /\ op.cmd.name = "WATCH" <=> op.m = "watch"
                        /\ op.cmd.name = "UNWATCH" <=> op.m = "unwatch"
                        /\ op.cmd.ro => op.m \in {"read", "watch"}

\* Where a command of a transaction is going.
Aimed ==
  /\ InCommand /\ mode = "MULTI" => /\ cmdSock = master[op.slot]
                                    /\ missed = {} => link[cmdSock].multi = (pc # "multi")
  /\ InExec /\ pc # "exec" => /\ cmdSock = master[fold[pos].slot] /\ cmdSlot = fold[pos].slot
                              /\ ~Done(cmdSock)

Agree == torn = {} => Aimed /\ \A n \in Nodes : NodeFits(n)

\* Each answer the application was given is the one to its command.
Answers == {x \in [id : Nat, for : Nat, kind : Kinds \cup {"lost", "false"}] : x.for = x.id}
Replied == torn = {} => ret \in Seq(Answers)

SafeInv == TypeInv /\ Stepped /\ Agree /\ Replied

-----------------------------------------------------------------------------
(* Lists of ids. *)

LEMMA ListsBy ==
  ASSUME NEW ids, NEW q, NEW S, NEW n, n = Len(ids), NEW f \in [1..n -> S],
         \A k \in 1..n : ids[k] = q[f[k]].id,
         \A k, m \in 1..n : k < m => f[k] < f[m],
         \A i \in S : \E k \in 1..n : f[k] = i
  PROVE  Lists(ids, q, S)
BY DEF Lists

LEMMA ListsNothing ==
  ASSUME NEW ids \in Seq(Nat), NEW q
  PROVE  Lists(ids, q, {}) <=> ids = <<>>
<1>1. Len(ids) \in Nat /\ (ids = <<>> <=> Len(ids) = 0)
  OBVIOUS
<1>2. ASSUME Lists(ids, q, {}) PROVE Len(ids) = 0
  <2>1. PICK f \in [1..Len(ids) -> {}] : TRUE
    BY <1>2 DEF Lists
  <2>2. \A k \in 1..Len(ids) : FALSE
    BY <2>1
  <2>. QED BY <1>1, <2>2
<1>3. ASSUME Len(ids) = 0 PROVE Lists(ids, q, {})
  <2> DEFINE f == [k \in {} |-> k]
  <2>1. 1..Len(ids) = {}
    BY <1>3
  <2>2. f \in [1..Len(ids) -> {}]
    BY <2>1
  <2> HIDE DEF f
  <2>. QED BY <2>1, <2>2 DEF Lists
<1>. QED BY <1>1, <1>2, <1>3

LEMMA ListsSomething ==
  ASSUME NEW ids \in Seq(Nat), NEW q, NEW S, S # {}, Lists(ids, q, S)
  PROVE  ids # <<>>
<1>1. PICK i \in S : TRUE
  OBVIOUS
<1>2. \E k \in 1..Len(ids) : TRUE
  BY <1>1 DEF Lists
<1>. QED BY <1>2

\* Only the items that S numbers matter.
LEMMA ListsOf ==
  ASSUME NEW ids, NEW q, NEW r, NEW S, \A i \in S : r[i].id = q[i].id, Lists(ids, q, S)
  PROVE  Lists(ids, r, S)
<1>1. PICK f \in [1..Len(ids) -> S] :
         /\ \A k \in 1..Len(ids) : ids[k] = q[f[k]].id
         /\ \A k, m \in 1..Len(ids) : k < m => f[k] < f[m]
         /\ \A i \in S : \E k \in 1..Len(ids) : f[k] = i
  BY DEF Lists
<1>2. \A k \in 1..Len(ids) : ids[k] = r[f[k]].id
  BY <1>1
<1>. QED BY <1>1, <1>2 DEF Lists

LEMMA ListsMore ==
  ASSUME NEW ids \in Seq(Nat), NEW q, NEW S \in SUBSET Nat, NEW i \in Nat, \A j \in S : j < i,
         Lists(ids, q, S), NEW id \in Nat, q[i].id = id
  PROVE  Lists(Append(ids, id), q, S \cup {i})
<1> DEFINE n == Len(ids)  more == Append(ids, id)
<1>1. n \in Nat /\ Len(more) = n + 1 /\ more[n + 1] = id /\ \A k \in 1..n : more[k] = ids[k]
  OBVIOUS
<1>2. PICK f \in [1..n -> S] :
         /\ \A k \in 1..n : ids[k] = q[f[k]].id
         /\ \A k, m \in 1..n : k < m => f[k] < f[m]
         /\ \A j \in S : \E k \in 1..n : f[k] = j
  BY DEF Lists
<1> DEFINE g == [k \in 1..(n + 1) |-> IF k = n + 1 THEN i ELSE f[k]]
<1> HIDE DEF n, more
<1>3. \A k \in 1..(n + 1) : k = n + 1 \/ k \in 1..n
  BY <1>1
<1>4. g \in [1..(n + 1) -> S \cup {i}] /\ g[n + 1] = i /\ \A k \in 1..n : g[k] = f[k] /\ f[k] \in S
  BY <1>1, <1>3
<1> HIDE DEF g
<1>5. \A k \in 1..(n + 1) : more[k] = q[g[k]].id
  BY <1>1, <1>2, <1>3, <1>4
<1>6. \A k, m \in 1..(n + 1) : k < m => g[k] < g[m]
  <2> SUFFICES ASSUME NEW k \in 1..(n + 1), NEW m \in 1..(n + 1), k < m PROVE g[k] < g[m]
    OBVIOUS
  <2>1. k \in 1..n
    BY <1>1
  <2>2. CASE m \in 1..n
    BY <1>2, <1>4, <2>1, <2>2
  <2>3. CASE m = n + 1
    BY <1>4, <2>1, <2>3
  <2>. QED BY <1>3, <2>2, <2>3
<1>7. \A j \in S \cup {i} : \E k \in 1..(n + 1) : g[k] = j
  <2>1. \A j \in S : \E k \in 1..n : f[k] = j
    BY <1>2
  <2>2. n + 1 \in 1..(n + 1) /\ 1..n \subseteq 1..(n + 1)
    BY <1>1
  <2>. QED BY <1>4, <2>1, <2>2
<1>8. Len(more) = n + 1
  BY <1>1
<1>9. Lists(more, q, S \cup {i})
  BY <1>4, <1>5, <1>6, <1>7, <1>8, ListsBy
<1>. QED BY <1>9 DEF more

\* The first of the list is the first of the items.
LEMMA ListsFirst ==
  ASSUME NEW ids \in Seq(Nat), NEW q, NEW S \in SUBSET Nat, NEW p \in S, \A j \in S : p <= j,
         Lists(ids, q, S)
  PROVE  ids # <<>> /\ Head(ids) = q[p].id /\ Lists(Tail(ids), q, S \ {p})
<1> DEFINE n == Len(ids)  t == Tail(ids)
<1>0. ids # <<>>
  BY ListsSomething
<1>1. /\ n \in Nat \ {0} /\ Head(ids) = ids[1] /\ t \in Seq(Nat) /\ Len(t) = n - 1
      /\ \A k \in 1..(n - 1) : t[k] = ids[k + 1]
  BY <1>0
<1>2. PICK f \in [1..n -> S] :
         /\ \A k \in 1..n : ids[k] = q[f[k]].id
         /\ \A k, m \in 1..n : k < m => f[k] < f[m]
         /\ \A j \in S : \E k \in 1..n : f[k] = j
  BY DEF Lists
<1> HIDE DEF n, t
<1>3. 1 \in 1..n /\ f[1] = p
  <2>1. PICK k \in 1..n : f[k] = p
    BY <1>2
  <2>2. 1 \in 1..n /\ f[1] \in S
    BY <1>1, <1>2
  <2>3. 1 < k => f[1] < f[k]
    BY <1>2, <2>2
  <2>4. f[1] \in Nat /\ p \in Nat /\ p <= f[1]
    BY <2>2
  <2>. QED BY <1>1, <2>1, <2>2, <2>3, <2>4
<1> DEFINE g == [k \in 1..(n - 1) |-> f[k + 1]]
<1>4. \A k \in 1..(n - 1) : k + 1 \in 1..n /\ 1 < k + 1
  BY <1>1
<1>5. \A k \in 1..(n - 1) : f[k + 1] \in S \ {p}
  <2> SUFFICES ASSUME NEW k \in 1..(n - 1) PROVE f[k + 1] \in S \ {p}
    OBVIOUS
  <2>1. k + 1 \in 1..n /\ f[1] < f[k + 1]
    BY <1>2, <1>3, <1>4
  <2>2. f[k + 1] \in S /\ f[k + 1] \in Nat /\ p \in Nat
    BY <2>1
  <2>. QED BY <1>3, <2>1, <2>2
<1>6. g \in [1..(n - 1) -> S \ {p}] /\ \A k \in 1..(n - 1) : g[k] = f[k + 1]
  BY <1>5
<1> HIDE DEF g
<1>7. \A k \in 1..(n - 1) : t[k] = q[g[k]].id
  BY <1>1, <1>2, <1>4, <1>6
<1>8. \A k, m \in 1..(n - 1) : k < m => g[k] < g[m]
  <2> SUFFICES ASSUME NEW k \in 1..(n - 1), NEW m \in 1..(n - 1), k < m PROVE g[k] < g[m]
    OBVIOUS
  <2>1. k + 1 \in 1..n /\ m + 1 \in 1..n /\ k + 1 < m + 1
    BY <1>4
  <2>. QED BY <1>2, <1>6, <2>1
<1>9. \A j \in S \ {p} : \E k \in 1..(n - 1) : g[k] = j
  <2> SUFFICES ASSUME NEW j \in S \ {p} PROVE \E k \in 1..(n - 1) : g[k] = j
    OBVIOUS
  <2>1. PICK k \in 1..n : f[k] = j
    BY <1>2
  <2>2. k # 1
    BY <1>3, <2>1
  <2>3. k - 1 \in 1..(n - 1) /\ (k - 1) + 1 = k
    BY <1>1, <2>2
  <2>4. g[k - 1] = f[(k - 1) + 1]
    BY <1>6, <2>3
  <2>. QED BY <2>1, <2>3, <2>4
<1>10. Lists(t, q, S \ {p})
  <2> DEFINE m == n - 1  R == S \ {p}
  <2>1. /\ m = Len(t) /\ g \in [1..m -> R] /\ \A k \in 1..m : t[k] = q[g[k]].id
        /\ \A k, j \in 1..m : k < j => g[k] < g[j]
        /\ \A i \in R : \E k \in 1..m : g[k] = i
    BY <1>1, <1>6, <1>7, <1>8, <1>9
  <2> HIDE DEF m, R
  <2>2. Lists(t, q, R)
    BY <2>1, ListsBy
  <2>. QED BY <2>2 DEF R
<1>. QED BY <1>0, <1>1, <1>2, <1>3, <1>10 DEF t

-----------------------------------------------------------------------------
(* What the servers make of a connection. *)

LEMMA NewLinksSound ==
  /\ Closed.open = FALSE /\ Closed.multi = FALSE /\ Closed.eof = FALSE /\ Closed.wire = <<>>
  /\ Closed.tx = "none" /\ Closed.queue = <<>> /\ Sound(Closed)
  /\ Fresh.open = TRUE /\ Fresh.multi = FALSE /\ Fresh.eof = FALSE /\ Fresh.wire = <<>>
  /\ Fresh.tx = "none" /\ Fresh.queue = <<>> /\ Sound(Fresh)
BY DEF Closed, Fresh, Sound

LEMMA LiveSays ==
  ASSUME LinkTypes, NEW n \in Nodes, Sound(link[n]), Live(n).open
  PROVE  /\ Live(n) \in LinkType /\ Sound(Live(n)) /\ Live(n).eof = FALSE /\ Live(n).open = TRUE
         /\ Live(n) = link[n] \/ (Live(n) = Fresh /\ ~link[n].multi)
<1> DEFINE l == link[n]
<1>1. l \in LinkType /\ Live(n) \in LinkType
  BY LiveType DEF LinkTypes
<1>2. \/ l.open /\ ~AtEof(l) /\ Live(n) = l
      \/ (l.open => ~l.multi) /\ Live(n) = Fresh
      \/ Live(n) = Closed
  BY DEF Live
<1>3. CASE l.open /\ ~AtEof(l) /\ Live(n) = l
  <2>1. ~l.eof
    BY <1>3 DEF Sound, AtEof
  <2>2. l.eof = FALSE /\ l.open = TRUE
    BY <1>1, <1>3, <2>1, LinkFields
  <2>. QED BY <1>1, <1>3, <2>2
<1>4. CASE (l.open => ~l.multi) /\ Live(n) = Fresh
  BY <1>1, <1>4, NewLinksSound DEF Sound
<1>5. CASE Live(n) = Closed
  BY <1>5, NewLinksSound
<1>. QED BY <1>2, <1>3, <1>4, <1>5

LEMMA KindSays ==
  ASSUME ClusterTypes, NEW n \in Nodes, NEW l \in LinkType, NEW c \in Command, NEW refuse \in BOOLEAN
  PROVE  LET kind == KindOf(n, l, c, refuse) IN
         /\ kind # "rest"
         /\ kind = "queued" => c.name \in {"DATA", "NODE"} /\ l.tx # "none"
         /\ kind = "array" => c.name = "EXEC"
         /\ c.name \in {"DATA", "NODE"} /\ l.tx # "none" /\ kind \in Good => kind = "queued"
         /\ c.name \in {"ASKING", "UNWATCH", "READONLY"} => kind = "ok"
         /\ c.name = "MULTI" /\ l.tx = "none" => kind = "ok"
<1> DEFINE kind == KindOf(n, l, c, refuse)
<1>1. CASE c.name \in {"DATA", "NODE", "WATCH"}
  <2>1. Verdict(n, l, c) \in Verdicts
    BY VerdictType DEF Command
  <2>2. \/ Verdict(n, l, c) # "here" /\ kind = Verdict(n, l, c)
        \/ kind = "error" \/ (c.name = "WATCH" /\ kind = "ok")
        \/ c.name # "WATCH" /\ l.tx # "none" /\ kind = "queued"
        \/ c.name # "WATCH" /\ l.tx = "none" /\ kind = "value"
    BY <1>1 DEF KindOf
  <2>. QED BY <1>1, <2>1, <2>2 DEF Verdicts, Good
<1>2. CASE c.name = "EXEC"
  <2>1. ExecVerdict(n, l, c) \in Verdicts \cup {"error"}
    <3> DEFINE d == [c EXCEPT !.slot = KeySlot(l, c)]
    <3>1. d.slot \in Slots \cup {None}
      BY KeySlotType
    <3> HIDE DEF d
    <3>2. Verdict(n, l, d) \in Verdicts
      BY <3>1, VerdictType
    <3>. QED BY <3>2 DEF ExecVerdict, d
  <2>2. \/ kind = "error" \/ kind = "nil" \/ kind = "array"
        \/ ExecVerdict(n, l, c) # "here" /\ kind = ExecVerdict(n, l, c)
    BY <1>2 DEF KindOf
  <2>. QED BY <1>2, <2>1, <2>2 DEF Verdicts
<1>3. CASE c.name \notin {"DATA", "NODE", "WATCH", "EXEC"}
  BY <1>3 DEF KindOf, Good
<1>. QED BY <1>1, <1>2, <1>3

LEMMA RepliesSay ==
  ASSUME ClusterTypes, NEW n \in Nodes, NEW l \in LinkType, NEW c \in Command, NEW refuse \in BOOLEAN
  PROVE  LET kind == KindOf(n, l, c, refuse)  w == RepliesTo(n, l, c, kind) IN
         /\ w \in Seq(Replies) /\ w # <<>> /\ w[1].for = c.id /\ w[1].kind = kind
         /\ kind # "array" => Len(w) = 1
         /\ kind = "array" => WireIds(Tail(w)) = QueueIds(l.queue)
<1> DEFINE kind == KindOf(n, l, c, refuse)  w == RepliesTo(n, l, c, kind)
           s == KeySlot(l, c)
           to == CASE kind = "moved" -> owner[s] [] kind = "ask" -> moving[s] [] OTHER -> None
           head == [for |-> c.id, kind |-> kind, to |-> to, slot |-> s]
           elements == [i \in 1..Len(l.queue) |->
                          [for |-> l.queue[i].id, kind |-> "value", to |-> None, slot |-> None]]
           tail == IF kind = "array" THEN elements ELSE <<>>
<1>1. w \in Seq(Replies)
  BY RepliesType
<1>2. w = <<head>> \o tail
  BY DEF RepliesTo
<1>3. elements \in Seq([for : {l.queue[i].id : i \in 1..Len(l.queue)}, kind : {"value"}, to : {None}, slot : {None}])
      /\ Len(elements) = Len(l.queue) /\ \A i \in 1..Len(l.queue) : elements[i].for = l.queue[i].id
  <2>1. Len(l.queue) \in Nat
    BY LinkFields
  <2>. QED BY <2>1
<1>4. head.for = c.id /\ head.kind = kind
  OBVIOUS
<1> HIDE DEF w, head, elements, kind
<1>5. tail \in Seq([for : {l.queue[i].id : i \in 1..Len(l.queue)}, kind : {"value"}, to : {None}, slot : {None}])
  BY <1>3
<1> DEFINE E == [for : {l.queue[i].id : i \in 1..Len(l.queue)}, kind : {"value"}, to : {None}, slot : {None}]
<1>6. tail \in Seq(E)
  BY <1>5
<1> HIDE DEF E
<1>7. w # <<>> /\ w[1] = head /\ Tail(w) = tail /\ Len(w) = 1 + Len(tail)
  <2> HIDE DEF tail
  <2>. QED BY <1>2, <1>6
<1>8. kind # "array" => Len(w) = 1
  BY <1>7
<1>9. kind = "array" => WireIds(Tail(w)) = QueueIds(l.queue)
  <2> SUFFICES ASSUME kind = "array" PROVE WireIds(elements) = QueueIds(l.queue)
    BY <1>7
  <2>. QED BY <1>3 DEF WireIds, QueueIds
<1>. QED BY <1>1, <1>4, <1>7, <1>8, <1>9 DEF w, kind

LEMMA QueueIdsAre ==
  ASSUME NEW q \in Seq(Queued)
  PROVE  QueueIds(q) \in Seq(Nat) /\ Len(QueueIds(q)) = Len(q) /\ \A k \in 1..Len(q) : QueueIds(q)[k] = q[k].id
<1>1. Len(q) \in Nat /\ \A k \in 1..Len(q) : q[k] \in Queued
  OBVIOUS
<1>2. \A k \in 1..Len(q) : q[k].id \in Nat
  BY <1>1 DEF Queued
<1>. QED BY <1>1, <1>2 DEF QueueIds

LEMMA QueueOneMore ==
  ASSUME NEW q \in Seq(Queued), NEW e \in Queued
  PROVE  QueueIds(Append(q, e)) = Append(QueueIds(q), e.id)
<1> DEFINE n == Len(q)  m == Append(q, e)  a == QueueIds(m)  b == Append(QueueIds(q), e.id)
<1>1. n \in Nat /\ m \in Seq(Queued) /\ Len(m) = n + 1 /\ m[n + 1] = e /\ \A k \in 1..n : m[k] = q[k]
  OBVIOUS
<1>2. QueueIds(q) \in Seq(Nat) /\ Len(QueueIds(q)) = n /\ \A k \in 1..n : QueueIds(q)[k] = q[k].id
  BY QueueIdsAre
<1> HIDE DEF m
<1>3. a \in Seq(Nat) /\ Len(a) = n + 1 /\ \A k \in 1..(n + 1) : a[k] = m[k].id
  BY <1>1, QueueIdsAre
<1>4. b \in Seq(Nat) /\ Len(b) = n + 1 /\ b[n + 1] = e.id /\ \A k \in 1..n : b[k] = q[k].id
  BY <1>2 DEF Queued
<1> HIDE DEF a, b, n
<1>5. \A k \in 1..(n + 1) : a[k] = b[k]
  <2> SUFFICES ASSUME NEW k \in 1..(n + 1) PROVE a[k] = b[k]
    OBVIOUS
  <2>1. k = n + 1 \/ k \in 1..n
    BY <1>1
  <2>. QED BY <1>1, <1>3, <1>4, <2>1
<1>6. a = b
  BY <1>1, <1>3, <1>4, <1>5, SeqEqual
<1>. QED BY <1>6 DEF a, b, m

\* What a server that has the connection l, with nothing unread, makes of c.
LinkServed(n, l, c, refuse) ==
  LET kind == KindOf(n, l, c, refuse)  s == Served(n, l, c, refuse) IN
  /\ s.open = l.open /\ s.multi = l.multi /\ s.eof = FALSE
  /\ s.wire = RepliesTo(n, l, c, kind)
  /\ c.name \in {"EXEC", "DISCARD"} => s.tx = "none" /\ s.queue = <<>>
  /\ c.name = "MULTI" => s.tx = "open"
  /\ c.name \in {"ASKING", "UNWATCH", "READONLY"} => s.tx = l.tx
  /\ c.name # "MULTI" /\ l.tx = "none" => s.tx = "none"
  /\ c.name \in {"DATA", "NODE", "WATCH"} /\ l.tx # "none" => s.tx # "none"
  /\ c.name \notin {"EXEC", "DISCARD"} =>
       /\ kind = "queued" => s.queue # <<>> /\ QueueIds(s.queue) = Append(QueueIds(l.queue), c.id)
       /\ kind # "queued" => s.queue = l.queue

LEMMA ServedSays ==
  ASSUME ClusterTypes, NEW n \in Nodes, NEW l \in LinkType, l.eof = FALSE, l.wire = <<>>,
         NEW c \in Command, NEW refuse \in BOOLEAN
  PROVE  LinkServed(n, l, c, refuse)
<1> DEFINE kind == KindOf(n, l, c, refuse)
           ends == c.name \in {"EXEC", "DISCARD"}
           w == RepliesTo(n, l, c, kind)
           wire == l.wire \o w
           t == CASE ends -> "none"
                  [] c.name = "MULTI" -> "open"
                  [] c.name \in {"DATA", "NODE", "WATCH"} /\ l.tx # "none" /\ kind # "queued" -> "doomed"
                  [] OTHER -> l.tx
           queue == CASE ends -> <<>>
                      [] kind = "queued" -> Append(l.queue, [id |-> c.id, slot |-> c.slot])
                      [] OTHER -> l.queue
           watched == CASE ends \/ c.name = "UNWATCH" -> {}
                        [] c.name = "WATCH" /\ kind = "ok" -> l.watched \cup {c.slot}
                        [] OTHER -> l.watched
           touched == l.touched /\ ~(ends \/ c.name = "UNWATCH")
           asking == c.name = "ASKING"
<1>1. Served(n, l, c, refuse) = [l EXCEPT !.wire = wire, !.tx = t, !.queue = queue, !.watched = watched,
                                       !.touched = touched, !.asking = asking]
  BY DEF Served
<1>2. wire = w
  <2>1. w \in Seq(Replies)
    BY RepliesSay
  <2> HIDE DEF w
  <2>. QED BY <2>1
<1> HIDE DEF wire, t, queue, watched, touched, asking
<1> DEFINE s == [l EXCEPT !.wire = wire, !.tx = t, !.queue = queue, !.watched = watched,
                          !.touched = touched, !.asking = asking]
<1>3. /\ s.open = l.open /\ s.multi = l.multi /\ s.eof = l.eof
      /\ s.wire = wire /\ s.tx = t /\ s.queue = queue
  BY DEF LinkType
<1> HIDE DEF s
<1>4. Served(n, l, c, refuse) = s
  BY <1>1 DEF s
<1>5. /\ ends => t = "none" /\ queue = <<>>
      /\ c.name = "MULTI" => t = "open"
      /\ c.name \in {"ASKING", "UNWATCH", "READONLY"} => t = l.tx
      /\ c.name # "MULTI" /\ l.tx = "none" => t = "none"
      /\ c.name \in {"DATA", "NODE", "WATCH"} /\ l.tx # "none" => t # "none"
  <2>1. ends => t = "none" /\ queue = <<>>
    <3>1. ends => t = "none"
      BY DEF t
    <3>2. ends => queue = <<>>
      <4> DEFINE more == Append(l.queue, [id |-> c.id, slot |-> c.slot])  was == l.queue
      <4>1. queue = CASE ends -> <<>> [] kind = "queued" -> more [] OTHER -> was
        BY DEF queue
      <4>2. ends => kind # "queued"
        BY KindSays
      <4> HIDE DEF ends, kind, more, was
      <4>. QED BY <4>1, <4>2
    <3>. QED BY <3>1, <3>2
  <2>2. /\ c.name = "MULTI" => ~ends
        /\ c.name \in {"ASKING", "UNWATCH", "READONLY"} => c.name # "MULTI" /\ ~ends /\ c.name \notin {"DATA", "NODE", "WATCH"}
        /\ c.name \in {"DATA", "NODE", "WATCH"} => ~ends /\ c.name # "MULTI"
    OBVIOUS
  <2> DEFINE data == c.name \in {"DATA", "NODE", "WATCH"}  multi == c.name = "MULTI"
             dooms == data /\ l.tx # "none" /\ kind # "queued"
  <2>3. t = CASE ends -> "none" [] multi -> "open" [] dooms -> "doomed" [] OTHER -> l.tx
    BY Zenon DEF t
  <2>4. multi => ~dooms
    BY <2>2
  <2> HIDE DEF ends, multi, dooms
  <2>5. /\ multi /\ ~ends => t = "open"
        /\ ~ends /\ ~multi /\ ~dooms => t = l.tx
        /\ ~ends /\ ~multi /\ dooms => t = "doomed"
    BY <2>3, <2>4
  <2>. QED BY <2>1, <2>2, <2>5 DEF dooms, multi
<1>6. ~ends => /\ kind = "queued" => queue # <<>> /\ QueueIds(queue) = Append(QueueIds(l.queue), c.id)
               /\ kind # "queued" => queue = l.queue
  <2> DEFINE q == l.queue  e == [id |-> c.id, slot |-> c.slot]
  <2>1. q \in Seq(Queued) /\ e \in Queued /\ e.id = c.id
    BY LinkFields DEF Command, Queued
  <2>2. ~ends /\ kind = "queued" => queue = Append(q, e)
    <3> HIDE DEF kind, ends
    <3>. QED BY DEF queue
  <2>3. ~ends /\ kind # "queued" => queue = q
    <3> HIDE DEF kind, ends
    <3>. QED BY DEF queue
  <2> HIDE DEF q, e
  <2>4. QueueIds(Append(q, e)) = Append(QueueIds(q), c.id)
    BY <2>1, QueueOneMore
  <2>5. Append(q, e) # <<>>
    BY <2>1
  <2>. QED BY <2>2, <2>3, <2>4, <2>5 DEF q
<1> HIDE DEF kind, w
<1>. QED BY <1>2, <1>3, <1>4, <1>5, <1>6 DEF LinkServed, kind, w

LEMMA ControlSays ==
  ASSUME NEW name \in {"MULTI", "DISCARD", "READONLY", "ASKING"}
  PROVE  Control(name) \in Command /\ Control(name).name = name /\ Control(name).slot = None
BY DEF Control, Command

\* cluster_send_direct on a connection with nothing on it.
LEMMA DirectSays ==
  ASSUME ClusterTypes, LinkTypes, NEW n \in Nodes, Sound(link[n]), link[n].wire = <<>>,
         NEW name \in {"MULTI", "DISCARD", "READONLY", "ASKING"}, NEW o \in Direct(n, name)
  PROVE  /\ o.ok => /\ Live(n).open /\ o.l.open = TRUE /\ o.l.eof = FALSE /\ o.l.wire = <<>>
                    /\ o.l.multi = Live(n).multi
                    /\ name = "DISCARD" => o.l.tx = "none"
                    /\ name = "MULTI" => o.l.tx = "open"
                    /\ name \in {"ASKING", "READONLY"} => o.l.tx = Live(n).tx
                    /\ o.l.queue = IF name = "DISCARD" THEN <<>> ELSE Live(n).queue
         /\ ~o.ok /\ ~o.late => o.l = Closed \/ name = "DISCARD" \/ (name = "MULTI" /\ Live(n).open /\ Live(n).tx # "none")
<1> DEFINE live == Live(n)  c == Control(name)
           l == Served(n, Live(n), c, FALSE)
           kind == KindOf(n, live, c, FALSE)
           first == l.wire[1]
           rest == [first EXCEPT !.kind = "rest"]
           answered == IF first.kind = "ok" THEN [l EXCEPT !.wire = Tail(l.wire)]
                       ELSE [l EXCEPT !.wire = <<rest>> \o Tail(l.wire)]
<1>1. \/ o = [ok |-> FALSE, l |-> Closed, late |-> FALSE]
      \/ live.open /\ l.wire # <<>> /\ o = [ok |-> first.kind = "ok", l |-> answered, late |-> FALSE]
      \/ o = [ok |-> FALSE, l |-> l, late |-> TRUE]
  BY Zenon DEF Direct, Reachable
<1>2. CASE o = [ok |-> FALSE, l |-> Closed, late |-> FALSE]
  BY <1>2
<1>3. CASE o = [ok |-> FALSE, l |-> l, late |-> TRUE]
  <2> HIDE DEF l
  <2>. QED BY <1>3
<1>4. CASE live.open /\ l.wire # <<>> /\ o = [ok |-> first.kind = "ok", l |-> answered, late |-> FALSE]
  <2>1. /\ live \in LinkType /\ Sound(live) /\ live.eof = FALSE /\ live.open = TRUE
        /\ live = link[n] \/ (live = Fresh /\ ~link[n].multi)
    BY <1>4, LiveSays
  <2>2. c \in Command /\ c.name = name /\ c.slot = None
    BY ControlSays
  <2>3. live.wire = <<>>
    BY <2>1, NewLinksSound
  <2> HIDE DEF live, c
  <2>4. /\ l.open = live.open /\ l.multi = live.multi /\ l.eof = FALSE
        /\ l.wire = RepliesTo(n, live, c, kind)
        /\ name = "DISCARD" => l.tx = "none" /\ l.queue = <<>>
        /\ name = "MULTI" => l.tx = "open"
        /\ name \in {"ASKING", "READONLY"} => l.tx = live.tx
        /\ name # "DISCARD" /\ kind # "queued" => l.queue = live.queue
    <3> DEFINE no == FALSE
    <3>1. l = Served(n, live, c, no)
      BY DEF live, c
    <3>2. kind = KindOf(n, live, c, no) /\ no \in BOOLEAN
      OBVIOUS
    <3> HIDE DEF l, kind, no
    <3>3. LinkServed(n, live, c, no)
      BY <2>1, <2>2, <2>3, <3>2, ServedSays
    <3>. QED BY <2>1, <2>2, <3>1, <3>2, <3>3 DEF LinkServed
  <2>5. /\ kind # "array" /\ (name \in {"ASKING", "READONLY"} => kind = "ok")
        /\ name = "MULTI" /\ live.tx = "none" => kind = "ok"
    BY <2>1, <2>2, KindSays
  <2>6. /\ RepliesTo(n, live, c, kind) \in Seq(Replies) /\ Len(RepliesTo(n, live, c, kind)) = 1
        /\ RepliesTo(n, live, c, kind)[1].kind = kind
    BY <2>1, <2>2, <2>5, RepliesSay
  <2>7. l \in LinkType
    <3>1. l = Served(n, live, c, FALSE)
      BY DEF live, c
    <3>. QED BY <2>1, <2>2, <3>1, ServedType
  <2> HIDE DEF l, kind
  <2>8. Tail(l.wire) = <<>> /\ first.kind = kind
    <3> DEFINE w == RepliesTo(n, live, c, kind)
    <3>1. w \in Seq(Replies) /\ Len(w) = 1 /\ w[1].kind = kind /\ l.wire = w
      BY <2>4, <2>6
    <3>2. l.wire = w /\ first = w[1]
      BY <3>1
    <3> HIDE DEF w, first
    <3>3. Tail(w) = <<>>
      BY <3>1
    <3>. QED BY <3>1, <3>2, <3>3
  <2>9. CASE kind = "ok"
    <3>1. o.ok = TRUE /\ o.l = [l EXCEPT !.wire = <<>>]
      BY <1>4, <2>8, <2>9
    <3>2. /\ o.l.open = l.open /\ o.l.multi = l.multi /\ o.l.eof = l.eof /\ o.l.wire = <<>>
          /\ o.l.tx = l.tx /\ o.l.queue = l.queue
      BY <2>7, <3>1 DEF LinkType
    <3>3. /\ name = "DISCARD" => l.tx = "none"
          /\ name = "MULTI" => l.tx = "open"
          /\ name \in {"ASKING", "READONLY"} => l.tx = live.tx
      BY <2>4
    <3>4. l.queue = IF name = "DISCARD" THEN <<>> ELSE live.queue
      BY <2>2, <2>4, <2>9
    <3>. QED BY <2>1, <2>4, <3>1, <3>2, <3>3, <3>4 DEF live
  <2>10. CASE kind # "ok"
    <3>1. o.ok = FALSE
      BY <1>4, <2>8, <2>10
    <3>. QED BY <1>4, <2>5, <2>10, <3>1 DEF live
  <2>. QED BY <2>9, <2>10
<1>. QED BY <1>1, <1>2, <1>3, <1>4

-----------------------------------------------------------------------------
(* A step that the client takes no part in. *)

\* The connection is as it was, or the server has closed it.
Alike(l, k) ==
  /\ k.open = l.open /\ k.multi = l.multi
  /\ \/ k.eof = l.eof /\ k.wire = l.wire /\ k.tx = l.tx /\ k.queue = l.queue
     \/ l.open = TRUE /\ k.eof = TRUE /\ k.wire = <<>> /\ k.tx = "none" /\ k.queue = <<>>

FitsAsWell(l, k, q, S, next, b, id) ==
  /\ Quiet(l, q, S, next) => Quiet(k, q, S, next)
  /\ Answering(l, q, S, b, id) => Answering(k, q, S, b, id)
  /\ Executing(l, q, S, id) => Executing(k, q, S, id)
  /\ Executed(l, q, S) => Executed(k, q, S)
  /\ Aborting(l, S) => Aborting(k, S)
  /\ Gone(l) => Gone(k)
  /\ k.wire # <<>> => l.wire # <<>>

LEMMA AlikeFits ==
  ASSUME NEW l \in LinkType, NEW k \in LinkType, Alike(l, k), NEW q, NEW S,
         NEW next \in BOOLEAN, NEW b \in BOOLEAN, NEW id \in Nat
  PROVE  FitsAsWell(l, k, q, S, next, b, id)
<1>1. CASE k.eof = l.eof /\ k.wire = l.wire /\ k.tx = l.tx /\ k.queue = l.queue
  <2>1. k.open = l.open /\ k.multi = l.multi
    BY DEF Alike
  <2>. QED BY <1>1, <2>1 DEF FitsAsWell, Sound, Quiet, Answering, Executing, Executed, Aborting, Gone
<1>2. CASE l.open = TRUE /\ k.eof = TRUE /\ k.wire = <<>> /\ k.tx = "none" /\ k.queue = <<>>
  <2>1. k.open = TRUE /\ k.multi = l.multi /\ l.multi \in BOOLEAN /\ Sound(k)
    BY <1>2, LinkFields DEF Alike, Sound
  <2>. QED BY <1>2, <2>1 DEF FitsAsWell, Quiet, Answering, Executing, Executed, Aborting, Gone
<1>. QED BY <1>1, <1>2 DEF Alike

LEMMA AlikeItself ==
  ASSUME NEW l \in LinkType
  PROVE  Alike(l, l) /\ Alike(l, [l EXCEPT !.touched = TRUE]) /\ Alike(l, Dropped(l))
<1>1. Alike(l, l)
  BY DEF Alike
<1>2. Alike(l, [l EXCEPT !.touched = TRUE])
  BY DEF Alike, LinkType
<1>3. Alike(l, Dropped(l))
  <2> DEFINE m == l.multi  w == l.watching  r == l.readonly
             d == [Closed EXCEPT !.open = TRUE, !.multi = m, !.eof = TRUE, !.watching = w, !.readonly = r]
  <2>1. CASE l.open
    <3>1. Dropped(l) = d /\ l.open = TRUE
      BY <2>1, LinkFields DEF Dropped
    <3> HIDE DEF m, w, r
    <3>2. d.open = TRUE /\ d.multi = m /\ d.eof = TRUE /\ d.wire = <<>> /\ d.tx = "none" /\ d.queue = <<>>
      BY DEF Closed
    <3> HIDE DEF d
    <3>. QED BY <3>1, <3>2 DEF Alike, m
  <2>2. CASE ~l.open
    BY <1>1, <2>2 DEF Dropped
  <2>. QED BY <2>1, <2>2
<1>. QED BY <1>1, <1>2, <1>3

LEMMA AlikeKeeps ==
  ASSUME TypeInv, LinkTypes', Agree, torn = {}, UNCHANGED <<table, tx, target, call>>,
         \A n \in Nodes : Alike(link[n], link'[n])
  PROVE  Aimed' /\ \A n \in Nodes : NodeFits(n)'
<1>0. UNCHANGED <<fold, master, mode, refused, cmdSlot, cmdSock, missed, pc, op, pos>>
  BY DEF table, tx, target, call
<1>1. Aimed /\ \A n \in Nodes : NodeFits(n)
  BY DEF Agree
<1>2. /\ InCommand' = InCommand /\ InExec' = InExec
      /\ \A n : /\ Reading(n)' = Reading(n) /\ Next1(n)' = Next1(n) /\ Done(n)' = Done(n)
                /\ Accepted(n)' = Accepted(n) /\ Left(n)' = Left(n) /\ \A p : Items(n, p)' = Items(n, p)
  BY <1>0 DEF InCommand, InExec, Reading, Next1, Done, Accepted, Left, Items
<1>3. Aimed'
  <2>1. InCommand => cmdSock \in Nodes
    BY DEF TypeInv, CallShape, InCommand
  <2>2. InCommand => link'[cmdSock].multi = link[cmdSock].multi
    BY <2>1 DEF Alike
  <2>. QED BY <1>0, <1>1, <1>2, <2>2 DEF Aimed
<1>4. ASSUME NEW n \in Nodes PROVE NodeFits(n)'
  <2> DEFINE l == link[n]  k == link'[n]  S == Items(n, 1)  next == Next1(n)  id == op.cmd.id  b == mode = "MULTI"
  <2>1. l \in LinkType /\ k \in LinkType /\ Alike(l, k) /\ id \in Nat /\ next \in BOOLEAN /\ b \in BOOLEAN
    BY DEF TypeInv, LinkTypes, CallTypes, Op, Command, Next1, InCommand
  <2>2. FitsAsWell(l, k, fold, S, next, b, id) /\ FitsAsWell(l, k, fold, Items(n, pos), next, b, id)
    <3> HIDE DEF l, k, S, next, id, b
    <3>. QED BY <2>1, AlikeFits
  <2>. QED BY <1>0, <1>1, <1>2, <2>2 DEF FitsAsWell, NodeFits, Fits
<1>. QED BY <1>3, <1>4

\* The cluster changes, or its servers do.
LEMMA EnvironmentSafe ==
  ASSUME SafeInv, Environment, TypeInv'
  PROVE  SafeInv'
<1>0. /\ TypeInv /\ LinkTypes' /\ link \in [Nodes -> LinkType]
      /\ UNCHANGED <<table, tx, target, call, torn>>
  BY DEF SafeInv, TypeInv, LinkTypes, Environment, KeyWritten, MigrationEnds, SlotMoves, KeyMoves,
         ServerCloses, NodeDies, history
<1>1. \A n \in Nodes : Alike(link[n], link'[n])
  <2>1. ASSUME NEW s, link' = Touched(link, s) PROVE \A n \in Nodes : Alike(link[n], link'[n])
    BY <1>0, <2>1, AlikeItself DEF Touched
  <2>2. ASSUME NEW n \in Nodes, link' = [link EXCEPT ![n] = Dropped(@)]
        PROVE  \A m \in Nodes : Alike(link[m], link'[m])
    BY <1>0, <2>2, AlikeItself
  <2>3. ASSUME link' = link PROVE \A n \in Nodes : Alike(link[n], link'[n])
    BY <1>0, <2>3, AlikeItself
  <2>4. CASE \E s \in Slots : KeyWritten(s) \/ MigrationEnds(s)
    BY <2>1, <2>3, <2>4 DEF KeyWritten, MigrationEnds
  <2>5. CASE \E s \in Slots, n \in Nodes : SlotMoves(s, n) \/ KeyMoves(s, n)
    BY <2>1, <2>5 DEF SlotMoves, KeyMoves
  <2>6. CASE \E n \in Nodes : ServerCloses(n)
    BY <2>2, <2>6 DEF ServerCloses
  <2>7. CASE \E n, r \in Nodes : NodeDies(n, r)
    BY <2>2, <2>7 DEF NodeDies
  <2>. QED BY <2>4, <2>5, <2>6, <2>7 DEF Environment
<1>2. Stepped'
  BY <1>0 DEF SafeInv, Stepped, table, tx, target, call
<1>3. Agree'
  BY <1>0, <1>1, AlikeKeeps DEF SafeInv, Agree
<1>4. Replied'
  BY <1>0 DEF SafeInv, Replied, call
<1>. QED BY <1>2, <1>3, <1>4 DEF SafeInv

-----------------------------------------------------------------------------
(* The start, and the first step of a call. *)

LEMMA QuietMeans ==
  ASSUME NEW l \in LinkType, NEW q, NEW S
  PROVE  /\ \A next \in BOOLEAN : Quiet(l, q, S, FALSE) => Quiet(l, q, S, next)
         /\ Quiet(l, q, S, FALSE) => Aborting(l, S) /\ l.wire = <<>> /\ Sound(l)
         /\ Quiet(l, q, {}, FALSE) => ~l.multi /\ l.tx = "none" /\ l.wire = <<>> /\ Sound(l)
         /\ Sound(l) /\ ~l.multi /\ l.tx = "none" /\ l.wire = <<>> =>
              Quiet(l, q, {}, FALSE) /\ Aborting(l, S) /\ Executed(l, q, S)
<1>1. /\ \A next \in BOOLEAN : Quiet(l, q, S, FALSE) => Quiet(l, q, S, next)
      /\ Quiet(l, q, S, FALSE) => Aborting(l, S) /\ l.wire = <<>> /\ Sound(l)
  BY DEF Quiet, Aborting
<1>2. Quiet(l, q, {}, FALSE) => ~l.multi /\ l.tx = "none" /\ l.wire = <<>> /\ Sound(l)
  BY DEF Quiet
<1>3. Sound(l) /\ ~l.multi /\ l.tx = "none" /\ l.wire = <<>> =>
        Quiet(l, q, {}, FALSE) /\ Aborting(l, S) /\ Executed(l, q, S)
  BY DEF Quiet, Aborting, Executed
<1>. QED BY <1>1, <1>2, <1>3

LEMMA NewQuiet ==
  ASSUME NEW q, NEW S
  PROVE  /\ Quiet(Closed, q, {}, FALSE) /\ Aborting(Closed, S) /\ Executed(Closed, q, S)
         /\ Quiet(Fresh, q, {}, FALSE) /\ Aborting(Fresh, S) /\ Executed(Fresh, q, S)
BY NewLinks, NewLinksSound, QuietMeans

\* When no command is on its way and the queue is not being run or given up.
LEMMA AllQuiet ==
  ASSUME SafeInv, torn = {}, pc \in {"idle", "unwatch"}
  PROVE  \A n \in Nodes : Quiet(link[n], fold, Items(n, 1), FALSE)
<1>1. \A n \in Nodes : NodeFits(n)
  BY DEF SafeInv, Agree
<1>2. ~InExec /\ ~InCommand /\ \A n : ~Reading(n) /\ Next1(n) = FALSE /\ ~Left(n)
  BY DEF InExec, InCommand, Reading, Next1, OnTheWay, Left, SafeInv, TypeInv, CallShape
<1>. QED BY <1>1, <1>2 DEF NodeFits, Fits

\* And then, if that is so, the invariant holds.
LEMMA QuietAgrees ==
  ASSUME TypeInv', pc' \in {"idle", "unwatch"}, \A n \in Nodes : Quiet(link'[n], fold', Items(n, 1)', FALSE)
  PROVE  Agree'
<1>1. ~InExec' /\ ~InCommand' /\ \A n : ~Reading(n)' /\ Next1(n)' = FALSE /\ ~Left(n)'
  BY DEF InExec, InCommand, Reading, Next1, OnTheWay, Left, TypeInv, CallShape
<1>2. Aimed'
  BY <1>1 DEF Aimed
<1>3. \A n \in Nodes : NodeFits(n)'
  BY <1>1 DEF NodeFits, Fits
<1>. QED BY <1>2, <1>3 DEF Agree

\* An empty queue has no items.
LEMMA NothingQueued ==
  ASSUME NEW p \in Nat \ {0}, NEW n, fold = <<>>
  PROVE  Items(n, p) = {}
<1>1. p..Len(fold) = {}
  BY EmptySeq
<1>. QED BY <1>1 DEF Items

LEMMA FoldItems ==
  ASSUME TypeInv
  PROVE  \A i \in 1..Len(fold) : /\ fold[i].id \in Nat /\ fold[i].slot \in Slots
                                 /\ master[fold[i].slot] \in nodes /\ master[fold[i].slot] \in Nodes
<1> DEFINE T == [id : Nat, slot : Slots]
<1>1. fold \in Seq(T)
  BY DEF TypeInv, CallTypes
<1> HIDE DEF T
<1>2. \A i \in 1..Len(fold) : fold[i] \in T
  BY <1>1
<1>3. \A t \in T : t.id \in Nat /\ t.slot \in Slots
  BY DEF T
<1>4. \A i \in 1..Len(fold) : fold # <<>>
  BY EmptySeq
<1>. QED BY <1>2, <1>3, <1>4, HasMaster

LEMMA StartsSafe == Init => SafeInv
<1> SUFFICES ASSUME Init PROVE SafeInv
  OBVIOUS
<1>1. TypeInv
  BY StartsTyped
<1>2. /\ pc = "idle" /\ fold = <<>> /\ mode = "ATOMIC" /\ ret = <<>>
      /\ \A n \in Nodes : link[n] = Closed
  BY DEF Init
<1>3. Stepped
  BY <1>2 DEF Stepped, OnTheWay
<1>4. Agree
  <2>1. ~InExec /\ ~InCommand /\ \A n : ~Reading(n) /\ Next1(n) = FALSE /\ ~Left(n)
    BY <1>2 DEF InExec, InCommand, Reading, Next1, OnTheWay, Left, Init
  <2>2. \A n \in Nodes : Items(n, 1) = {}
    BY <1>2, NothingQueued
  <2>3. \A n \in Nodes : NodeFits(n)
    BY <1>2, <2>1, <2>2, NewQuiet DEF NodeFits, Fits
  <2>4. Aimed
    BY <2>1 DEF Aimed
  <2>. QED BY <2>3, <2>4 DEF Agree
<1>5. Replied
  BY <1>2 DEF Replied
<1>. QED BY <1>1, <1>3, <1>4, <1>5 DEF SafeInv

LEMMA SendSafe ==
  ASSUME SafeInv, TypeInv', pc = "idle", NEW s \in Slots,
         NEW m \in {"write", "read", "directed", "watch"}, NEW name \in {"DATA", "NODE", "WATCH"},
         m \in {"read", "watch"} => mode = "ATOMIC", name = "WATCH" <=> m = "watch",
         NEW readonly, Send(m, name, s, readonly)
  PROVE  SafeInv'
<1>1. /\ UNCHANGED <<link, mode, fold, refused, master, pos, torn, missed>>
      /\ op'.m = m /\ op'.slot = s /\ op'.cmd.name = name /\ op'.cmd.ro = (m \in {"read", "watch"})
      /\ op'.cmd.id = NextId
      /\ \/ pc' = "idle" /\ ret' = <<NoAnswer(NextId)>>
         \/ /\ master[s] # None /\ cmdSock' = master[s] /\ ret' = <<>>
            /\ pc' = IF mode = "MULTI" /\ ~link[master[s]].multi THEN "multi" ELSE Sending(redir.type)
  BY DEF Send, table, tx, Returns
<1>0. TypeInv /\ Stepped /\ NextId \in Nat /\ missed = {}
  BY DEF SafeInv, TypeInv, CallTypes, CallShape, Op, Command, NextId
<1>2. CASE pc' = "idle" /\ ret' = <<NoAnswer(NextId)>>
  <2>1. Stepped'
    BY <1>0, <1>1, <1>2 DEF Stepped, OnTheWay
  <2>2. Agree'
    <3> SUFFICES ASSUME torn = {} PROVE Agree'
      BY <1>1 DEF Agree
    <3>1. \A n \in Nodes : Quiet(link'[n], fold', Items(n, 1)', FALSE)
      BY <1>1, AllQuiet DEF Items
    <3>. QED BY <1>2, <3>1, QuietAgrees
  <2>3. Replied'
    <3>1. NoAnswer(NextId) \in Answers
      BY <1>0 DEF NoAnswer, Answers
    <3>. QED BY <1>2, <3>1 DEF Replied
  <2>. QED BY <2>1, <2>2, <2>3 DEF SafeInv
<1>3. CASE /\ master[s] # None /\ cmdSock' = master[s] /\ ret' = <<>>
           /\ pc' = IF mode = "MULTI" /\ ~link[master[s]].multi THEN "multi" ELSE Sending(redir.type)
  <2>0. pc' \in {"multi", "asking", "write"}
    BY <1>3 DEF Sending
  <2>1. Stepped'
    BY <1>0, <1>1, <1>3, <2>0 DEF Stepped, Sending, OnTheWay
  <2>2. Agree'
    <3> SUFFICES ASSUME torn = {} PROVE Aimed' /\ \A n \in Nodes : NodeFits(n)'
      BY <1>1 DEF Agree
    <3>1. \A n \in Nodes : Quiet(link[n], fold, Items(n, 1), FALSE)
      BY AllQuiet
    <3>2. link \in [Nodes -> LinkType] /\ master[s] \in Nodes
      BY <1>0, <1>3, HasMaster DEF TypeInv, LinkTypes
    <3>3. Aimed'
      <4>1. link[master[s]].multi \in BOOLEAN
        BY <3>2, LinkFields
      <4>2. mode = "MULTI" => link[master[s]].multi = (pc' # "multi")
        BY <1>3, <4>1 DEF Sending
      <4>. QED BY <1>1, <1>3, <2>0, <4>2 DEF Aimed, InCommand, InExec
    <3>4. ASSUME NEW n \in Nodes PROVE NodeFits(n)'
      <4>1. ~InExec' /\ ~Reading(n)' /\ Next1(n)' \in BOOLEAN /\ ~Left(n)'
        BY <1>0, <1>1, <2>0 DEF InExec, Reading, Next1, InCommand, Left
      <4>2. Items(n, 1)' = Items(n, 1)
        BY <1>1 DEF Items
      <4>3. Quiet(link[n], fold, Items(n, 1), Next1(n)')
        <5> DEFINE b == Next1(n)'
        <5>1. b \in BOOLEAN
          BY <4>1
        <5> HIDE DEF b
        <5>. QED BY <3>1, <3>2, <5>1, QuietMeans DEF b
      <4>. QED BY <1>1, <2>0, <4>1, <4>2, <4>3 DEF NodeFits, Fits
    <3>. QED BY <3>3, <3>4
  <2>3. Replied'
    BY <1>3 DEF Replied
  <2>. QED BY <2>1, <2>2, <2>3 DEF SafeInv
<1>. QED BY <1>1, <1>2, <1>3

LEMMA BeginSafe ==
  ASSUME SafeInv, Begin, TypeInv'
  PROVE  SafeInv'
<1>0. /\ TypeInv /\ Stepped /\ link \in [Nodes -> LinkType] /\ fold \in Seq([id : Nat, slot : Slots])
      /\ Len(fold) \in Nat /\ (missed = {} \/ pc # "idle")
  BY DEF SafeInv, TypeInv, LinkTypes, CallTypes, CallShape
<1>1. ASSUME NEW s \in Slots, CallCommand(s) \/ CallRead(s) \/ CallDirected(s) \/ CallWatch(s)
      PROVE  SafeInv'
  BY <1>1, SendSafe DEF CallCommand, CallRead, CallDirected, CallWatch, Idle
<1>2. CASE CallMulti
  <2>1. /\ UNCHANGED <<link, fold, master, torn>> /\ pc = "idle" /\ pc' = "idle" /\ mode' = "MULTI" /\ ret' = <<>>
    BY <1>2 DEF CallMulti, Idle, Returns, table
  <2>2. Stepped'
    BY <1>0, <2>1 DEF Stepped, OnTheWay
  <2>3. Agree'
    <3>1. CASE torn = {}
      <4>1. \A n \in Nodes : Quiet(link'[n], fold', Items(n, 1)', FALSE)
        BY <2>1, <3>1, AllQuiet DEF Items
      <4>. QED BY <2>1, <4>1, QuietAgrees
    <3>2. CASE torn # {}
      BY <2>1, <3>2 DEF Agree
    <3>. QED BY <3>1, <3>2
  <2>. QED BY <2>1, <2>2, <2>3 DEF SafeInv, Replied
<1>3. CASE CallExec
  <2>1. /\ UNCHANGED <<link, fold, master, torn, mode>> /\ pc = "idle" /\ pc' = "exec" /\ pos' = 1 /\ ret' = <<>>
        /\ mode = "MULTI" /\ op'.m = "exec"
    BY <1>3, NumberedType DEF CallExec, Idle, table, tx, SafeInv, AllCalls
  <2>2. op'.cmd.name = "EXEC" /\ ~op'.cmd.ro
    <3> DEFINE new == Control("EXEC")  id == NextId
    <3>1. new \in Command /\ new.name = "EXEC" /\ ~new.ro
      BY DEF Control, Command
    <3> HIDE DEF new, id
    <3> DEFINE cmd == [new EXCEPT !.id = id]
    <3>2. cmd.name = "EXEC" /\ ~cmd.ro
      BY <3>1 DEF Command
    <3> HIDE DEF cmd
    <3>3. op' = [op EXCEPT !.m = "exec", !.slot = None, !.cmd = cmd]
      BY <1>3 DEF CallExec, Numbered, new, id, cmd
    <3>4. op \in Op
      BY <1>0 DEF TypeInv, CallTypes
    <3>. QED BY <3>2, <3>3, <3>4 DEF Op
  <2>3. Stepped'
    BY <1>0, <2>1, <2>2 DEF Stepped, OnTheWay
  <2>4. Agree'
    <3> SUFFICES ASSUME torn = {} PROVE Aimed' /\ \A n \in Nodes : NodeFits(n)'
      BY <2>1 DEF Agree
    <3>1. ~InCommand' /\ \A n : ~Reading(n)' /\ ~Done(n)' /\ Next1(n)' = FALSE /\ ~Left(n)'
      BY <1>0, <1>3, <2>1 DEF InCommand, Reading, Done, Next1, OnTheWay, Left, CallExec, target
    <3>2. \A n \in Nodes : Quiet(link'[n], fold', Items(n, 1)', FALSE)
      BY <2>1, AllQuiet DEF Items
    <3>. QED BY <2>1, <3>1, <3>2 DEF Aimed, NodeFits, Fits
  <2>. QED BY <2>1, <2>3, <2>4 DEF SafeInv, Replied
<1>4. CASE CallDiscard
  <2>1. /\ UNCHANGED <<link, fold, master, torn, mode>> /\ pc = "idle" /\ pc' = "abort" /\ ret' = <<>>
        /\ mode = "MULTI"
    BY <1>4 DEF CallDiscard, Idle, table, tx
  <2>2. Stepped'
    BY <1>0, <2>1 DEF Stepped, OnTheWay
  <2>3. Agree'
    <3> SUFFICES ASSUME torn = {} PROVE Aimed' /\ \A n \in Nodes : NodeFits(n)'
      BY <2>1 DEF Agree
    <3>1. ~InCommand' /\ ~InExec' /\ \A n : ~Left(n)'
      BY <1>0, <1>4, <2>1 DEF InCommand, InExec, OnTheWay, Left, CallDiscard, target
    <3>2. pos' = 1 /\ \A n \in Nodes : Aborting(link'[n], Items(n, 1)')
      <4>1. \A n \in Nodes : Quiet(link[n], fold, Items(n, 1), FALSE)
        BY <2>1, AllQuiet
      <4>2. \A n \in Nodes : Aborting(link[n], Items(n, 1))
        BY <1>0, <4>1, QuietMeans
      <4>. QED BY <1>4, <2>1, <4>2 DEF CallDiscard, Items
    <3>. QED BY <2>1, <3>1, <3>2 DEF Aimed, NodeFits, Items
  <2>. QED BY <2>1, <2>2, <2>3 DEF SafeInv, Replied
<1>5. CASE CallUnwatch
  <2>1. /\ UNCHANGED <<link, fold, master, torn, mode>> /\ pc = "idle" /\ pc' = "unwatch" /\ mode = "ATOMIC"
        /\ ret' = <<>> /\ op'.m = "unwatch"
    BY <1>0, <1>5, NumberedType DEF CallUnwatch, Idle, table, tx, AllCalls
  <2>0. op'.cmd.name = "UNWATCH" /\ ~op'.cmd.ro
    <3> DEFINE new == Control("UNWATCH")  id == NextId
    <3>1. new \in Command /\ new.name = "UNWATCH" /\ ~new.ro
      BY DEF Control, Command
    <3> HIDE DEF new, id
    <3> DEFINE cmd == [new EXCEPT !.id = id]
    <3>2. cmd.name = "UNWATCH" /\ ~cmd.ro
      BY <3>1 DEF Command
    <3> HIDE DEF cmd
    <3>3. op' = [op EXCEPT !.m = "unwatch", !.slot = None, !.cmd = cmd]
      BY <1>5 DEF CallUnwatch, Numbered, new, id, cmd
    <3>4. op \in Op
      BY <1>0 DEF TypeInv, CallTypes
    <3>. QED BY <3>2, <3>3, <3>4 DEF Op
  <2>2. Stepped'
    BY <1>0, <2>0, <2>1 DEF Stepped, OnTheWay
  <2>3. Agree'
    <3>1. CASE torn = {}
      <4>1. \A n \in Nodes : Quiet(link'[n], fold', Items(n, 1)', FALSE)
        BY <2>1, <3>1, AllQuiet DEF Items
      <4>. QED BY <2>1, <4>1, QuietAgrees
    <3>2. CASE torn # {}
      BY <2>1, <3>2 DEF Agree
    <3>. QED BY <3>1, <3>2
  <2>. QED BY <2>1, <2>2, <2>3 DEF SafeInv, Replied
<1>6. CASE CallClose
  <2>1. /\ UNCHANGED <<fold, master, mode>> /\ pc = "idle" /\ pc' = "idle" /\ ret' = <<>>
        /\ link' = Disconnected(link) /\ torn' = torn \cup QueueLost(link')
    BY <1>6 DEF CallClose, Idle, Returns, table, tx
  <2>2. Stepped'
    BY <1>0, <2>1 DEF Stepped, OnTheWay
  <2>3. Agree'
    <3> SUFFICES ASSUME torn' = {} PROVE Agree'
      BY DEF Agree
    <3>0. torn = {} /\ QueueLost(link') = {}
      BY <2>1
    <3>1. \A n \in Nodes : Quiet(link[n], fold, Items(n, 1), FALSE)
      BY <2>1, <3>0, AllQuiet
    <3>2. ASSUME NEW n \in Nodes PROVE Quiet(link'[n], fold', Items(n, 1)', FALSE)
      <4>1. link'[n] = IF n \in Attached THEN Closed ELSE link[n]
        BY <2>1 DEF Disconnected
      <4>2. Items(n, 1)' = Items(n, 1)
        BY <2>1 DEF Items
      <4>3. ASSUME link'[n] = Closed, Items(n, 1) # {} PROVE FALSE
        <5>1. PICK i \in 1..Len(fold) : master[fold[i].slot] = n
          BY <4>3 DEF Items
        <5>2. fold[i].id \in {q.id : q \in ToSet(link'[n].queue)}
          BY <2>1, <3>0, <5>1 DEF QueueLost
        <5>3. ToSet(<<>>) = {}
          BY DEF ToSet
        <5>4. link'[n].queue = <<>>
          BY <4>3, NewLinksSound
        <5>. QED BY <5>2, <5>3, <5>4
      <4>4. CASE n \in Attached
        BY <2>1, <4>1, <4>2, <4>3, <4>4, NewQuiet
      <4>5. CASE n \notin Attached
        BY <2>1, <3>1, <4>1, <4>2, <4>5
      <4>. QED BY <4>4, <4>5
    <3>. QED BY <2>1, <3>2, QuietAgrees
  <2>. QED BY <2>1, <2>2, <2>3 DEF SafeInv, Replied
<1>7. CASE CallReconnect /\ nodes = {}
  <2>1. UNCHANGED <<link, fold, mode, master, torn>> /\ pc = "idle" /\ pc' = "idle" /\ ret' = <<>>
    BY <1>7 DEF CallReconnect, Idle, Returns, table
  <2>2. Stepped'
    BY <1>0, <2>1 DEF Stepped, OnTheWay
  <2>3. Agree'
    <3> SUFFICES ASSUME torn = {} PROVE Agree'
      BY <2>1 DEF Agree
    <3>1. \A n \in Nodes : Quiet(link'[n], fold', Items(n, 1)', FALSE)
      BY <2>1, AllQuiet DEF Items
    <3>. QED BY <2>1, <3>1, QuietAgrees
  <2>. QED BY <2>1, <2>2, <2>3 DEF SafeInv, Replied
<1>8. CASE CallReconnect /\ nodes # {}
  <2> DEFINE again == nodes \cup {n \in Attached : link[n].open}
  <2>1. /\ UNCHANGED <<master, torn>> /\ pc = "idle" /\ pc' = "idle" /\ mode' = "ATOMIC" /\ fold' = <<>> /\ ret' = <<>>
        /\ link' = [n \in Nodes |-> IF n \in again /\ again \subseteq alive THEN Fresh
                                    ELSE Disconnected(link)[n]]
    BY <1>8 DEF CallReconnect, Idle, Returns, table
  <2>2. Stepped'
    BY <2>1 DEF Stepped, OnTheWay
  <2>3. Agree'
    <3> SUFFICES ASSUME torn = {} PROVE Agree'
      BY <2>1 DEF Agree
    <3>1. \A n \in Nodes : Quiet(link[n], fold, Items(n, 1), FALSE)
      BY <2>1, AllQuiet
    <3>2. ASSUME NEW n \in Nodes PROVE Quiet(link'[n], fold', Items(n, 1)', FALSE)
      <4>1. link'[n] \in {Fresh, Closed} \/ (link'[n] = link[n] /\ n \notin Attached)
        <5> HIDE DEF again
        <5>. QED BY <2>1 DEF Disconnected
      <4>2. Items(n, 1)' = {}
        <5>1. 1..Len(fold') = {}
          BY <2>1, EmptySeq
        <5>. QED BY <5>1 DEF Items
      <4>3. CASE link'[n] = link[n] /\ n \notin Attached
        <5>1. Items(n, 1) = {}
          <6>. QED BY <1>0, <4>3, FoldItems DEF Items, Attached
        <5>2. Quiet(link[n], fold', {}, FALSE)
          BY <1>0, <3>1, <5>1, QuietMeans
        <5>. QED BY <4>2, <4>3, <5>2
      <4>4. CASE link'[n] \in {Fresh, Closed}
        BY <4>2, <4>4, NewQuiet
      <4>. QED BY <4>1, <4>3, <4>4
    <3>. QED BY <2>1, <3>2, QuietAgrees
  <2>. QED BY <2>1, <2>2, <2>3 DEF SafeInv, Replied
<1>. QED BY <1>1, <1>2, <1>3, <1>4, <1>5, <1>6, <1>7, <1>8 DEF Begin

-----------------------------------------------------------------------------
(* A call that fails. *)

LEMMA QuietIsLoose ==
  ASSUME NEW l \in LinkType, NEW q, NEW S
  PROVE  /\ \A next \in BOOLEAN : Quiet(l, q, S, next) => Loose(l, q, S)
         /\ Loose(Closed, q, S)
<1>1. \A next \in BOOLEAN : Quiet(l, q, S, next) => Loose(l, q, S)
  BY DEF Quiet, Loose
<1>2. Loose(Closed, q, S)
  BY NewLinksSound DEF Loose
<1>. QED BY <1>1, <1>2

\* Outside exec(): what no tear is recorded of is as it should be.
LEMMA FailsSafe ==
  ASSUME SafeInv, TypeInv', op.m # "exec", NEW ls \in [Nodes -> LinkType], NEW type, NEW tears,
         Fails(ls, type, tears), UNCHANGED <<mode, fold, op>>, master' = master \/ fold = <<>>,
         torn = {} /\ tears = {} => \A n \in Nodes : Loose(ls[n], fold, Items(n, 1))
  PROVE  SafeInv'
<1>0. /\ TypeInv /\ Stepped /\ op.cmd.id \in Nat
  BY DEF SafeInv, TypeInv, CallTypes, Op, Command
<1>1. /\ link' = ls /\ pc' = "idle" /\ ret' = <<NoAnswer(op.cmd.id)>>
      /\ torn' = torn \cup tears \cup Orphaned(ls) \cup OldAsk(type) \cup QueueLost(ls)
  BY DEF Fails, Returns
<1>2. Stepped'
  BY <1>0, <1>1 DEF Stepped, OnTheWay
<1>3. Replied'
  <2>1. NoAnswer(op.cmd.id) \in Answers
    BY <1>0 DEF NoAnswer, Answers
  <2>. QED BY <1>1, <2>1 DEF Replied
<1>4. Agree'
  <2> SUFFICES ASSUME torn' = {} PROVE Agree'
    BY DEF Agree
  <2>1. torn = {} /\ tears = {} /\ Orphaned(ls) = {} /\ QueueLost(ls) = {}
    BY <1>1
  <2>2. ASSUME NEW n \in Nodes PROVE Quiet(ls[n], fold, Items(n, 1), FALSE)
    <3> DEFINE l == ls[n]  S == Items(n, 1)
    <3>1. Loose(l, fold, S) /\ l \in LinkType
      BY <2>1
    <3>2. l.tx # "none" \/ l.multi => S # {}
      <4>1. ~(l.open /\ (l.multi \/ l.tx # "none") /\ \A i \in 1..Len(fold) : master[fold[i].slot] # n)
        BY <2>1 DEF Orphaned
      <4>2. l.tx # "none" \/ l.multi => l.open
        BY <3>1 DEF Loose, Sound
      <4>. QED BY <4>1, <4>2 DEF Items
    <3>3. S # {} => l.multi
      <4> SUFFICES ASSUME S # {} PROVE l.multi
        OBVIOUS
      <4>1. PICK i \in 1..Len(fold) : master[fold[i].slot] = n
        BY DEF Items
      <4>2. fold[i].id \in {q.id : q \in ToSet(l.queue)}
        BY <2>1, <4>1 DEF QueueLost
      <4>3. l.queue # <<>>
        <5>1. ToSet(<<>>) = {}
          BY DEF ToSet
        <5>. QED BY <4>2, <5>1
      <4>. QED BY <3>1, <4>3 DEF Loose, Sound
    <3> HIDE DEF l, S
    <3>4. Quiet(l, fold, S, FALSE)
      BY <3>1, <3>2, <3>3 DEF Loose, Quiet
    <3>. QED BY <3>4 DEF l, S
  <2>3. \A n : Items(n, 1)' = Items(n, 1)
    <3>1. fold = <<>> => 1..Len(fold) = {}
      BY EmptySeq
    <3>. QED BY <3>1 DEF Items
  <2>. QED BY <1>1, <2>2, <2>3, QuietAgrees
<1>. QED BY <1>2, <1>3, <1>4 DEF SafeInv

\* exec() goes on to give the transaction up.
LEMMA FailsExecSafe ==
  ASSUME SafeInv, TypeInv', op.m = "exec", mode = "MULTI", NEW ls \in [Nodes -> LinkType], NEW type, NEW tears,
         Fails(ls, type, tears), UNCHANGED <<master, mode, fold, op>>,
         torn = {} /\ tears = {} /\ Split = {} => \A n \in Nodes : Aborting(ls[n], Items(n, 1))
  PROVE  SafeInv'
<1>1. /\ link' = ls /\ pc' = "abort" /\ pos' = 1 /\ ret' = ret
      /\ torn' = torn \cup tears \cup Orphaned(ls) \cup OldAsk(type) \cup Split
  BY DEF Fails
<1>2. Stepped'
  BY <1>1 DEF Stepped, OnTheWay
<1>3. Replied'
  BY <1>1 DEF SafeInv, Replied
<1>4. Agree'
  <2> SUFFICES ASSUME torn' = {} PROVE Agree'
    BY DEF Agree
  <2>1. torn = {} /\ tears = {} /\ Split = {}
    BY <1>1
  <2>2. \A n \in Nodes : Aborting(link'[n], Items(n, 1)')
    BY <1>1, <2>1 DEF Items
  <2>3. ~InCommand' /\ ~InExec' /\ \A n : ~Left(n)'
    BY <1>1 DEF InCommand, InExec, OnTheWay, Left, TypeInv, CallShape
  <2>. QED BY <1>1, <2>2, <2>3 DEF Agree, Aimed, NodeFits, Items
<1>. QED BY <1>2, <1>3, <1>4 DEF SafeInv

\* The nodes of exec() that it does not read from, if it gives up and none has run its part.
LEMMA OthersAbort ==
  ASSUME SafeInv, torn = {}, InExec, Split = {}, NEW n \in Nodes, ~Reading(n)
  PROVE  Aborting(link[n], Items(n, 1))
<1>1. NodeFits(n) /\ link[n] \in LinkType
  BY DEF SafeInv, Agree, TypeInv, LinkTypes
<1>2. CASE Done(n)
  <2>1. Executed(link[n], fold, Items(n, 1)) /\ (link[n].wire # <<>> => Accepted(n))
    BY <1>1, <1>2 DEF NodeFits
  <2>2. ~Accepted(n)
    BY DEF Split, Accepted
  <2>. QED BY <2>1, <2>2 DEF Executed, Aborting
<1>4. CASE Left(n)
  BY <1>1, <1>4 DEF NodeFits, Gone, Aborting
<1>3. CASE ~Done(n) /\ ~Left(n)
  <2>1. Quiet(link[n], fold, Items(n, 1), FALSE)
    BY <1>1, <1>3 DEF NodeFits, Fits, Next1, InExec, InCommand, OnTheWay
  <2>. QED BY <1>1, <2>1, QuietMeans
<1>. QED BY <1>2, <1>3, <1>4

\* The nodes a command outside exec() is not for, while it is on its way.
LEMMA OthersQuiet ==
  ASSUME SafeInv, torn = {}, InCommand, NEW n \in Nodes, pc = "multi" \/ n # cmdSock
  PROVE  Quiet(link[n], fold, Items(n, 1), FALSE)
<1>1. NodeFits(n)
  BY DEF SafeInv, Agree
<1>2. ~Reading(n) /\ ~InExec /\ Next1(n) = FALSE /\ ~Left(n)
  BY DEF Reading, InExec, InCommand, Next1, OnTheWay, Left, SafeInv, TypeInv, CallShape
<1>. QED BY <1>1, <1>2 DEF NodeFits, Fits, InCommand, OnTheWay

\* A connection that is looked at before it is used.
LEMMA LiveQuiet ==
  ASSUME TypeInv, NEW n \in Nodes, NEW q, NEW S, NEW next \in BOOLEAN, Quiet(link[n], q, S, next), Live(n).open
  PROVE  /\ Live(n) \in LinkType /\ Quiet(Live(n), q, S, next) /\ Live(n).eof = FALSE /\ Live(n).open = TRUE
         /\ Sound(Live(n)) /\ Live(n).wire = <<>>
         /\ Live(n).multi = link[n].multi /\ (Live(n).tx # "none" => Live(n).multi)
         /\ Live(n) = link[n] \/ (Live(n) = Fresh /\ S = {})
<1>0. link[n] \in LinkType /\ link[n].multi \in BOOLEAN
  BY LinkFields DEF TypeInv, LinkTypes
<1>1. /\ Live(n) \in LinkType /\ Sound(Live(n)) /\ Live(n).eof = FALSE /\ Live(n).open = TRUE
      /\ Live(n) = link[n] \/ (Live(n) = Fresh /\ ~link[n].multi)
  <2>1. Sound(link[n]) /\ LinkTypes
    BY DEF Quiet, TypeInv
  <2>. QED BY <2>1, LiveSays
<1>2. CASE Live(n) = link[n]
  BY <1>1, <1>2 DEF Quiet
<1>3. CASE Live(n) = Fresh /\ ~link[n].multi
  <2>1. S = {} /\ link[n].multi = FALSE
    BY <1>0, <1>3 DEF Quiet
  <2>2. Quiet(Fresh, q, S, next)
    BY <2>1, NewQuiet, NewLinks, QuietMeans
  <2>. QED BY <1>1, <1>3, <2>1, <2>2, NewLinksSound
<1>. QED BY <1>1, <1>2, <1>3

-----------------------------------------------------------------------------
(* MULTI and ASKING before a command. *)

LEMMA SendMultiSafe ==
  ASSUME SafeInv, SendMulti, TypeInv'
  PROVE  SafeInv'
<1> DEFINE n == cmdSock
<1>0. /\ pc = "multi" /\ pc \in OnTheWay /\ mode = "MULTI" /\ op.m # "exec" /\ n \in Nodes /\ master[op.slot] \in Nodes
      /\ UNCHANGED <<mode, fold, refused, master, op, cmdSock, cmdSlot, missed>> /\ missed = {}
      /\ TypeInv /\ Stepped /\ link \in [Nodes -> LinkType] /\ InCommand /\ ClusterTypes /\ LinkTypes
  <2>1. pc = "multi" /\ UNCHANGED <<table, tx, target, op>>
    BY DEF SendMulti
  <2>2. TypeInv /\ pc \in OnTheWay /\ op.slot \in Slots
    BY <2>1 DEF SafeInv, TypeInv, CallShape, Stepped, OnTheWay
  <2>3. master[op.slot] \in Nodes
    BY <2>2, HasMaster
  <2>. QED BY <2>1, <2>2, <2>3 DEF SafeInv, TypeInv, Stepped, CallShape, LinkTypes, OnTheWay, InCommand,
              table, tx, target
<1>1. PICK o \in Direct(master[op.slot], "MULTI") :
        LET sent == [link EXCEPT ![master[op.slot]] = o.l] IN
        IF o.ok THEN /\ link' = [sent EXCEPT ![cmdSock].multi = TRUE]
                     /\ pc' = Sending(redir.type) /\ GoesOn
        ELSE Fails(sent, redir.type, Late(o))
  BY DEF SendMulti
<1>2. torn = {} => /\ n = master[op.slot] /\ ~link[n].multi /\ Quiet(link[n], fold, {}, FALSE) /\ Items(n, 1) = {}
                   /\ \A m \in Nodes : Quiet(link[m], fold, Items(m, 1), FALSE)
  <2> SUFFICES ASSUME torn = {}
               PROVE  /\ n = master[op.slot] /\ ~link[n].multi /\ Quiet(link[n], fold, {}, FALSE)
                      /\ Items(n, 1) = {}
                      /\ \A m \in Nodes : Quiet(link[m], fold, Items(m, 1), FALSE)
    OBVIOUS
  <2>1. n = master[op.slot] /\ link[n].multi = FALSE
    BY <1>0 DEF SafeInv, Agree, Aimed
  <2>2. \A m \in Nodes : Quiet(link[m], fold, Items(m, 1), FALSE)
    BY <1>0, OthersQuiet
  <2>3. Items(n, 1) = {}
    BY <1>0, <2>1, <2>2 DEF Quiet
  <2>. QED BY <1>0, <2>1, <2>2, <2>3
<1>3. CASE o.ok
  <2>1. /\ link' = [[link EXCEPT ![master[op.slot]] = o.l] EXCEPT ![cmdSock].multi = TRUE]
        /\ pc' \in {"asking", "write"} /\ UNCHANGED <<pos, ret, torn>>
    BY <1>1, <1>3 DEF GoesOn, Sending
  <2>2. Stepped'
    BY <1>0, <2>1 DEF Stepped, OnTheWay
  <2>3. Replied'
    BY <2>1 DEF SafeInv, Replied
  <2>4. Agree'
    <3> SUFFICES ASSUME torn = {} PROVE Aimed' /\ \A m \in Nodes : NodeFits(m)'
      BY <2>1 DEF Agree
    <3> DEFINE k == [o.l EXCEPT !.multi = TRUE]
    <3>1. o.l \in LinkType /\ k \in LinkType
      BY <1>0, DirectType, LinkChanges
    <3>2. link'[n] = k /\ \A m \in Nodes \ {n} : link'[m] = link[m]
      BY <1>0, <1>2, <2>1
    <3>3. /\ Live(n).open /\ o.l.open = TRUE /\ o.l.eof = FALSE /\ o.l.wire = <<>>
          /\ o.l.tx = "open" /\ o.l.queue = Live(n).queue
      <4>1. Sound(link[n]) /\ link[n].wire = <<>> /\ o \in Direct(n, "MULTI")
        BY <1>0, <1>2 DEF Quiet
      <4>. QED BY <1>0, <1>3, <4>1, DirectSays
    <3>4. Quiet(Live(n), fold, {}, FALSE) /\ Live(n) \in LinkType
      BY <1>0, <1>2, <3>3, LiveQuiet
    <3>5. o.l.queue = <<>>
      BY <3>3, <3>4 DEF Quiet, Sound
    <3>6. /\ k.open = TRUE /\ k.multi = TRUE /\ k.eof = FALSE /\ k.wire = <<>> /\ k.tx = "open" /\ k.queue = <<>>
      BY <3>1, <3>3, <3>5 DEF LinkType
    <3> HIDE DEF k
    <3>7. Quiet(k, fold, {}, TRUE)
      <4>1. QueueIds(k.queue) = <<>> /\ QueueIds(k.queue) \in Seq(Nat)
        <5>1. k.queue \in Seq(Queued) /\ Len(k.queue) = 0
          BY <3>1, <3>6, LinkFields
        <5>2. QueueIds(k.queue) \in Seq(Nat) /\ Len(QueueIds(k.queue)) = 0
          BY <5>1, QueueIdsAre
        <5>. QED BY <5>2
      <4>2. Lists(QueueIds(k.queue), fold, {})
        BY <4>1, ListsNothing
      <4>. QED BY <3>6, <4>2 DEF Quiet, Sound
    <3>8. /\ ~InExec' /\ InCommand' /\ \A m : ~Reading(m)' /\ Items(m, 1)' = Items(m, 1) /\ ~Left(m)'
          /\ Next1(n)' = TRUE /\ \A m \in Nodes \ {n} : Next1(m)' = FALSE
      BY <1>0, <2>1 DEF InExec, InCommand, OnTheWay, Reading, Items, Next1, Left
    <3>9. Aimed'
      BY <1>0, <1>2, <2>1, <3>2, <3>6, <3>8 DEF Aimed
    <3>10. ASSUME NEW m \in Nodes PROVE NodeFits(m)'
      <4>1. Quiet(link'[m], fold', Items(m, 1)', Next1(m)')
        <5>1. CASE m = n
          BY <1>0, <1>2, <3>2, <3>7, <3>8, <5>1
        <5>2. CASE m # n
          BY <1>0, <1>2, <3>2, <3>8, <5>2
        <5>. QED BY <5>1, <5>2
      <4>. QED BY <2>1, <3>8, <4>1 DEF NodeFits, Fits
    <3>. QED BY <3>9, <3>10
  <2>. QED BY <2>2, <2>3, <2>4 DEF SafeInv
<1>4. CASE ~o.ok
  <2> DEFINE ls == [link EXCEPT ![master[op.slot]] = o.l]
  <2>1. Fails(ls, redir.type, Late(o))
    BY <1>1, <1>4
  <2>2. ls \in [Nodes -> LinkType]
    <3>1. o.l \in LinkType
      BY <1>0, DirectType
    <3>. QED BY <1>0, <3>1
  <2>3. ASSUME torn = {}, Late(o) = {}, NEW m \in Nodes PROVE Loose(ls[m], fold, Items(m, 1))
    <3>1. ~o.late
      BY <2>3 DEF Late
    <3>2. /\ Sound(link[n]) /\ link[n].wire = <<>> /\ o \in Direct(n, "MULTI")
          /\ Live(n).open => Live(n).tx = "none"
      <4>1. Live(n).open => Quiet(Live(n), fold, {}, FALSE) /\ Live(n) \in LinkType
        BY <1>0, <1>2, <2>3, LiveQuiet
      <4>2. Live(n).open => Live(n).tx = "none"
        BY <4>1, QuietMeans
      <4>. QED BY <1>0, <1>2, <2>3, <4>2 DEF Quiet
    <3>3. o.l = Closed
      BY <1>0, <1>4, <3>1, <3>2, DirectSays
    <3>4. ls[m] = IF m = n THEN Closed ELSE link[m]
      BY <1>0, <1>2, <2>3, <3>3
    <3>. QED BY <1>0, <1>2, <2>3, <3>4, QuietIsLoose
  <2> HIDE DEF ls
  <2>. QED BY <1>0, <2>1, <2>2, <2>3, FailsSafe
<1>. QED BY <1>3, <1>4

LEMMA SendAskingSafe ==
  ASSUME SafeInv, SendAsking, TypeInv'
  PROVE  SafeInv'
<1> DEFINE n == cmdSock
<1>0. /\ pc = "asking" /\ pc \in OnTheWay /\ n \in Nodes
      /\ UNCHANGED <<mode, fold, master, op, cmdSock, cmdSlot, missed>> /\ missed = {}
      /\ TypeInv /\ Stepped /\ link \in [Nodes -> LinkType] /\ InCommand \in BOOLEAN
      /\ InExec = ~InCommand /\ ClusterTypes /\ LinkTypes
      /\ \A m : Reading(m) = FALSE /\ Left(m) = FALSE /\ Left(m)' = FALSE
  <2>1. pc = "asking" /\ UNCHANGED <<table, mode, fold, target, op>>
    BY DEF SendAsking
  <2>. QED BY <2>1 DEF SafeInv, TypeInv, Stepped, CallShape, LinkTypes, OnTheWay, InCommand, InExec, Reading,
              Left, table, target
<1>1. PICK o \in Direct(cmdSock, "ASKING") :
        LET sent == [link EXCEPT ![cmdSock] = o.l] IN
        IF o.ok THEN link' = sent /\ pc' = "write" /\ GoesOn /\ UNCHANGED refused
        ELSE Fails(sent, redir.type, Late(o)) /\ Unsent
  BY DEF SendAsking
<1> DEFINE S == Items(n, 1)  next == Next1(n)  ls == [link EXCEPT ![cmdSock] = o.l]
<1>2. next \in BOOLEAN /\ o.l \in LinkType /\ ls \in [Nodes -> LinkType]
  <2>1. o.l \in LinkType
    BY <1>0, DirectType
  <2>. QED BY <1>0, <2>1 DEF Next1
<1>3. torn = {} => Quiet(link[n], fold, S, next) /\ (InExec => ~Done(n))
  <2> SUFFICES ASSUME torn = {} PROVE Quiet(link[n], fold, S, next) /\ (InExec => ~Done(n))
    OBVIOUS
  <2>1. InExec => ~Done(n)
    BY <1>0 DEF SafeInv, Agree, Aimed
  <2>2. NodeFits(n)
    BY <1>0 DEF SafeInv, Agree
  <2>. QED BY <1>0, <2>1, <2>2 DEF NodeFits, Fits
<1>4. CASE o.ok
  <2>1. link' = ls /\ pc' = "write" /\ UNCHANGED <<pos, ret, torn, refused>>
    BY <1>1, <1>4 DEF GoesOn
  <2>2. Stepped'
    BY <1>0, <2>1 DEF Stepped, OnTheWay
  <2>3. Replied'
    BY <2>1 DEF SafeInv, Replied
  <2>4. Agree'
    <3> SUFFICES ASSUME torn = {} PROVE Aimed' /\ \A m \in Nodes : NodeFits(m)'
      BY <2>1 DEF Agree
    <3>1. /\ Live(n).open /\ o.l.open = TRUE /\ o.l.eof = FALSE /\ o.l.wire = <<>>
          /\ o.l.multi = Live(n).multi /\ o.l.tx = Live(n).tx /\ o.l.queue = Live(n).queue
      <4>1. Sound(link[n]) /\ link[n].wire = <<>>
        BY <1>3 DEF Quiet
      <4>. QED BY <1>0, <1>4, <4>1, DirectSays
    <3>2. /\ Live(n) \in LinkType /\ Quiet(Live(n), fold, S, next) /\ Live(n).eof = FALSE /\ Live(n).open = TRUE
          /\ Live(n).wire = <<>> /\ Live(n).multi = link[n].multi
      <4>1. TypeInv /\ n \in Nodes /\ next \in BOOLEAN /\ Quiet(link[n], fold, S, next) /\ Live(n).open
        BY <1>0, <1>2, <1>3, <3>1
      <4> HIDE DEF S, next, n
      <4>. QED BY <4>1, LiveQuiet
    <3>3. Quiet(o.l, fold, S, next)
      <4>1. Alike(Live(n), o.l)
        BY <3>1, <3>2 DEF Alike
      <4> HIDE DEF S, next
      <4>. QED BY <1>2, <3>2, <4>1, AlikeFits DEF FitsAsWell
    <3>4. link'[n] = o.l /\ \A m \in Nodes \ {n} : link'[m] = link[m]
      BY <1>0, <2>1
    <3>5. /\ InExec' = InExec /\ InCommand' = InCommand
          /\ \A m : /\ Reading(m)' = FALSE /\ Items(m, 1)' = Items(m, 1) /\ Next1(m)' = Next1(m)
                    /\ Done(m)' = Done(m) /\ Accepted(m)' = Accepted(m)
      BY <1>0, <2>1 DEF InExec, InCommand, OnTheWay, Reading, Items, Next1, Done, Accepted
    <3>6. Aimed'
      <4>1. Aimed
        BY DEF SafeInv, Agree
      <4>2. link'[n].multi = link[n].multi
        BY <3>1, <3>2, <3>4
      <4>. QED BY <1>0, <2>1, <3>5, <4>1, <4>2 DEF Aimed
    <3>7. ASSUME NEW m \in Nodes PROVE NodeFits(m)'
      <4>1. NodeFits(m)
        BY DEF SafeInv, Agree
      <4>2. CASE m = n
        BY <1>0, <1>3, <2>1, <3>3, <3>4, <3>5, <4>2 DEF NodeFits, Fits
      <4>3. CASE m # n
        BY <1>0, <2>1, <3>4, <3>5, <4>1, <4>3 DEF NodeFits, Fits
      <4>. QED BY <4>2, <4>3
    <3>. QED BY <3>6, <3>7
  <2>. QED BY <2>2, <2>3, <2>4 DEF SafeInv
<1>5. CASE ~o.ok
  <2>1. Fails(ls, redir.type, Late(o))
    BY <1>1, <1>5
  <2>2. torn = {} /\ Late(o) = {} => o.l = Closed
    <3> SUFFICES ASSUME torn = {}, ~o.late PROVE o.l = Closed
      BY DEF Late
    <3>1. Sound(link[n]) /\ link[n].wire = <<>>
      BY <1>3 DEF Quiet
    <3>. QED BY <1>0, <1>5, <3>1, DirectSays
  <2>3. \A m \in Nodes : ls[m] = IF m = n THEN o.l ELSE link[m]
    BY <1>0
  <2>4. CASE InCommand
    <3>1. ASSUME torn = {}, Late(o) = {}, NEW m \in Nodes PROVE Loose(ls[m], fold, Items(m, 1))
      <4>1. CASE m = n
        BY <2>2, <2>3, <3>1, <4>1, QuietIsLoose, NewLinks
      <4>2. CASE m # n
        <5>1. Quiet(link[m], fold, Items(m, 1), FALSE)
          BY <2>4, <3>1, <4>2, OthersQuiet
        <5>. QED BY <1>0, <2>3, <4>2, <5>1, QuietIsLoose
      <4>. QED BY <4>1, <4>2
    <3>2. op.m # "exec"
      BY <2>4 DEF InCommand
    <3> HIDE DEF ls
    <3>. QED BY <1>0, <1>2, <2>1, <3>1, <3>2, FailsSafe
  <2>5. CASE InExec
    <3>1. ASSUME torn = {}, Late(o) = {}, Split = {}, NEW m \in Nodes PROVE Aborting(ls[m], Items(m, 1))
      <4>1. CASE m = n
        BY <2>2, <2>3, <3>1, <4>1, NewQuiet
      <4>2. CASE m # n
        <5>1. Aborting(link[m], Items(m, 1))
          BY <1>0, <2>5, <3>1, OthersAbort
        <5>. QED BY <2>3, <4>2, <5>1
      <4>. QED BY <4>1, <4>2
    <3>2. op.m = "exec" /\ mode = "MULTI"
      BY <1>0, <2>5 DEF InExec, Stepped
    <3> HIDE DEF ls
    <3>. QED BY <1>0, <1>2, <2>1, <3>1, <3>2, FailsExecSafe
  <2>. QED BY <1>0, <2>4, <2>5
<1>. QED BY <1>4, <1>5

-----------------------------------------------------------------------------
(* A command is written. *)

LEMMA ServedAnswers ==
  ASSUME ClusterTypes, NEW n \in Nodes, NEW l \in LinkType, l.eof = FALSE, l.wire = <<>>, l.open = TRUE, Sound(l),
         NEW c \in Command, c.name \in {"DATA", "NODE", "WATCH", "UNWATCH"}, NEW refuse \in BOOLEAN,
         NEW q, NEW S, NEW b \in BOOLEAN, l.multi = b, S # {} => b,
         b => c.name \notin {"WATCH", "UNWATCH"} /\ l.tx # "none" /\ Lists(QueueIds(l.queue), q, S),
         ~b => l.tx = "none"
  PROVE  Answering(Served(n, l, c, refuse), q, S, b, c.id) /\ Served(n, l, c, refuse).multi = b
<1> DEFINE kind == KindOf(n, l, c, refuse)  s == Served(n, l, c, refuse)  w == RepliesTo(n, l, c, kind)
<1>1. /\ s.open = TRUE /\ s.multi = b /\ s.eof = FALSE /\ s.wire = w
      /\ l.tx = "none" => s.tx = "none"
      /\ b => s.tx # "none"
      /\ kind = "queued" => QueueIds(s.queue) = Append(QueueIds(l.queue), c.id)
      /\ kind # "queued" => s.queue = l.queue
  <2>1. LinkServed(n, l, c, refuse)
    BY ServedSays
  <2>. QED BY <2>1 DEF LinkServed
<1>2. /\ kind \notin {"rest", "array"}
      /\ kind = "queued" => l.tx # "none"
      /\ b /\ kind \in Good => kind = "queued"
  <2>1. kind = "array" => c.name = "EXEC"
    BY KindSays
  <2>. QED BY <2>1, KindSays
<1>3. w # <<>> /\ w[1].for = c.id /\ w[1].kind = kind /\ Len(w) = 1
  <2>1. kind # "array"
    BY <1>2
  <2>. QED BY <2>1, RepliesSay
<1>4. QueueIds(l.queue) \in Seq(Nat)
  BY LinkFields, QueueIdsAre
<1>5. Sound(s)
  BY <1>1, <1>2 DEF Sound
<1> HIDE DEF kind, s, w
<1>6. s.wire # <<>> /\ s.wire[1].for = c.id /\ s.wire[1].kind = kind /\ Len(s.wire) = 1
  BY <1>1, <1>3
<1>7. b => IF s.wire[1].kind = "queued"
           THEN \E ids \in Seq(Nat) : QueueIds(s.queue) = Append(ids, c.id) /\ Lists(ids, q, S)
           ELSE Lists(QueueIds(s.queue), q, S)
  BY <1>1, <1>4, <1>6
<1>8. Answering(s, q, S, b, c.id)
  BY <1>1, <1>2, <1>5, <1>6, <1>7 DEF Answering
<1>. QED BY <1>1, <1>8 DEF s

LEMMA ServedExecutes ==
  ASSUME ClusterTypes, NEW n \in Nodes, NEW l \in LinkType, l.eof = FALSE, l.wire = <<>>, l.open = TRUE,
         NEW c \in Command, c.name = "EXEC", NEW refuse \in BOOLEAN,
         NEW q, NEW S, l.multi = TRUE, Lists(QueueIds(l.queue), q, S)
  PROVE  Executing(Served(n, l, c, refuse), q, S, c.id)
<1> DEFINE kind == KindOf(n, l, c, refuse)  s == Served(n, l, c, refuse)  w == RepliesTo(n, l, c, kind)
<1>1. s.open = TRUE /\ s.multi = TRUE /\ s.eof = FALSE /\ s.wire = w /\ s.tx = "none" /\ s.queue = <<>>
  <2>1. LinkServed(n, l, c, refuse)
    BY ServedSays
  <2>. QED BY <2>1 DEF LinkServed
<1>2. kind # "rest"
  BY KindSays
<1>3. /\ w # <<>> /\ w[1].for = c.id /\ w[1].kind = kind
      /\ kind # "array" => Len(w) = 1
      /\ kind = "array" => WireIds(Tail(w)) = QueueIds(l.queue)
  BY RepliesSay
<1> HIDE DEF kind, s, w
<1>4. Executing(s, q, S, c.id)
  BY <1>1, <1>2, <1>3 DEF Executing, Sound
<1>. QED BY <1>4 DEF s

\* Outside a transaction every connection is quiet until the command is read from.
LEMMA AllQuietAtomic ==
  ASSUME SafeInv, torn = {}, mode # "MULTI", InCommand, pc # "read"
  PROVE  \A m \in Nodes : Quiet(link[m], fold, {}, FALSE)
<1>1. \A m \in Nodes : NodeFits(m)
  BY DEF SafeInv, Agree
<1>2. ~InExec /\ \A m : ~Reading(m) /\ Next1(m) = FALSE /\ ~Left(m) /\ Items(m, 1) = {}
  <2>1. fold = <<>>
    BY DEF SafeInv, TypeInv, CallTypes, Stepped
  <2>. QED BY <2>1, NothingQueued DEF InExec, InCommand, Reading, Next1, Left
<1>. QED BY <1>1, <1>2 DEF NodeFits, Fits, InCommand, OnTheWay

\* A connection that was told READONLY, if that was needed, is as it was; one that was not
\* told in time has a reply to come, and any other is closed.
LEMMA ReadiedSays ==
  ASSUME TypeInv, NEW n \in Nodes, Sound(link[n]), link[n].wire = <<>>, NEW k, NEW o \in Readied(n, k)
  PROVE  /\ o.ok => /\ Live(n).open /\ o.l.open = TRUE /\ o.l.eof = FALSE /\ o.l.wire = <<>>
                    /\ o.l.multi = Live(n).multi /\ o.l.tx = Live(n).tx /\ o.l.queue = Live(n).queue
         /\ ~o.ok /\ ~o.late => o.l = Closed
<1>0. ClusterTypes /\ LinkTypes /\ Live(n) \in LinkType
  BY LiveType DEF TypeInv
<1>1. CASE o = [ok |-> Reachable(n), l |-> Live(n), late |-> FALSE]
  <2>1. ~Live(n).open => Live(n) = Closed
    BY NewLinksSound DEF Live
  <2>2. Live(n).open => Live(n).eof = FALSE /\ Live(n).open = TRUE /\ Live(n).wire = <<>>
    BY <1>0, LiveSays, NewLinksSound
  <2>3. o.ok = Live(n).open /\ o.l = Live(n)
    BY <1>1 DEF Reachable
  <2>. QED BY <2>1, <2>2, <2>3
<1>2. ASSUME NEW d \in Direct(n, "READONLY"), o = [d EXCEPT !.l.readonly = d.ok]
      PROVE  /\ o.ok => /\ Live(n).open /\ o.l.open = TRUE /\ o.l.eof = FALSE /\ o.l.wire = <<>>
                        /\ o.l.multi = Live(n).multi /\ o.l.tx = Live(n).tx /\ o.l.queue = Live(n).queue
             /\ ~o.ok /\ ~o.late => o.l = Closed
  <2>1. d.l \in LinkType /\ d.late \in BOOLEAN /\ d.ok \in BOOLEAN
    BY <1>0, DirectType
  <2>2. o.l = [d.l EXCEPT !.readonly = d.ok] /\ o.late = d.late /\ o.ok = d.ok
    <3>1. PICK x, y, z : d = [ok |-> x, l |-> y, late |-> z]
      BY Zenon DEF Direct
    <3>2. o = [ok |-> x, l |-> [y EXCEPT !.readonly = x], late |-> z]
      BY <1>2, <3>1
    <3>. QED BY <3>1, <3>2
  <2>3. /\ d.ok => /\ Live(n).open /\ d.l.open = TRUE /\ d.l.eof = FALSE /\ d.l.wire = <<>>
                   /\ d.l.multi = Live(n).multi /\ d.l.tx = Live(n).tx /\ d.l.queue = Live(n).queue
        /\ ~d.ok /\ ~d.late => d.l = Closed
    BY <1>0, DirectSays
  <2>4. /\ o.l.open = d.l.open /\ o.l.eof = d.l.eof /\ o.l.wire = d.l.wire /\ o.l.multi = d.l.multi
        /\ o.l.tx = d.l.tx /\ o.l.queue = d.l.queue
    BY <2>1, <2>2 DEF LinkType
  <2>5. ~d.ok /\ ~d.late => o.l = Closed
    <3> SUFFICES ASSUME ~d.ok, ~d.late PROVE o.l = Closed
      OBVIOUS
    <3>1. o.l = [Closed EXCEPT !.readonly = FALSE]
      BY <2>1, <2>2, <2>3
    <3>. QED BY <3>1 DEF Closed
  <2>. QED BY <2>2, <2>3, <2>4, <2>5
<1>. QED BY <1>1, <1>2 DEF Readied

LEMMA WriteToSafe ==
  ASSUME SafeInv, pc = "write", UNCHANGED <<table, redir, mode, fold, op>>, TypeInv',
         NEW k \in 1..3, NEW n \in Nodes, NEW refuse \in BOOLEAN, WriteTo(n, k, refuse)
  PROVE  SafeInv'
<1> DEFINE S == Items(n, 1)  id == op.cmd.id
<1>0. /\ TypeInv /\ Stepped /\ ClusterTypes /\ LinkTypes /\ link \in [Nodes -> LinkType]
      /\ cmdSock \in Nodes /\ op.cmd \in Command /\ id \in Nat
      /\ UNCHANGED <<mode, fold, refused, master, op, pos, ret>> /\ missed' = {}
      /\ InExec = ~InCommand /\ InCommand \in BOOLEAN /\ \A m : Reading(m) = FALSE /\ Left(m)' = FALSE
  <2>1. UNCHANGED <<mode, fold, refused, master, op, pos, ret>> /\ missed' = {}
    BY DEF table, WriteTo
  <2>. QED BY <2>1 DEF SafeInv, TypeInv, CallShape, CallTypes, LinkTypes, Op, Command, OnTheWay, InExec,
              InCommand, Reading, Left
<1>1. PICK o \in Readied(n, k) :
         /\ o.ok /\ link' = [link EXCEPT ![n] = Served(n, o.l, op.cmd, refuse)]
  BY DEF WriteTo
<1> DEFINE l == o.l  s == Served(n, l, op.cmd, refuse)
<1>2. /\ n \in Tried[k] /\ cmdSock' = n /\ pc' = "read"
      /\ cmdSlot' = (IF k = 3 THEN nodeSlot[n] ELSE cmdSlot)
      /\ torn' = torn \cup WatchLost \cup FellBack(n)
  BY DEF WriteTo, Trying
<1>3. Stepped'
  BY <1>0, <1>2 DEF Stepped, OnTheWay
<1>4. Replied'
  BY <1>0, <1>2 DEF SafeInv, Replied
<1>5. ASSUME torn' = {} PROVE Aimed' /\ \A m \in Nodes : NodeFits(m)'
  <2>0. torn = {} /\ FellBack(n) = {}
    BY <1>2, <1>5
  <2>1. \A m \in Nodes : NodeFits(m)
    BY <2>0 DEF SafeInv, Agree
  <2>2. Aimed
    BY <2>0 DEF SafeInv, Agree
  <2>3. /\ InExec' = InExec /\ InCommand' = InCommand
        /\ \A m : /\ Reading(m)' = (m = n) /\ Next1(m)' = (InCommand /\ mode = "MULTI" /\ m = n)
                  /\ Items(m, 1)' = Items(m, 1) /\ Done(m)' = Done(m) /\ Accepted(m)' = Accepted(m)
    BY <1>0, <1>2 DEF InExec, InCommand, OnTheWay, Reading, Items, Next1, Done, Accepted
  <2>4. l \in LinkType
    BY <1>0, ReadiedType
  <2>5. s \in LinkType
    <3> DEFINE c == op.cmd
    <3>1. c \in Command /\ (c.name = "WATCH" => c.slot \in Slots) /\ l \in LinkType
      BY <1>0, <2>4 DEF TypeInv, CallShape
    <3> HIDE DEF c, l
    <3>2. Served(n, l, c, refuse) \in LinkType
      BY <1>0, <3>1, ServedType
    <3>. QED BY <3>2 DEF c
  <2>6. ASSUME NEW next \in BOOLEAN, Quiet(link[n], fold, S, next)
        PROVE  /\ l.open = TRUE /\ l.eof = FALSE /\ l.wire = <<>> /\ Sound(l) /\ l.multi = link[n].multi
               /\ Quiet(l, fold, S, next)
    <3>1. /\ Live(n).open /\ l.open = TRUE /\ l.eof = FALSE /\ l.wire = <<>>
          /\ l.multi = Live(n).multi /\ l.tx = Live(n).tx /\ l.queue = Live(n).queue
      <4>1. Sound(link[n]) /\ link[n].wire = <<>>
        BY <2>6 DEF Quiet
      <4>. QED BY <1>0, <1>1, <4>1, ReadiedSays
    <3>2. /\ Live(n) \in LinkType /\ Quiet(Live(n), fold, S, next) /\ Live(n).eof = FALSE /\ Live(n).open = TRUE
          /\ Live(n).wire = <<>> /\ Live(n).multi = link[n].multi
      <4>1. TypeInv /\ Quiet(link[n], fold, S, next) /\ Live(n).open
        BY <1>0, <2>6, <3>1
      <4> HIDE DEF S
      <4>. QED BY <4>1, LiveQuiet
    <3>3. Alike(Live(n), l)
      BY <3>1, <3>2 DEF Alike
    <3>4. Quiet(l, fold, S, next)
      <4> HIDE DEF S, l
      <4>. QED BY <1>0, <2>4, <2>6, <3>2, <3>3, AlikeFits DEF FitsAsWell
    <3>. QED BY <3>1, <3>2, <3>4 DEF Quiet
  <2> HIDE DEF l, s
  <2>7. link'[n] = s /\ \A m \in Nodes \ {n} : link'[m] = link[m]
    BY <1>0, <1>1 DEF s, l
  <2>8. CASE mode = "MULTI"
    <3>1. n = cmdSock /\ missed = {} /\ k # 3 /\ \A m : ~Left(m)
      <4>1. n = cmdSock /\ missed = {}
        BY <2>0, <2>8 DEF FellBack
      <4>2. k # 3
        BY <1>2, <4>1 DEF Tried
      <4>. QED BY <4>1, <4>2 DEF Left
    <3>4. CASE InCommand
      <4>1. link[n].multi = TRUE /\ n = master[op.slot]
        BY <2>2, <2>8, <3>1, <3>4 DEF Aimed
      <4>2. Quiet(link[n], fold, S, TRUE)
        <5>1. Next1(n) = TRUE
          BY <2>8, <3>1, <3>4 DEF Next1
        <5>. QED BY <1>0, <2>1, <3>1, <3>4, <5>1 DEF NodeFits, Fits
      <4>3. l.multi = TRUE /\ Quiet(l, fold, S, TRUE) /\ l.eof = FALSE /\ l.open = TRUE
            /\ Sound(l) /\ l.wire = <<>>
        BY <2>6, <4>1, <4>2
      <4>4. l.tx # "none" /\ Lists(QueueIds(l.queue), fold, S)
        BY <4>3 DEF Quiet
      <4>5. op.cmd.name \in {"DATA", "NODE"}
        BY <1>0, <2>8, <3>4 DEF Stepped, InCommand
      <4>6. Answering(s, fold, S, TRUE, id) /\ s.multi = TRUE
        <5> DEFINE c == op.cmd  b == TRUE
        <5>2. c \in Command /\ c.name \in {"DATA", "NODE"} /\ b \in BOOLEAN /\ l.multi = b
          BY <1>0, <4>3, <4>5
        <5> HIDE DEF c, S, b
        <5>3. Answering(Served(n, l, c, refuse), fold, S, b, c.id) /\ Served(n, l, c, refuse).multi = b
          BY <1>0, <2>4, <4>3, <4>4, <5>2, ServedAnswers
        <5>. QED BY <5>3 DEF s, c, b
      <4>7. Aimed'
        BY <1>0, <1>2, <2>3, <2>7, <3>4, <4>1, <4>6 DEF Aimed, InCommand, InExec
      <4>8. ASSUME NEW m \in Nodes PROVE NodeFits(m)'
        <5>1. CASE m = n
          BY <1>0, <1>2, <2>3, <2>7, <2>8, <3>4, <4>6, <5>1 DEF NodeFits
        <5>2. CASE m # n
          <6>1. Quiet(link[m], fold, Items(m, 1), FALSE)
            BY <2>0, <3>1, <3>4, <5>2, OthersQuiet
          <6>. QED BY <1>0, <1>2, <2>3, <2>7, <3>4, <5>2, <6>1 DEF NodeFits, Fits
        <5>. QED BY <5>1, <5>2
      <4>. QED BY <4>7, <4>8
    <3>5. CASE InExec
      <4>1. n = master[fold[pos].slot] /\ cmdSlot = fold[pos].slot /\ ~Done(n) /\ pos \in 1..Len(fold)
        <5>1. pos \in 1..Len(fold)
          BY <1>0, <3>5 DEF TypeInv, CallTypes, CallShape, InExec, OnTheWay
        <5>. QED BY <2>2, <3>1, <3>5, <5>1 DEF Aimed
      <4>2. S # {}
        BY <4>1 DEF Items
      <4>3. Quiet(link[n], fold, S, FALSE)
        <5>1. Next1(n) = FALSE
          BY <3>5 DEF Next1, InExec, InCommand
        <5>. QED BY <1>0, <2>1, <3>1, <3>5, <4>1, <5>1 DEF NodeFits, Fits
      <4>4. /\ Quiet(l, fold, S, FALSE) /\ l.eof = FALSE /\ l.open = TRUE /\ l.wire = <<>>
        BY <2>6, <4>3
      <4>5. l.multi = TRUE /\ Lists(QueueIds(l.queue), fold, S)
        BY <2>4, <4>2, <4>4, LinkFields DEF Quiet
      <4>6. Executing(s, fold, S, id)
        <5> DEFINE c == op.cmd
        <5>2. c \in Command /\ c.name = "EXEC"
          BY <1>0, <3>5 DEF Stepped, InExec, OnTheWay
        <5> HIDE DEF c, S
        <5>3. Executing(Served(n, l, c, refuse), fold, S, c.id)
          BY <1>0, <2>4, <4>4, <4>5, <5>2, ServedExecutes
        <5>. QED BY <5>3 DEF s, c
      <4>7. Aimed'
        <5>1. /\ InExec' /\ ~InCommand' /\ cmdSock' = n /\ cmdSlot' = cmdSlot
              /\ \A j \in 1..(pos - 1) : master[fold[j].slot] # n
          <6>1. InExec' /\ ~InCommand' /\ cmdSock' = n /\ cmdSlot' = cmdSlot
            <7>1. InExec'
              BY <2>3, <3>5
            <7>2. ~InCommand'
              BY <1>0, <2>3, <3>5
            <7>3. cmdSock' = n /\ cmdSlot' = cmdSlot
              BY <1>2, <3>1
            <7>. QED BY <7>1, <7>2, <7>3
          <6>2. \A j \in 1..(pos - 1) : master[fold[j].slot] # n
            BY <4>1 DEF Done
          <6>. QED BY <6>1, <6>2
        <5>. QED BY <1>0, <4>1, <5>1 DEF Aimed, Done
      <4>8. ASSUME NEW m \in Nodes PROVE NodeFits(m)'
        <5>1. CASE m = n
          BY <1>0, <1>2, <2>3, <2>7, <3>5, <4>6, <5>1 DEF NodeFits
        <5>2. CASE m # n
          <6>1. Next1(m)' = Next1(m)
            BY <2>3, <3>5 DEF Next1, InExec, InCommand
          <6>. QED BY <1>0, <1>2, <2>1, <2>3, <2>7, <3>1, <3>5, <5>2, <6>1 DEF NodeFits, Fits
        <5>. QED BY <5>1, <5>2
      <4>. QED BY <4>7, <4>8
    <3>. QED BY <1>0, <3>4, <3>5
  <2>9. CASE mode # "MULTI"
    <3>1. mode = "ATOMIC" /\ fold = <<>> /\ InCommand /\ \A m : Items(m, 1) = {}
      <4>1. mode = "ATOMIC" /\ fold = <<>> /\ op.m # "exec"
        BY <1>0, <2>9 DEF TypeInv, CallTypes, Stepped, OnTheWay
      <4>. QED BY <4>1, NothingQueued DEF InCommand, OnTheWay
    <3>2. \A m \in Nodes : Quiet(link[m], fold, {}, FALSE)
      BY <2>0, <2>9, <3>1, AllQuietAtomic
    <3>3. /\ Quiet(l, fold, {}, FALSE) /\ l.eof = FALSE /\ l.open = TRUE /\ Sound(l) /\ l.wire = <<>>
      BY <2>6, <3>1, <3>2
    <3>4. l.multi = FALSE /\ l.tx = "none"
      BY <2>4, <3>3, QuietMeans, LinkFields
    <3>5. op.cmd.name \in {"DATA", "NODE", "WATCH", "UNWATCH"}
      BY <1>0, <3>1 DEF Stepped, InCommand
    <3>6. Answering(s, fold, {}, FALSE, id)
      <4> DEFINE c == op.cmd  b == FALSE
      <4>2. c \in Command /\ c.name \in {"DATA", "NODE", "WATCH", "UNWATCH"} /\ b \in BOOLEAN /\ ~b /\ l.multi = b
        BY <1>0, <3>4, <3>5
      <4> HIDE DEF c, b
      <4>3. Answering(Served(n, l, c, refuse), fold, {}, b, c.id)
        BY <1>0, <2>4, <3>3, <3>4, <4>2, ServedAnswers
      <4>. QED BY <4>3 DEF s, c, b
    <3>7. Aimed'
      BY <1>0, <2>9, <3>1 DEF Aimed, InCommand, InExec
    <3>8. ASSUME NEW m \in Nodes PROVE NodeFits(m)'
      <4>1. CASE m = n
        BY <1>0, <1>2, <2>3, <2>7, <2>9, <3>1, <3>6, <4>1 DEF NodeFits
      <4>2. CASE m # n
        <5>1. Quiet(link'[m], fold, {}, FALSE)
          BY <2>7, <3>2, <4>2
        <5>. QED BY <1>0, <1>2, <2>3, <2>9, <3>1, <4>2, <5>1 DEF NodeFits, Fits
      <4>. QED BY <4>1, <4>2
    <3>. QED BY <3>7, <3>8
  <2>. QED BY <2>8, <2>9
<1>6. Agree'
  BY <1>5 DEF Agree
<1>. QED BY <1>3, <1>4, <1>6 DEF SafeInv

\* A node that could not be written to is closed; in a transaction it is the one that had MULTI.
LEMMA MissSafe ==
  ASSUME SafeInv, pc = "write", UNCHANGED <<table, redir, mode, fold, op>>, TypeInv',
         NEW k \in 1..3, NEW n \in Nodes, Miss(n, k)
  PROVE  SafeInv'
<1>0. /\ TypeInv /\ Stepped /\ ClusterTypes /\ LinkTypes /\ link \in [Nodes -> LinkType]
      /\ UNCHANGED <<mode, fold, refused, master, op, pos, ret, pc, cmdSock, cmdSlot>>
      /\ missed' = missed \cup {<<k, n>>} /\ missed' # {}
      /\ InExec = ~InCommand /\ InCommand \in BOOLEAN /\ \A m : Reading(m) = FALSE
  <2>1. /\ UNCHANGED <<mode, fold, refused, master, op, pos, ret, pc, cmdSock, cmdSlot>>
        /\ missed' = missed \cup {<<k, n>>}
    BY DEF table, Miss
  <2>. QED BY <2>1 DEF SafeInv, TypeInv, LinkTypes, OnTheWay, InExec, InCommand, Reading
<1>1. PICK o \in Readied(n, k) :
         ~o.ok /\ link' = [link EXCEPT ![n] = o.l] /\ torn' = torn \cup Late(o) \cup FellBack(n)
  BY DEF Miss
<1>3. Stepped'
  BY <1>0 DEF Stepped
<1>4. Replied'
  BY <1>0, <1>1 DEF SafeInv, Replied
<1>5. ASSUME torn' = {} PROVE Aimed' /\ \A m \in Nodes : NodeFits(m)'
  <2>0. torn = {} /\ FellBack(n) = {} /\ ~o.late
    BY <1>1, <1>5 DEF Late
  <2>1. Aimed /\ \A m \in Nodes : NodeFits(m)
    BY <2>0 DEF SafeInv, Agree
  <2>2. /\ InExec' = InExec /\ InCommand' = InCommand
        /\ \A m : /\ Reading(m)' = FALSE /\ Next1(m)' = Next1(m) /\ Left(m)' = (mode = "MULTI" /\ m = cmdSock)
                  /\ Items(m, 1)' = Items(m, 1) /\ Done(m)' = Done(m) /\ Accepted(m)' = Accepted(m)
    BY <1>0 DEF InExec, InCommand, OnTheWay, Reading, Items, Next1, Done, Accepted, Left
  <2>3. Aimed'
    BY <1>0, <2>1, <2>2 DEF Aimed
  <2>4. ASSUME Sound(link[n]), link[n].wire = <<>>
        PROVE  link'[n] = Closed /\ \A m \in Nodes \ {n} : link'[m] = link[m]
    <3>1. o.l = Closed
      BY <1>0, <1>1, <2>0, <2>4, ReadiedSays
    <3>. QED BY <1>0, <1>1, <3>1
  <2>5. Gone(Closed)
    BY NewLinksSound DEF Gone
  <2>6. CASE mode = "MULTI"
    <3>1. n = cmdSock /\ missed = {} /\ \A m : ~Left(m)
      BY <2>0, <2>6 DEF FellBack, Left
    <3>2. InExec => ~Done(n)
      BY <1>0, <2>1, <3>1 DEF Aimed
    <3>3. Sound(link[n]) /\ link[n].wire = <<>>
      BY <1>0, <2>1, <3>1, <3>2 DEF NodeFits, Fits, Quiet
    <3>4. link'[n] = Closed /\ \A m \in Nodes \ {n} : link'[m] = link[m]
      BY <2>4, <3>3
    <3>5. pc' = "write" /\ Left(n)' /\ (InExec' => ~Done(n)')
      BY <1>0, <2>2, <2>6, <3>1, <3>2
    <3>6. ASSUME NEW m \in Nodes PROVE NodeFits(m)'
      <4>1. CASE m = n
        BY <2>2, <2>5, <3>4, <3>5, <4>1 DEF NodeFits
      <4>2. CASE m # n
        BY <1>0, <2>1, <2>2, <3>1, <3>4, <4>2 DEF NodeFits, Fits
      <4>. QED BY <4>1, <4>2
    <3>. QED BY <2>3, <3>6
  <2>7. CASE mode # "MULTI"
    <3>1. mode = "ATOMIC" /\ fold = <<>> /\ InCommand /\ \A m : Items(m, 1) = {} /\ Next1(m) = FALSE
      <4>1. mode = "ATOMIC" /\ fold = <<>> /\ op.m # "exec"
        BY <1>0, <2>7 DEF TypeInv, CallTypes, Stepped, OnTheWay
      <4>. QED BY <4>1, NothingQueued DEF InCommand, OnTheWay, Next1
    <3>2. \A m \in Nodes : Quiet(link[m], fold, {}, FALSE)
      BY <2>0, <2>7, <3>1, AllQuietAtomic
    <3>3. \A m \in Nodes : Quiet(link'[m], fold, {}, FALSE)
      <4>1. Sound(link[n]) /\ link[n].wire = <<>>
        BY <3>2 DEF Quiet
      <4>. QED BY <2>4, <3>2, <4>1, NewQuiet
    <3>4. ASSUME NEW m \in Nodes PROVE NodeFits(m)'
      BY <1>0, <2>2, <2>7, <3>1, <3>3 DEF NodeFits, Fits
    <3>. QED BY <2>3, <3>4
  <2>. QED BY <2>6, <2>7
<1>6. Agree'
  BY <1>5 DEF Agree
<1>. QED BY <1>3, <1>4, <1>6 DEF SafeInv

LEMMA WriteSafe ==
  ASSUME SafeInv, Write, TypeInv'
  PROVE  SafeInv'
<1>0. pc = "write" /\ UNCHANGED <<cluster, table, redir, mode, fold, op>>
  BY DEF Write
<1>1. CASE \E k \in 1..3, n \in Nodes : (\E refuse \in BOOLEAN : WriteTo(n, k, refuse)) \/ Miss(n, k)
  BY <1>0, <1>1, WriteToSafe, MissSafe
<1>2. CASE NobodyToWriteTo
  <2>1. Fails(link, redir.type, {})
    BY <1>2 DEF NobodyToWriteTo
  <2>2. /\ TypeInv /\ Stepped /\ UNCHANGED <<mode, fold, master, op>> /\ link \in [Nodes -> LinkType]
        /\ \A m : ~Reading(m)
    BY <1>0 DEF SafeInv, TypeInv, LinkTypes, table, Reading
  <2>3. CASE op.m = "exec"
    <3>1. InExec /\ mode = "MULTI"
      BY <1>0, <2>2, <2>3 DEF InExec, OnTheWay, Stepped
    <3>2. ASSUME torn = {}, Split = {}, NEW m \in Nodes PROVE Aborting(link[m], Items(m, 1))
      BY <2>2, <3>1, <3>2, OthersAbort
    <3>. QED BY <2>1, <2>2, <2>3, <3>1, <3>2, FailsExecSafe
  <2>4. CASE op.m # "exec"
    <3>1. InCommand /\ ~InExec
      BY <1>0, <2>4 DEF InCommand, OnTheWay, InExec
    <3>2. ASSUME torn = {}, NEW m \in Nodes PROVE Loose(link[m], fold, Items(m, 1))
      <4>0. NodeFits(m) /\ link[m] \in LinkType
        BY <2>2, <3>2 DEF SafeInv, Agree
      <4>1. CASE Left(m)
        BY <4>0, <4>1 DEF NodeFits, Gone, Loose
      <4>2. CASE ~Left(m)
        <5>1. Quiet(link[m], fold, Items(m, 1), Next1(m)) /\ Next1(m) \in BOOLEAN
          BY <1>0, <2>2, <3>1, <4>0, <4>2 DEF NodeFits, Fits, Next1
        <5>. QED BY <4>0, <5>1, QuietIsLoose
      <4>. QED BY <4>1, <4>2
    <3>. QED BY <2>1, <2>2, <2>4, <3>2, FailsSafe
  <2>. QED BY <2>3, <2>4
<1>. QED BY <1>0, <1>1, <1>2 DEF Write

-----------------------------------------------------------------------------
(* An answer is read. *)

\* The connection without the first of its replies.
Shorter(l) == [l EXCEPT !.wire = Tail(@)]

LEMMA ReadsSay ==
  ASSUME NEW n \in Nodes, link[n] \in LinkType, NEW o \in Reads(n)
  PROVE  \/ /\ link[n].wire = <<>> /\ o.r.kind = "lost" /\ o.late = FALSE
            /\ o.l = (IF link[n].eof THEN Closed ELSE link[n])
         \/ /\ link[n].wire # <<>> /\ o.late = FALSE /\ o.l = Shorter(link[n])
            /\ IF link[n].wire[1].kind = "rest" THEN o.r.kind = "lost" ELSE o.r = link[n].wire[1]
         \/ o.late = TRUE /\ o.r.kind = "lost" /\ o.l = link[n]
<1> DEFINE l == link[n]
           a == [r |-> NoReply, l |-> IF l.eof THEN Closed ELSE l, late |-> FALSE]
           b == [r |-> IF Head(l.wire).kind = "rest" THEN NoReply ELSE Head(l.wire),
                 l |-> [l EXCEPT !.wire = Tail(l.wire)], late |-> FALSE]
           c == [r |-> NoReply, l |-> l, late |-> TRUE]
<1>1. \/ l.wire = <<>> /\ o = a
      \/ l.wire # <<>> /\ o = b
      \/ o = c
  BY DEF Reads
<1>2. NoReply.kind = "lost"
  BY DEF NoReply
<1>3. CASE l.wire = <<>> /\ o = a
  BY <1>2, <1>3
<1>4. CASE l.wire # <<>> /\ o = b
  <2>1. l.wire \in Seq(Replies)
    BY LinkFields
  <2> DEFINE w == l.wire  m == [l EXCEPT !.wire = Tail(l.wire)]
  <2>2. w \in Seq(Replies) /\ w # <<>>
    BY <1>4, <2>1
  <2> HIDE DEF w
  <2>3. Head(w) = w[1]
    BY <2>2
  <2> HIDE DEF m
  <2>4. o.late = FALSE /\ o.l = m /\ o.r = (IF Head(w).kind = "rest" THEN NoReply ELSE Head(w))
    BY <1>4 DEF m, w
  <2>. QED BY <1>2, <1>4, <2>3, <2>4 DEF m, w, Shorter
<1>5. CASE o = c
  BY <1>2, <1>5
<1>. QED BY <1>1, <1>3, <1>4, <1>5

LEMMA ShorterSays ==
  ASSUME NEW l \in LinkType, l.wire # <<>>
  PROVE  LET k == Shorter(l) IN
         /\ k.open = l.open /\ k.multi = l.multi /\ k.eof = l.eof /\ k.tx = l.tx /\ k.queue = l.queue
         /\ k.wire = Tail(l.wire) /\ k \in LinkType /\ (Sound(l) => Sound(k))
         /\ Len(l.wire) = 1 => k.wire = <<>>
<1> DEFINE k == Shorter(l)  w == l.wire
<1>1. w \in Seq(Replies) /\ w # <<>>
  BY LinkFields
<1>2. k = [l EXCEPT !.wire = Tail(w)]
  BY DEF Shorter
<1> HIDE DEF w, k
<1>3. Tail(w) \in Seq(Replies)
  BY <1>1
<1>4. Len(w) = 1 => Tail(w) = <<>>
  <2>1. Len(Tail(w)) = Len(w) - 1
    BY <1>1
  <2> DEFINE t == Tail(w)
  <2>2. t \in Seq(Replies) /\ (Len(w) = 1 => Len(t) = 0)
    BY <1>3, <2>1
  <2> HIDE DEF t
  <2>3. Len(w) = 1 => t = <<>>
    BY <2>2
  <2>. QED BY <2>3 DEF t
<1>5. k \in LinkType
  BY <1>2, <1>3, LinkChanges
<1>6. /\ k.open = l.open /\ k.multi = l.multi /\ k.eof = l.eof /\ k.tx = l.tx /\ k.queue = l.queue
      /\ k.wire = Tail(w)
  BY <1>2 DEF LinkType
<1>7. Sound(l) => Sound(k)
  BY <1>1, <1>6 DEF Sound, w
<1>. QED BY <1>4, <1>5, <1>6, <1>7 DEF w, k

\* What a read of the answer gives, and what it leaves.
AnswerRead(o, q, S, b, id) ==
  /\ o.l \in LinkType
  /\ o.r.kind \in Good => /\ o.r.for = id /\ o.r.kind \in Kinds
                          /\ Sound(o.l) /\ o.l.wire = <<>> /\ o.l.multi = b
                          /\ b => /\ o.l.tx # "none"
                                  /\ \E ids \in Seq(Nat) : QueueIds(o.l.queue) = Append(ids, id) /\ Lists(ids, q, S)
  /\ o.r.kind \notin Good /\ ~o.late => Loose(o.l, q, S)
  /\ o.r.kind # "lost" /\ ~b => Quiet(o.l, q, S, FALSE)

LEMMA AnswerReadSays ==
  ASSUME TypeInv, NEW n \in Nodes, NEW o \in Reads(n), NEW q, NEW S, NEW b \in BOOLEAN, NEW id \in Nat,
         Answering(link[n], q, S, b, id)
  PROVE  AnswerRead(o, q, S, b, id)
<1> DEFINE l == link[n]  k == o.l
<1>1. l \in LinkType /\ o.l \in LinkType
  <2>1. LinkTypes /\ ClusterTypes
    BY DEF TypeInv
  <2>. QED BY <2>1, ReadsType DEF LinkTypes
<1>2. /\ Sound(l) /\ l.multi = b /\ (S # {} => b)
      /\ l.tx # "none" => l.multi /\ l.wire # <<>>
      /\ l.multi => l.tx # "none" \/ l.eof
      /\ l.wire # <<>> =>
           /\ Len(l.wire) = 1 /\ l.wire[1].for = id /\ l.wire[1].kind \notin {"rest", "array"}
           /\ b /\ l.wire[1].kind \in Good => l.wire[1].kind = "queued"
           /\ b => IF l.wire[1].kind = "queued"
                   THEN \E ids \in Seq(Nat) : QueueIds(l.queue) = Append(ids, id) /\ Lists(ids, q, S)
                   ELSE Lists(QueueIds(l.queue), q, S)
  BY DEF Answering
<1>3. "lost" \notin Good
  BY DEF Good
<1>4. CASE l.wire = <<>> /\ o.r.kind = "lost" /\ o.late = FALSE /\ o.l = (IF l.eof THEN Closed ELSE l)
  <2>1. Loose(o.l, q, S)
    <3>1. CASE l.eof
      BY <1>4, <3>1, QuietIsLoose, NewLinks
    <3>2. CASE ~l.eof
      BY <1>2, <1>4, <3>2 DEF Loose
    <3>. QED BY <3>1, <3>2
  <2>. QED BY <1>1, <1>3, <1>4, <2>1 DEF AnswerRead
<1>5. CASE /\ l.wire # <<>> /\ o.late = FALSE /\ o.l = Shorter(l)
           /\ IF l.wire[1].kind = "rest" THEN o.r.kind = "lost" ELSE o.r = l.wire[1]
  <2>1. o.r = l.wire[1] /\ Len(l.wire) = 1
    BY <1>2, <1>5
  <2>2. l.open /\ ~l.eof
    BY <1>2, <1>5 DEF Sound
  <2>3. o.r \in Reply
    <3>1. l.wire \in Seq(Replies)
      BY <1>1, LinkFields
    <3> DEFINE w == l.wire
    <3> HIDE DEF w
    <3>2. w[1] \in Replies
      BY <2>1, <3>1 DEF w
    <3>. QED BY <2>1, <3>2 DEF Replies, w
  <2> HIDE DEF k, l
  <2>4. /\ k.open = l.open /\ k.multi = l.multi /\ k.eof = l.eof /\ k.tx = l.tx /\ k.queue = l.queue
        /\ k.wire = <<>> /\ Sound(k)
    <3>1. k = Shorter(l) /\ l.wire # <<>>
      BY <1>5 DEF k
    <3>. QED BY <1>1, <1>2, <2>1, <3>1, ShorterSays
  <2>5. o.r.kind \in Good =>
          /\ o.r.for = id /\ o.r.kind \in Kinds
          /\ b => /\ k.tx # "none"
                  /\ \E ids \in Seq(Nat) : QueueIds(k.queue) = Append(ids, id) /\ Lists(ids, q, S)
    BY <1>2, <1>5, <2>1, <2>2, <2>3, <2>4 DEF Reply
  <2>6. o.r.kind \notin Good => Loose(k, q, S)
    <3>1. o.r.kind \notin Good => o.r.kind # "queued"
      BY DEF Good
    <3>. QED BY <1>2, <1>5, <2>1, <2>2, <2>4, <3>1 DEF Loose
  <2>7. ~b => Quiet(k, q, S, FALSE)
    BY <1>2, <2>4 DEF Quiet
  <2>. QED BY <1>1, <1>2, <1>5, <2>4, <2>5, <2>6, <2>7 DEF AnswerRead, k
<1>6. CASE o.late = TRUE /\ o.r.kind = "lost" /\ o.l = l
  BY <1>1, <1>3, <1>6 DEF AnswerRead
<1>. QED BY <1>1, <1>4, <1>5, <1>6, ReadsSay

\* A command that MULTI queued is one item more, for the node that has it.
LEMMA OneMoreItem ==
  ASSUME TypeInv, NEW x \in [id : Nat, slot : Slots], fold' = Append(fold, x), master' = master, NEW n \in Nodes
  PROVE  /\ Len(fold) \in Nat /\ fold'[Len(fold) + 1] = x
         /\ Items(n, 1) \in SUBSET Nat /\ \A j \in Items(n, 1) : j < Len(fold) + 1 /\ fold'[j] = fold[j]
         /\ Items(n, 1)' = IF master[x.slot] = n THEN Items(n, 1) \cup {Len(fold) + 1} ELSE Items(n, 1)
<1> DEFINE T == [id : Nat, slot : Slots]  L == Len(fold)
<1>1. fold \in Seq(T) /\ x \in T
  BY DEF TypeInv, CallTypes
<1> HIDE DEF T
<1>2. L \in Nat /\ Len(fold') = L + 1 /\ fold'[L + 1] = x /\ \A i \in 1..L : fold'[i] = fold[i]
  BY <1>1
<1> HIDE DEF L
<1>3. 1..(L + 1) = 1..L \cup {L + 1}
  BY <1>2
<1>4. Items(n, 1) = {i \in 1..L : master[fold[i].slot] = n}
  BY DEF Items, L
<1>5. Items(n, 1)' = {i \in 1..(L + 1) : master[fold'[i].slot] = n}
  BY <1>2 DEF Items
<1>6. Items(n, 1)' = IF master[x.slot] = n THEN Items(n, 1) \cup {L + 1} ELSE Items(n, 1)
  <2>1. \A i \in 1..L : master[fold'[i].slot] = master[fold[i].slot]
    BY <1>2
  <2>2. master[fold'[L + 1].slot] = master[x.slot]
    BY <1>2
  <2> DEFINE q == fold'  r == fold
  <2> HIDE DEF q, r
  <2>3. /\ \A i \in 1..L : master[q[i].slot] = master[r[i].slot]
        /\ master[q[L + 1].slot] = master[x.slot]
    BY <2>1, <2>2 DEF q, r
  <2>4. {i \in 1..(L + 1) : master[q[i].slot] = n} =
          IF master[x.slot] = n THEN {i \in 1..L : master[r[i].slot] = n} \cup {L + 1}
          ELSE {i \in 1..L : master[r[i].slot] = n}
    BY <1>3, <2>3
  <2>. QED BY <1>4, <1>5, <2>4 DEF q, r
<1>7. Items(n, 1) \in SUBSET Nat /\ \A j \in Items(n, 1) : j < L + 1 /\ fold'[j] = fold[j]
  BY <1>2, <1>4
<1>. QED BY <1>2, <1>6, <1>7 DEF L

LEMMA HandsSafe ==
  ASSUME SafeInv, TypeInv', pc = "read", op.m \notin {"exec", "unwatch"}, cmdSock \in Nodes, NEW o \in Reads(cmdSock),
         o.r.kind \in Good, Hands(o), UNCHANGED <<mode, op>>, torn \subseteq torn', NEW ls, ls = [link EXCEPT ![cmdSock] = o.l],
         \A m \in Nodes : Alike(ls[m], link'[m])
  PROVE  SafeInv'
<1> DEFINE n == cmdSock  b == mode = "MULTI"  id == op.cmd.id  S == Items(n, 1)
           x == [id |-> id, slot |-> op.slot]
<1>0. /\ TypeInv /\ Stepped /\ link \in [Nodes -> LinkType] /\ InCommand /\ Reading(n) /\ ~InExec
      /\ id \in Nat /\ op.slot \in Slots /\ link' \in [Nodes -> LinkType] /\ b \in BOOLEAN
  <2>1. pc \in OnTheWay /\ pc' = "idle"
    BY DEF OnTheWay, Hands, Returns
  <2>. QED BY <2>1 DEF SafeInv, TypeInv, LinkTypes, CallShape, CallTypes, Op, Command, InCommand, InExec, Reading
<1>1. /\ fold' = IF b THEN Append(fold, x) ELSE fold
      /\ pc' = "idle" /\ ret' = IF b THEN <<>> ELSE <<Answered(id, o.r)>>
      /\ master' = master /\ torn \subseteq torn'
  BY DEF Hands, Returns, table
<1>2. Stepped'
  BY <1>0, <1>1 DEF Stepped, OnTheWay, TypeInv, CallTypes
<1>3. torn = {} => AnswerRead(o, fold, S, b, id)
  <2> SUFFICES ASSUME torn = {} PROVE AnswerRead(o, fold, S, b, id)
    OBVIOUS
  <2>1. Answering(link[n], fold, S, b, id)
    BY <1>0 DEF SafeInv, Agree, NodeFits
  <2> HIDE DEF S, b, id
  <2>. QED BY <1>0, <2>1, AnswerReadSays
<1>4. Replied'
  <2> SUFFICES ASSUME torn = {} PROVE ret' \in Seq(Answers)
    BY <1>1 DEF Replied
  <2>1. o.r.for = id /\ o.r.kind \in Kinds
    BY <1>3 DEF AnswerRead
  <2>2. Answered(id, o.r) \in Answers
    BY <1>0, <2>1 DEF Answered, Answers
  <2> HIDE DEF b, id
  <2>. QED BY <1>1, <2>2
<1>5. Agree'
  <2> SUFFICES ASSUME torn = {} PROVE Agree'
    BY <1>1 DEF Agree
  <2>1. AnswerRead(o, fold, S, b, id)
    BY <1>3
  <2>2. ls \in [Nodes -> LinkType] /\ ls[n] = o.l /\ \A m \in Nodes \ {n} : ls[m] = link[m]
    BY <1>0, <2>1 DEF AnswerRead
  <2>3. \A m \in Nodes \ {n} : Quiet(ls[m], fold, Items(m, 1), FALSE)
    BY <1>0, <2>2, OthersQuiet
  <2>4. ASSUME NEW m \in Nodes PROVE Quiet(ls[m], fold', Items(m, 1)', FALSE)
    <3>1. CASE ~b
      <4>1. Items(m, 1)' = Items(m, 1) /\ fold' = fold
        BY <1>1, <3>1 DEF Items
      <4>2. o.r.kind # "lost"
        BY DEF Good
      <4>3. Quiet(o.l, fold, S, FALSE)
        BY <2>1, <3>1, <4>2 DEF AnswerRead
      <4>. QED BY <2>2, <2>3, <4>1, <4>3
    <3>2. CASE b
      <4>1. x \in [id : Nat, slot : Slots] /\ fold' = Append(fold, x) /\ x.id = id /\ x.slot = op.slot
        BY <1>0, <1>1, <3>2
      <4>2. master[op.slot] = n
        BY <1>0, <3>2 DEF SafeInv, Agree, Aimed
      <4>3. /\ Len(fold) \in Nat /\ fold'[Len(fold) + 1] = x
            /\ Items(m, 1) \in SUBSET Nat /\ \A j \in Items(m, 1) : j < Len(fold) + 1 /\ fold'[j] = fold[j]
            /\ Items(m, 1)' = IF master[x.slot] = m THEN Items(m, 1) \cup {Len(fold) + 1} ELSE Items(m, 1)
        <5> HIDE DEF x
        <5>. QED BY <1>0, <1>1, <4>1, OneMoreItem
      <4> HIDE DEF x
      <4>4. CASE m # n
        <5>1. Items(m, 1)' = Items(m, 1)
          BY <4>1, <4>2, <4>3, <4>4
        <5>2. Quiet(ls[m], fold, Items(m, 1), FALSE)
          BY <2>3, <4>4
        <5>3. ls[m].tx # "none" => Lists(QueueIds(ls[m].queue), fold', Items(m, 1))
          <6> SUFFICES ASSUME ls[m].tx # "none" PROVE Lists(QueueIds(ls[m].queue), fold', Items(m, 1))
            OBVIOUS
          <6>1. Lists(QueueIds(ls[m].queue), fold, Items(m, 1))
            BY <5>2 DEF Quiet
          <6>2. \A j \in Items(m, 1) : fold'[j].id = fold[j].id
            BY <4>3
          <6>. QED BY <6>1, <6>2, ListsOf
        <5>. QED BY <5>1, <5>2, <5>3 DEF Quiet
      <4>5. CASE m = n
        <5>1. S = Items(m, 1) /\ Items(m, 1)' = S \cup {Len(fold) + 1}
          BY <4>1, <4>2, <4>3, <4>5
        <5>2. PICK ids \in Seq(Nat) : QueueIds(o.l.queue) = Append(ids, id) /\ Lists(ids, fold, S)
          BY <2>1, <3>2 DEF AnswerRead
        <5>3. Lists(Append(ids, id), fold', S \cup {Len(fold) + 1})
          <6> DEFINE i == Len(fold) + 1
          <6>1. \A j \in S : fold'[j].id = fold[j].id
            BY <4>3, <5>1
          <6>2. Lists(ids, fold', S)
            BY <5>2, <6>1, ListsOf
          <6>3. S \in SUBSET Nat /\ i \in Nat /\ (\A j \in S : j < i) /\ fold'[i].id = id /\ id \in Nat
            BY <1>0, <4>1, <4>3, <5>1
          <6> HIDE DEF i, S, id
          <6>. QED BY <5>2, <6>2, <6>3, ListsMore DEF i
        <5>4. Sound(o.l) /\ o.l.wire = <<>> /\ o.l.multi = TRUE /\ o.l.tx # "none"
          BY <2>1, <3>2 DEF AnswerRead
        <5>. QED BY <2>2, <4>5, <5>1, <5>2, <5>3, <5>4 DEF Quiet
      <4>. QED BY <4>4, <4>5
    <3>. QED BY <3>1, <3>2
  <2>5. ASSUME NEW m \in Nodes PROVE Quiet(link'[m], fold', Items(m, 1)', FALSE)
    <3> DEFINE q == fold'  I == Items(m, 1)'  l == ls[m]  k == link'[m]  no == FALSE
    <3>1. Quiet(l, q, I, no) /\ l \in LinkType /\ k \in LinkType /\ Alike(l, k) /\ no \in BOOLEAN
      BY <1>0, <2>2, <2>4
    <3> HIDE DEF q, I, l, k, no
    <3>2. \A i \in Nat : FitsAsWell(l, k, q, I, no, no, i)
      BY <3>1, AlikeFits
    <3>3. FitsAsWell(l, k, q, I, no, no, 0)
      BY <3>2
    <3>4. Quiet(k, q, I, no)
      BY <3>1, <3>3 DEF FitsAsWell
    <3>. QED BY <3>4 DEF q, I, k, no
  <2>. QED BY <1>1, <2>5, QuietAgrees
<1>. QED BY <1>2, <1>4, <1>5 DEF SafeInv

\* Mapped anew, the table has no connection left.
NoLinks == [n \in Nodes |-> Closed]

\* What becomes of the call when a redirection is followed.
FollowGoesOn(ls) ==
  /\ link' = ls \/ link' = NoLinks
  /\ pc' \in {"asking", "write"} /\ torn' = torn \cup WatchMoved
  /\ UNCHANGED <<pos, ret, guarded, stale>>
FollowGivesUp(ls) ==
  /\ \/ UNCHANGED table /\ Fails(ls, "MOVED", {})
     \/ Fails(NoLinks, "MOVED", {})
  /\ UNCHANGED cmdSock

LEMMA FollowEnds ==
  ASSUME NEW r, master[r.slot] # None, NEW ls, FollowMoved(r, ls) \/ FollowAsk(r, ls)
  PROVE  FollowGoesOn(ls) \/ FollowGivesUp(ls)
<1>1. ASSUME NEW type, GoesRound(type), link' = ls \/ link' = NoLinks PROVE FollowGoesOn(ls)
  BY <1>1 DEF GoesRound, Sending, FollowGoesOn
<1>2. CASE FollowAsk(r, ls)
  BY <1>1, <1>2 DEF FollowAsk
<1>3. ASSUME ToItsMaster, link' = ls \/ link' = NoLinks PROVE FollowGoesOn(ls)
  BY <1>1, <1>3 DEF ToItsMaster
<1>4. ASSUME MappingFails(ls), UNCHANGED cmdSock PROVE FollowGivesUp(ls)
  BY <1>4 DEF MappingFails, FollowGivesUp, NoLinks
<1>5. Mapped => link' = NoLinks
  BY DEF Mapped, NoLinks
<1>6. CASE FollowMoved(r, ls)
  <2>1. CASE UNCHANGED table /\ link' = ls /\ ToItsMaster
    BY <1>3, <2>1
  <2>2. CASE Mapped /\ ToItsMaster
    BY <1>3, <1>5, <2>2
  <2>3. CASE MappingFails(ls) /\ UNCHANGED cmdSock
    BY <1>4, <2>3
  <2>4. CASE Fails(ls, "MOVED", {}) /\ UNCHANGED <<table, cmdSock>>
    BY <2>4 DEF FollowGivesUp
  <2>5. CASE Points(r, nodes \cup {r.to}) /\ link' = ls /\ ToItsMaster
    BY <1>3, <2>5
  <2>. QED BY <1>6, <2>1, <2>2, <2>3, <2>4, <2>5 DEF FollowMoved, UpdateSlot
<1>. QED BY <1>2, <1>6

\* A redirection is followed outside a transaction, where every connection is quiet.
LEMMA FollowsSafe ==
  ASSUME SafeInv, TypeInv', pc = "read", op.m # "exec", mode = "ATOMIC", cmdSock \in Nodes, NEW o \in Reads(cmdSock),
         o.r.kind \in {"moved", "ask"}, NEW ls, ls = [link EXCEPT ![cmdSock] = o.l],
         FollowGoesOn(ls) \/ FollowGivesUp(ls), UNCHANGED <<mode, fold, op, missed>>
  PROVE  SafeInv'
<1> DEFINE n == cmdSock  id == op.cmd.id
<1>0. /\ TypeInv /\ Stepped /\ link \in [Nodes -> LinkType] /\ InCommand /\ Reading(n) /\ ~InExec
      /\ id \in Nat /\ fold = <<>> /\ pc \in OnTheWay /\ missed = {}
      /\ \A m : Items(m, 1) = {} /\ ~Left(m)
  <2>1. pc \in OnTheWay
    BY DEF OnTheWay
  <2>2. fold = <<>> /\ missed = {}
    BY DEF SafeInv, TypeInv, Stepped, CallShape
  <2>. QED BY <2>1, <2>2, NothingQueued DEF SafeInv, TypeInv, LinkTypes, CallTypes, Op, Command, InCommand,
              InExec, Reading, Left
<1>1. link[n] \in LinkType /\ ls \in [Nodes -> LinkType]
  <2>1. o.l \in LinkType
    BY <1>0, ReadsType DEF TypeInv
  <2>. QED BY <1>0, <2>1
<1>2. ASSUME torn = {} PROVE \A m \in Nodes : Quiet(ls[m], fold, {}, FALSE)
  <2>1. AnswerRead(o, fold, {}, FALSE, id)
    <3> DEFINE no == FALSE
    <3>1. no \in BOOLEAN /\ Answering(link[n], fold, {}, no, id)
      BY <1>0, <1>2 DEF SafeInv, Agree, NodeFits
    <3> HIDE DEF no, id
    <3>2. AnswerRead(o, fold, {}, no, id)
      BY <1>0, <3>1, AnswerReadSays
    <3>. QED BY <3>2 DEF no
  <2>2. Quiet(o.l, fold, {}, FALSE) /\ o.l \in LinkType
    BY <2>1 DEF AnswerRead
  <2>3. \A m \in Nodes \ {n} : Quiet(link[m], fold, {}, FALSE)
    BY <1>0, <1>2, OthersQuiet
  <2>. QED BY <1>0, <2>2, <2>3
<1>3. CASE FollowGoesOn(ls)
  <2>0. /\ pc' \in {"asking", "write"} /\ pc' \in OnTheWay /\ torn \subseteq torn' /\ ret' = ret
        /\ link' = ls \/ link' = NoLinks
    BY <1>3 DEF FollowGoesOn, OnTheWay
  <2>1. Stepped'
    BY <1>0, <2>0 DEF Stepped, OnTheWay
  <2>2. Replied'
    BY <2>0 DEF SafeInv, Replied
  <2>3. Agree'
    <3> SUFFICES ASSUME torn = {} PROVE Aimed' /\ \A m \in Nodes : NodeFits(m)'
      BY <2>0 DEF Agree
    <3>1. /\ ~InExec' /\ InCommand'
          /\ \A m : Items(m, 1)' = {} /\ ~Reading(m)' /\ Next1(m)' = FALSE /\ ~Left(m)'
      <4>1. 1..Len(<<>>) = {}
        BY EmptySeq
      <4>. QED BY <1>0, <2>0, <4>1 DEF InExec, InCommand, Reading, Next1, Items, OnTheWay, Left
    <3>2. Aimed'
      BY <3>1 DEF Aimed
    <3>3. \A m \in Nodes : Quiet(link'[m], fold, {}, FALSE)
      BY <1>2, <2>0, NewQuiet DEF NoLinks
    <3>4. \A m \in Nodes : NodeFits(m)'
      BY <1>0, <2>0, <3>1, <3>3 DEF NodeFits, Fits
    <3>. QED BY <3>2, <3>4
  <2>. QED BY <2>1, <2>2, <2>3 DEF SafeInv
<1>4. CASE FollowGivesUp(ls)
  <2>1. ASSUME NEW k \in [Nodes -> LinkType], Fails(k, "MOVED", {}), k = ls \/ k = NoLinks
        PROVE  SafeInv'
    <3>1. torn = {} => \A m \in Nodes : Loose(k[m], fold, Items(m, 1))
      <4> SUFFICES ASSUME torn = {}, NEW m \in Nodes PROVE Loose(k[m], fold, {})
        BY <1>0
      <4>1. Quiet(k[m], fold, {}, FALSE)
        BY <1>2, <2>1, NewQuiet DEF NoLinks
      <4>. QED BY <4>1, QuietIsLoose
    <3>. QED BY <1>0, <2>1, <3>1, FailsSafe
  <2>2. NoLinks \in [Nodes -> LinkType]
    BY NewLinks DEF NoLinks
  <2>. QED BY <1>1, <1>4, <2>1, <2>2 DEF FollowGivesUp
<1>. QED BY <1>3, <1>4

\* What cluster_check_response makes of a reply.
ReadAs(o, ls) ==
  \/ op.m # "unwatch" /\ o.r.kind \in Good /\ (SlotSucceeded(o, ls) \/ Succeeded(o, ls))
  \/ op.m = "unwatch" /\ o.r.kind \in {"ok", "queued"} /\ UnwatchAnswered(o, ls)
  \/ SlotFailed(o, ls) /\ (o.r.kind \notin Good \/ (op.m = "unwatch" /\ o.r.kind \notin {"ok", "queued"}))
  \/ op.m # "unwatch" /\ o.r.kind \in {"moved", "ask"} /\ Redirected(o, ls)
  \/ op.m = "watch" /\ WatchRefused(o, ls)
  \/ o.r.kind \notin Good /\ op.m # "unwatch" /\ Failed(o, ls)

LEMMA ReadCases ==
  ASSUME Read
  PROVE  op.m # "exec" /\ \E o \in Reads(cmdSock) : ReadAs(o, [link EXCEPT ![cmdSock] = o.l])
<1>0. op.m # "exec"
  BY DEF Read
<1>1. PICK o \in Reads(cmdSock) :
       LET ls == [link EXCEPT ![cmdSock] = o.l] IN
       CASE op.m = "directed" /\ o.r.kind \in Good             -> SlotSucceeded(o, ls)
         [] op.m = "unwatch" /\ o.r.kind \in {"ok", "queued"}  -> UnwatchAnswered(o, ls)
         [] \/ op.m = "directed" /\ o.r.kind \notin Good
            \/ op.m = "unwatch" /\ o.r.kind \notin {"ok", "queued"} -> SlotFailed(o, ls)
         [] ~IsDirect /\ o.r.kind \in Good                    -> Succeeded(o, ls)
         [] ~IsDirect /\ o.r.kind \in {"moved", "ask"}        -> Redirected(o, ls)
         [] op.m = "watch" /\ o.r.kind = "error"              -> WatchRefused(o, ls)
         [] OTHER                                             -> Failed(o, ls)
  BY DEF Read
<1> DEFINE ls == [link EXCEPT ![cmdSock] = o.l]
<1>2. ReadAs(o, ls)
  <2> HIDE DEF ls
  <2>1. /\ "moved" \notin Good /\ "ask" \notin Good /\ "error" \notin Good
        /\ ~IsDirect <=> op.m \notin {"directed", "unwatch"}
    BY <1>0 DEF Good, IsDirect
  <2> DEFINE D == op.m = "directed"  U == op.m = "unwatch"  W == op.m = "watch"
             good == o.r.kind \in Good  ok == o.r.kind \in {"ok", "queued"}
             moved == o.r.kind \in {"moved", "ask"}  err == o.r.kind = "error"
  <2>2. (CASE D /\ good -> SlotSucceeded(o, ls)
           [] U /\ ok -> UnwatchAnswered(o, ls)
           [] (D /\ ~good) \/ (U /\ ~ok) -> SlotFailed(o, ls)
           [] ~IsDirect /\ good -> Succeeded(o, ls)
           [] ~IsDirect /\ moved -> Redirected(o, ls)
           [] W /\ err -> WatchRefused(o, ls)
           [] OTHER -> Failed(o, ls))
    BY <1>1 DEF ls
  <2>3. /\ D => ~U /\ ~W
        /\ ~IsDirect <=> ~D /\ ~U
    BY <2>1
  <2> HIDE DEF D, U, W, good, ok, moved, err
  <2>4. \/ D /\ good /\ SlotSucceeded(o, ls)
        \/ U /\ ok /\ UnwatchAnswered(o, ls)
        \/ ((D /\ ~good) \/ (U /\ ~ok)) /\ SlotFailed(o, ls)
        \/ ~IsDirect /\ good /\ Succeeded(o, ls)
        \/ ~IsDirect /\ moved /\ Redirected(o, ls)
        \/ W /\ err /\ WatchRefused(o, ls)
        \/ ~(D \/ U) /\ ~good /\ Failed(o, ls)
    BY <2>2, <2>3, Zenon
  <2>. QED BY <2>3, <2>4 DEF ReadAs, D, U, W, good, ok, moved, err
<1>. QED BY <1>0, <1>2

\* cluster_check_response, outside exec().
LEMMA ReadSafe ==
  ASSUME SafeInv, Read, TypeInv'
  PROVE  SafeInv'
<1> DEFINE n == cmdSock  id == op.cmd.id  b == mode = "MULTI"  S == Items(n, 1)
<1>0. /\ pc = "read" /\ op.m # "exec" /\ pc \in OnTheWay /\ n \in Nodes
      /\ TypeInv /\ Stepped /\ link \in [Nodes -> LinkType] /\ link' \in [Nodes -> LinkType]
      /\ InCommand /\ Reading(n) /\ ~InExec /\ id \in Nat /\ b \in BOOLEAN
      /\ UNCHANGED <<cluster, mode, refused, cmdSlot, missed, op, effects>>
  <2>1. pc = "read" /\ op.m # "exec" /\ UNCHANGED <<cluster, mode, refused, cmdSlot, missed, op, effects>>
    BY DEF Read
  <2>2. pc \in OnTheWay
    BY <2>1 DEF OnTheWay
  <2>. QED BY <2>1, <2>2 DEF SafeInv, TypeInv, LinkTypes, CallShape, CallTypes, Op, Command, InCommand, InExec, Reading
<1>1. PICK o \in Reads(cmdSock) : ReadAs(o, [link EXCEPT ![cmdSock] = o.l])
  BY ReadCases
<1> DEFINE ls == [link EXCEPT ![cmdSock] = o.l]
<1>2. o.l \in LinkType /\ ls \in [Nodes -> LinkType] /\ ls[n] = o.l /\ \A m \in Nodes \ {n} : ls[m] = link[m]
  <2>1. LinkTypes /\ ClusterTypes
    BY <1>0 DEF TypeInv
  <2>2. o.l \in LinkType
    BY <1>0, <2>1, ReadsType
  <2>. QED BY <1>0, <2>2
<1>3. torn = {} => /\ AnswerRead(o, fold, S, b, id)
                   /\ \A m \in Nodes \ {n} : Quiet(link[m], fold, Items(m, 1), FALSE)
  <2> SUFFICES ASSUME torn = {}
               PROVE  /\ AnswerRead(o, fold, S, b, id)
                      /\ \A m \in Nodes \ {n} : Quiet(link[m], fold, Items(m, 1), FALSE)
    OBVIOUS
  <2>1. Answering(link[n], fold, S, b, id)
    BY <1>0 DEF SafeInv, Agree, NodeFits
  <2>2. \A m \in Nodes \ {n} : Quiet(link[m], fold, Items(m, 1), FALSE)
    BY <1>0, OthersQuiet
  <2> HIDE DEF S, b, id
  <2>. QED BY <1>0, <2>1, <2>2, AnswerReadSays
<1> HIDE DEF ls
\* After a failure: the connections that are left.
<1>5. ASSUME torn = {}, o.r.kind \notin Good, NEW k, (~o.late /\ k = ls) \/ k = [ls EXCEPT ![cmdSock] = Closed],
             NEW m \in Nodes
      PROVE  Loose(k[m], fold, Items(m, 1))
  <2>1. CASE m = n
    <3>1. k[m] = Closed \/ (~o.late /\ k[m] = o.l)
      BY <1>0, <1>2, <1>5, <2>1
    <3>2. ~o.late => Loose(o.l, fold, S)
      BY <1>3, <1>5 DEF AnswerRead
    <3>. QED BY <2>1, <3>1, <3>2, QuietIsLoose, NewLinks
  <2>2. CASE m # n
    <3>1. k[m] = link[m]
      BY <1>0, <1>2, <1>5, <2>2
    <3>2. Quiet(link[m], fold, Items(m, 1), FALSE)
      BY <1>3, <1>5, <2>2
    <3>. QED BY <1>0, <3>1, <3>2, QuietIsLoose
  <2>. QED BY <2>1, <2>2
<1>6. CASE op.m # "unwatch" /\ o.r.kind \in Good /\ (SlotSucceeded(o, ls) \/ Succeeded(o, ls))
  <2>1. Hands(o) /\ UNCHANGED <<mode, op>> /\ torn \subseteq torn'
    BY <1>0, <1>6 DEF SlotSucceeded, Succeeded
  <2>2. link' = ls \/ link' = [ls EXCEPT ![master[op.slot]].watching = TRUE]
    BY <1>6 DEF SlotSucceeded, Succeeded
  <2>3. \A m \in Nodes : Alike(ls[m], link'[m])
    <3>1. \A m \in Nodes : /\ link'[m] = ls[m] \/ link'[m] = [ls[m] EXCEPT !.watching = TRUE]
      BY <1>2, <2>2
    <3>2. \A l \in LinkType : Alike(l, l) /\ Alike(l, [l EXCEPT !.watching = TRUE])
      BY DEF Alike, LinkType
    <3>. QED BY <1>2, <3>1, <3>2
  <2>. QED BY <1>0, <1>6, <2>1, <2>3, HandsSafe DEF ls
<1>7. CASE SlotFailed(o, ls) /\ (o.r.kind \notin Good \/ (op.m = "unwatch" /\ o.r.kind \notin {"ok", "queued"}))
  <2>1. Fails(ls, redir'.type, Late(o)) /\ UNCHANGED <<master, mode, fold, op>>
    BY <1>0, <1>7 DEF SlotFailed, table
  <2>2. torn = {} /\ Late(o) = {} => \A m \in Nodes : Loose(ls[m], fold, Items(m, 1))
    <3>1. Late(o) = {} => ~o.late
      BY DEF Late
    <3>2. CASE o.r.kind \notin Good
      BY <1>5, <3>1, <3>2
    <3>3. CASE o.r.kind \in Good
      <4> SUFFICES ASSUME torn = {}, NEW m \in Nodes PROVE Loose(ls[m], fold, Items(m, 1))
        OBVIOUS
      <4>1. op.m = "unwatch" /\ mode # "MULTI" /\ o.r.kind # "lost"
        BY <1>0, <1>7, <3>3 DEF Stepped, Good
      <4> DEFINE I == Items(m, 1)  no == FALSE
      <4>2. ls[m] \in LinkType /\ no \in BOOLEAN /\ Quiet(ls[m], fold, I, no)
        BY <1>2, <1>3, <4>1 DEF AnswerRead
      <4> HIDE DEF I, no
      <4>3. Loose(ls[m], fold, I)
        BY <4>2, QuietIsLoose
      <4>. QED BY <4>3 DEF I
    <3>. QED BY <3>2, <3>3
  <2>. QED BY <1>0, <1>2, <2>1, <2>2, FailsSafe
<1>8. CASE op.m # "unwatch" /\ o.r.kind \in {"moved", "ask"} /\ Redirected(o, ls)
  <2>0. o.r.kind \notin Good /\ o.r.kind # "lost"
    BY <1>8 DEF Good
  <2>1. UNCHANGED fold
    BY <1>8 DEF Redirected
  <2>2. CASE mode = "MULTI"
    <3>1. Fails(ls, redir'.type, {}) /\ UNCHANGED <<master, mode, fold, op>>
      BY <1>0, <1>8, <2>1, <2>2 DEF Redirected, table
    <3>2. ~o.late
      <4>1. link[n] \in LinkType
        BY <1>0
      <4>. QED BY <1>0, <2>0, <4>1, ReadsSay
    <3>3. torn = {} => \A m \in Nodes : Loose(ls[m], fold, Items(m, 1))
      BY <1>5, <2>0, <3>2
    <3>. QED BY <1>0, <1>2, <3>1, <3>3, FailsSafe
  <2>3. CASE mode # "MULTI"
    <3>1. FollowMoved(o.r, ls) \/ FollowAsk(o.r, ls)
      BY <1>8, <2>3 DEF Redirected
    <3>2. mode = "ATOMIC" /\ UNCHANGED <<mode, fold, op, missed>>
      BY <1>0, <2>1, <2>3 DEF TypeInv, CallTypes
    <3>3. master[o.r.slot] # None
      <4>1. o.r.slot \in Slots
        <5>1. o.r \in Replies \cup {NoReply}
          BY <1>0, ReadsType DEF TypeInv
        <5>. QED BY <1>8, <5>1, Redirects
      <4>. QED BY <1>0, <4>1, HasMaster, NoneAssumption
    <3>4. FollowGoesOn(ls) \/ FollowGivesUp(ls)
      BY <3>1, <3>3, FollowEnds
    <3>. QED BY <1>0, <1>8, <3>2, <3>4, FollowsSafe DEF ls
  <2>. QED BY <2>2, <2>3
<1>9. CASE op.m = "watch" /\ WatchRefused(o, ls)
  <2>1. pc' = "idle" /\ torn' # {} /\ UNCHANGED <<fold, mode>>
    BY <1>0, <1>9 DEF WatchRefused, Returns
  <2>2. Stepped'
    BY <1>0, <2>1 DEF Stepped, OnTheWay
  <2>. QED BY <2>1, <2>2 DEF SafeInv, Agree, Replied
<1>10. CASE o.r.kind \notin Good /\ Failed(o, ls)
  <2> DEFINE after == IF o.r.kind = "lost" THEN [ls EXCEPT ![cmdSock] = Closed] ELSE ls
  <2>1. Fails(after, redir'.type, {}) /\ UNCHANGED <<master, mode, fold, op>>
    BY <1>0, <1>10 DEF Failed, table
  <2>2. after \in [Nodes -> LinkType]
    BY <1>0, <1>2, NewLinks
  <2>3. o.r.kind # "lost" => ~o.late
    <3>1. link[n] \in LinkType
      BY <1>0
    <3>. QED BY <1>0, <3>1, ReadsSay
  <2>4. (~o.late /\ after = ls) \/ after = [ls EXCEPT ![cmdSock] = Closed]
    BY <2>3
  <2> HIDE DEF after
  <2>5. torn = {} => \A m \in Nodes : Loose(after[m], fold, Items(m, 1))
    BY <1>5, <1>10, <2>4
  <2>. QED BY <1>0, <2>1, <2>2, <2>5, FailsSafe
<1>11. CASE op.m = "unwatch" /\ o.r.kind \in {"ok", "queued"} /\ UnwatchAnswered(o, ls)
  <2>1. /\ link' = [ls EXCEPT ![master[cmdSlot]].watching = FALSE] /\ pc' = "unwatch" /\ torn \subseteq torn'
        /\ UNCHANGED <<table, fold, ret, mode, op>>
    BY <1>0, <1>11 DEF UnwatchAnswered
  <2>2. mode = "ATOMIC" /\ o.r.kind # "lost" /\ op.cmd.name = "UNWATCH" /\ ~op.cmd.ro
    BY <1>0, <1>11 DEF Stepped
  <2>3. Stepped'
    BY <1>0, <1>11, <2>1, <2>2 DEF Stepped, OnTheWay
  <2>4. Replied'
    BY <2>1 DEF SafeInv, Replied
  <2>5. Agree'
    <3> SUFFICES ASSUME torn = {} PROVE Agree'
      BY <2>1 DEF Agree
    <3>1. ASSUME NEW m \in Nodes PROVE Quiet(link'[m], fold', Items(m, 1)', FALSE)
      <4> DEFINE q == fold  I == Items(m, 1)  l == ls[m]  k == link'[m]  no == FALSE
      <4>1. Quiet(l, q, I, no)
        BY <1>2, <1>3, <2>2 DEF AnswerRead
      <4>2. k = l \/ k = [l EXCEPT !.watching = FALSE]
        BY <1>2, <2>1
      <4>3. l \in LinkType /\ k \in LinkType /\ no \in BOOLEAN
        BY <1>0, <1>2
      <4>4. Alike(l, k)
        BY <4>2, <4>3 DEF Alike, LinkType
      <4>5. I = Items(m, 1)' /\ fold' = q
        BY <2>1 DEF Items, table
      <4> HIDE DEF q, I, l, k, no
      <4>6. FitsAsWell(l, k, q, I, no, no, 0)
        BY <4>1, <4>3, <4>4, AlikeFits
      <4>7. Quiet(k, q, I, no)
        BY <4>1, <4>6 DEF FitsAsWell
      <4>. QED BY <4>5, <4>7 DEF k, no
    <3>. QED BY <2>1, <3>1, QuietAgrees
  <2>. QED BY <2>3, <2>4, <2>5 DEF SafeInv
<1>. QED BY <1>1, <1>6, <1>7, <1>8, <1>9, <1>10, <1>11 DEF ReadAs, ls

-----------------------------------------------------------------------------
(* EXEC on each node. *)

\* The item that exec() is at.
LEMMA AtItem ==
  ASSUME SafeInv, pos <= Len(fold)
  PROVE  /\ pos \in Nat \ {0} /\ Len(fold) \in Nat /\ pos \in 1..Len(fold)
         /\ Item = fold[pos] /\ Item.id \in Nat /\ Item.slot \in Slots
         /\ master[Item.slot] \in nodes /\ master[Item.slot] \in Nodes
         /\ \A p \in 1..pos : pos \in Items(master[Item.slot], p)
<1>1. TypeInv /\ pos \in Nat \ {0} /\ Len(fold) \in Nat
  BY DEF SafeInv, TypeInv, CallTypes
<1>2. pos \in 1..Len(fold)
  BY <1>1
<1>3. \A p \in 1..pos : pos \in p..Len(fold)
  BY <1>1
<1>. QED BY <1>1, <1>2, <1>3, FoldItems DEF Item, Items

LEMMA NoneLeft ==
  ASSUME TypeInv, pc # "write"
  PROVE  missed = {} /\ \A m : Left(m) = FALSE
<1>1. missed = {}
  BY DEF TypeInv, CallShape
<1>. QED BY <1>1 DEF Left

\* It has been at one more node.
LEMMA OneMoreDone ==
  ASSUME pos \in Nat \ {0}, pos' = pos + 1, UNCHANGED <<fold, master>>, NEW n
  PROVE  /\ Done(n)' <=> Done(n) \/ master[Item.slot] = n
         /\ refused' = refused /\ Accepted(n) => Accepted(n)'
<1>1. 1..(pos' - 1) = 1..(pos - 1) \cup {pos}
  <2>1. 1..pos = 1..(pos - 1) \cup {pos}
    OBVIOUS
  <2>. QED BY <2>1
<1>2. Done(n)' <=> \E j \in 1..(pos' - 1) : master[fold[j].slot] = n
  BY DEF Done
<1>3. Accepted(n)' <=> \E j \in 1..(pos' - 1) : master[fold[j].slot] = n /\ fold[j].slot \notin refused'
  BY DEF Accepted
<1>. QED BY <1>1, <1>2, <1>3 DEF Done, Accepted, Item

LEMMA ExecNodeSafe ==
  ASSUME SafeInv, ExecNode, TypeInv'
  PROVE  SafeInv'
<1> DEFINE n == master[Item.slot]
<1>0. /\ pc = "exec" /\ pos <= Len(fold) /\ op.m = "exec" /\ TypeInv /\ Stepped
      /\ link \in [Nodes -> LinkType]
      /\ UNCHANGED <<link, master, mode, fold, refused, op, ret, torn>>
      /\ missed' = {} /\ \A m : Left(m) = FALSE /\ Left(m)' = FALSE
  <2>1. pc = "exec" /\ pos <= Len(fold) /\ UNCHANGED <<link, table, tx, op, ret, history, missed>>
    BY DEF ExecNode
  <2>2. TypeInv /\ missed = {} /\ \A m : Left(m) = FALSE
    BY <2>1, NoneLeft DEF SafeInv
  <2>3. \A m : Left(m)' = FALSE
    BY <2>1, <2>2 DEF Left
  <2>. QED BY <2>1, <2>2, <2>3 DEF SafeInv, TypeInv, CallShape, LinkTypes, table, tx, history
<1>1. /\ n \in Nodes /\ pos \in Nat \ {0} /\ Item = fold[pos] /\ pos \in Items(n, 1)
      /\ link[n].multi \in BOOLEAN
  <2>1. 1 \in 1..pos
    BY <1>0, AtItem
  <2>. QED BY <1>0, <2>1, AtItem, LinkFields
<1>2. Replied'
  BY <1>0 DEF SafeInv, Replied
<1>3. InExec /\ ~InCommand /\ \A m : ~Reading(m) /\ Next1(m) = FALSE
  BY <1>0 DEF InExec, InCommand, Reading, Next1, OnTheWay
<1>4. torn = {} => NodeFits(n)
  BY <1>1 DEF SafeInv, Agree
<1>5. CASE link[n].multi
  <2>1. cmdSlot' = Item.slot /\ cmdSock' = n /\ pc' \in {"asking", "write"} /\ pos' = pos
    BY <1>5 DEF ExecNode, Sending
  <2>2. Stepped'
    BY <1>0, <2>1 DEF Stepped, OnTheWay
  <2>3. Agree'
    <3> SUFFICES ASSUME torn = {} PROVE Aimed' /\ \A m \in Nodes : NodeFits(m)'
      BY <1>0 DEF Agree
    <3>1. InExec' /\ ~InCommand' /\ \A m : ~Reading(m)' /\ Next1(m)' = FALSE
      BY <1>0, <2>1 DEF InExec, InCommand, Reading, Next1, OnTheWay
    <3>2. \A m : Done(m)' = Done(m) /\ Accepted(m)' = Accepted(m) /\ Items(m, 1)' = Items(m, 1)
      BY <1>0, <2>1 DEF Done, Accepted, Items
    <3>3. ~Done(n)
      BY <1>3, <1>4, <1>5 DEF NodeFits, Executed
    <3>4. Aimed'
      <4>1. cmdSock' = master'[fold'[pos'].slot] /\ cmdSlot' = fold'[pos'].slot
        BY <1>0, <1>1, <2>1
      <4>2. ~Done(cmdSock)'
        BY <1>0, <2>1, <3>3 DEF Done
      <4>. QED BY <3>1, <4>1, <4>2 DEF Aimed
    <3>5. ASSUME NEW m \in Nodes PROVE NodeFits(m)'
      <4>1. NodeFits(m)
        BY DEF SafeInv, Agree
      <4>. QED BY <1>0, <1>3, <2>1, <3>1, <3>2, <4>1 DEF NodeFits, Fits
    <3>. QED BY <3>4, <3>5
  <2>. QED BY <1>2, <2>2, <2>3 DEF SafeInv
<1>6. CASE ~link[n].multi
  <2>1. pos' = pos + 1 /\ pc' = "exec"
    BY <1>0, <1>6 DEF ExecNode
  <2>2. Stepped'
    BY <1>0, <2>1 DEF Stepped, OnTheWay
  <2>3. Agree'
    <3> SUFFICES ASSUME torn = {} PROVE Aimed' /\ \A m \in Nodes : NodeFits(m)'
      BY <1>0 DEF Agree
    <3>1. InExec' /\ ~InCommand' /\ \A m : ~Reading(m)' /\ Next1(m)' = FALSE /\ Items(m, 1)' = Items(m, 1)
      BY <1>0, <2>1 DEF InExec, InCommand, Reading, Next1, OnTheWay, Items
    <3>2. Done(n)
      BY <1>0, <1>1, <1>3, <1>4, <1>6 DEF NodeFits, Fits, Quiet
    <3>3. \A m : Done(m)' = Done(m) /\ (Accepted(m) => Accepted(m)')
      <4>1. UNCHANGED <<fold, master>> /\ refused' = refused /\ pos \in Nat \ {0} /\ pos' = pos + 1
        BY <1>0, <1>1, <2>1
      <4>2. ASSUME NEW m PROVE (Done(m)' <=> Done(m) \/ n = m) /\ (Accepted(m) => Accepted(m)')
        BY <4>1, OneMoreDone
      <4>3. \A m : Done(m) \in BOOLEAN /\ Done(m)' \in BOOLEAN
        BY DEF Done
      <4> HIDE DEF n
      <4>4. ASSUME NEW m PROVE Done(m)' = Done(m)
        BY <3>2, <4>2, <4>3
      <4>. QED BY <4>2, <4>4
    <3>4. Aimed'
      BY <2>1, <3>1 DEF Aimed
    <3>5. ASSUME NEW m \in Nodes PROVE NodeFits(m)'
      <4>1. NodeFits(m)
        BY DEF SafeInv, Agree
      <4>2. InExec' /\ Done(m)' => Executed(link[m], fold, Items(m, 1)) /\ (link[m].wire # <<>> => Accepted(m)')
        BY <1>3, <3>3, <4>1 DEF NodeFits
      <4>3. ~Done(m)' => Quiet(link[m], fold, Items(m, 1), FALSE)
        BY <1>0, <1>3, <3>3, <4>1 DEF NodeFits, Fits
      <4>. QED BY <1>0, <2>1, <3>1, <4>2, <4>3 DEF NodeFits, Fits
    <3>. QED BY <3>4, <3>5
  <2>. QED BY <1>2, <2>2, <2>3 DEF SafeInv
<1>. QED BY <1>5, <1>6

LEMMA ExecSentSafe ==
  ASSUME SafeInv, ExecSent, TypeInv'
  PROVE  SafeInv'
<1>0. /\ pc = "exec" /\ op.m = "exec" /\ TypeInv /\ Stepped /\ pc' = "collect" /\ pos' = 1
      /\ pos = Len(fold) + 1 /\ Len(fold) \in Nat /\ link \in [Nodes -> LinkType]
      /\ UNCHANGED <<link, master, mode, fold, refused, op, ret, torn>>
      /\ \A m : Left(m) = FALSE /\ Left(m)' = FALSE
  <2>1. /\ pc = "exec" /\ pos > Len(fold) /\ pc' = "collect" /\ pos' = 1
        /\ UNCHANGED <<link, table, tx, op, ret, history, missed>>
    BY DEF ExecSent, target
  <2>2. TypeInv /\ Stepped /\ pos \in Nat /\ Len(fold) \in Nat /\ pos <= Len(fold) + 1 /\ op.m = "exec"
        /\ link \in [Nodes -> LinkType]
    BY <2>1 DEF SafeInv, TypeInv, CallTypes, CallShape, LinkTypes
  <2>3. pos = Len(fold) + 1
    BY <2>1, <2>2
  <2>4. missed = {} /\ \A m : Left(m) = FALSE
    BY <2>1, <2>2, NoneLeft
  <2>5. \A m : Left(m)' = FALSE
    BY <2>1, <2>4 DEF Left
  <2>. QED BY <2>1, <2>2, <2>3, <2>4, <2>5 DEF table, tx, history
<1>1. Stepped'
  BY <1>0 DEF Stepped, OnTheWay
<1>2. Replied'
  BY <1>0 DEF SafeInv, Replied
<1>3. Agree'
  <2> SUFFICES ASSUME torn = {} PROVE Aimed' /\ \A n \in Nodes : NodeFits(n)'
    BY <1>0 DEF Agree
  <2>1. ~InExec' /\ ~InCommand'
    BY <1>0 DEF InExec, InCommand, OnTheWay
  <2>2. Aimed'
    BY <2>1 DEF Aimed
  <2>3. ASSUME NEW n \in Nodes PROVE Executed(link'[n], fold', Items(n, pos)')
    <3>1. NodeFits(n) /\ InExec /\ ~Reading(n) /\ Next1(n) = FALSE
      BY <1>0 DEF SafeInv, Agree, InExec, Reading, Next1, InCommand
    <3>2. Items(n, pos)' = Items(n, 1)
      BY <1>0 DEF Items
    <3>3. CASE Done(n)
      BY <1>0, <3>1, <3>2, <3>3 DEF NodeFits
    <3>4. CASE ~Done(n)
      <4>1. Items(n, 1) = {}
        <5>1. pos - 1 = Len(fold)
          BY <1>0
        <5>. QED BY <3>4, <5>1 DEF Done, Items
      <4>2. Quiet(link[n], fold, {}, FALSE)
        BY <1>0, <3>1, <3>4, <4>1 DEF NodeFits, Fits
      <4>. QED BY <1>0, <3>2, <4>1, <4>2, QuietMeans
    <3>. QED BY <3>3, <3>4
  <2>. QED BY <1>0, <2>1, <2>2, <2>3 DEF NodeFits
<1>. QED BY <1>1, <1>2, <1>3 DEF SafeInv

\* The connection of a node that has run its part, or refused to.
LEMMA OutOfMulti ==
  ASSUME NEW l \in LinkType
  PROVE  LET k == [l EXCEPT !.multi = FALSE, !.watching = FALSE] IN
         /\ k \in LinkType /\ k.multi = FALSE
         /\ k.open = l.open /\ k.eof = l.eof /\ k.tx = l.tx /\ k.queue = l.queue /\ k.wire = l.wire
         /\ Sound(l) => Sound(k)
<1> DEFINE k == [l EXCEPT !.multi = FALSE, !.watching = FALSE]
<1>1. /\ k.multi = FALSE
      /\ k.open = l.open /\ k.eof = l.eof /\ k.tx = l.tx /\ k.queue = l.queue /\ k.wire = l.wire
  BY DEF LinkType
<1>2. k \in LinkType
  BY LinkChanges
<1> HIDE DEF k
<1>3. Sound(l) => Sound(k)
  BY <1>1 DEF Sound
<1>. QED BY <1>1, <1>2, <1>3 DEF k

LEMMA ReadExecSafe ==
  ASSUME SafeInv, ReadExec, TypeInv'
  PROVE  SafeInv'
<1> DEFINE n == cmdSock  id == op.cmd.id  l == link[n]  S == Items(n, 1)
<1>0. /\ pc = "read" /\ op.m = "exec" /\ pos <= Len(fold) /\ n \in Nodes /\ mode = "MULTI"
      /\ TypeInv /\ Stepped /\ ClusterTypes /\ LinkTypes /\ link \in [Nodes -> LinkType]
      /\ id \in Nat /\ l \in LinkType
      /\ InExec /\ Reading(n) /\ ~InCommand /\ \A m \in Nodes \ {n} : ~Reading(m)
      /\ UNCHANGED <<master, mode, fold, cmdSlot, cmdSock, op, missed>>
      /\ missed = {} /\ \A m : Left(m) = FALSE /\ Left(m)' = FALSE
  <2>1. pc = "read" /\ op.m = "exec" /\ UNCHANGED <<table, mode, fold, cmdSlot, cmdSock, op, missed>>
    BY DEF ReadExec
  <2>2. pc \in OnTheWay
    BY <2>1 DEF OnTheWay
  <2>3. TypeInv /\ Stepped /\ link \in [Nodes -> LinkType] /\ n \in Nodes /\ pos <= Len(fold) /\ mode = "MULTI"
    BY <2>1, <2>2 DEF SafeInv, TypeInv, CallShape, LinkTypes, Stepped
  <2>4. missed = {} /\ \A m : Left(m) = FALSE
    BY <2>1, <2>3, NoneLeft
  <2>5. \A m : Left(m)' = FALSE
    BY <2>1, <2>4 DEF Left
  <2>. QED BY <2>1, <2>2, <2>3, <2>4, <2>5 DEF TypeInv, CallTypes, Op, Command, InExec, InCommand, Reading, table
<1>1. PICK o \in Reads(cmdSock) :
       LET ls == [link EXCEPT ![cmdSock] = o.l] IN
       /\ refused' = IF o.r.kind = "array" THEN refused \ {cmdSlot} ELSE refused \cup {cmdSlot}
       /\ IF o.r.kind \in {"array", "nil"}
          THEN /\ link' = [ls EXCEPT ![cmdSock].multi = FALSE, ![cmdSock].watching = FALSE]
               /\ pc' = "exec" /\ pos' = pos + 1
               /\ UNCHANGED <<redir, ret, guarded, stale, torn>>
          ELSE /\ redir' = CASE o.r.kind = "ask"   -> [type |-> "ASK"]
                             [] o.r.kind = "moved" -> [type |-> "MOVED"]
                             [] OTHER -> redir
               /\ Fails(ls, redir'.type, Late(o))
  BY DEF ReadExec
<1> DEFINE ls == [link EXCEPT ![cmdSock] = o.l]
<1>2. o.l \in LinkType /\ ls \in [Nodes -> LinkType] /\ ls[n] = o.l /\ \A m \in Nodes \ {n} : ls[m] = link[m]
  <2>1. o.l \in LinkType
    BY <1>0, ReadsType
  <2>. QED BY <1>0, <2>1
<1>3. torn = {} => /\ n = master[fold[pos].slot] /\ cmdSlot = fold[pos].slot /\ ~Done(n)
                   /\ Executing(l, fold, S, id)
  BY <1>0 DEF SafeInv, Agree, Aimed, NodeFits
<1>4. \/ l.wire = <<>> /\ o.r.kind = "lost" /\ o.late = FALSE /\ o.l = (IF l.eof THEN Closed ELSE l)
      \/ /\ l.wire # <<>> /\ o.late = FALSE /\ o.l = Shorter(l)
         /\ IF l.wire[1].kind = "rest" THEN o.r.kind = "lost" ELSE o.r = l.wire[1]
      \/ o.late = TRUE /\ o.r.kind = "lost" /\ o.l = l
  BY <1>0, ReadsSay
<1>5. CASE o.r.kind \in {"array", "nil"}
  <2> DEFINE after == [ls EXCEPT ![cmdSock].multi = FALSE, ![cmdSock].watching = FALSE]
             k == [o.l EXCEPT !.multi = FALSE, !.watching = FALSE]
  <2>1. /\ link' = after /\ pc' = "exec" /\ pos' = pos + 1 /\ ret' = ret /\ torn' = torn
        /\ refused' = IF o.r.kind = "array" THEN refused \ {cmdSlot} ELSE refused \cup {cmdSlot}
    BY <1>1, <1>5
  <2>2. after[n] = k /\ \A m \in Nodes \ {n} : after[m] = link[m]
    BY <1>0, <1>2
  <2> HIDE DEF after, ls
  <2>3. Stepped'
    BY <1>0, <2>1 DEF Stepped, OnTheWay
  <2>4. Replied'
    BY <2>1 DEF SafeInv, Replied
  <2>5. Agree'
    <3> SUFFICES ASSUME torn = {} PROVE Aimed' /\ \A m \in Nodes : NodeFits(m)'
      BY <2>1 DEF Agree
    <3>1. InExec' /\ ~InCommand' /\ \A m : ~Reading(m)' /\ Next1(m)' = FALSE /\ Items(m, 1)' = Items(m, 1)
      BY <1>0, <2>1 DEF InExec, InCommand, Reading, Next1, OnTheWay, Items
    <3>2. Aimed'
      BY <2>1, <3>1 DEF Aimed
    <3>3. /\ pos \in Nat \ {0} /\ Item = fold[pos]
          /\ n = master[Item.slot] /\ cmdSlot = Item.slot
      BY <1>0, <1>3, AtItem
    <3>4. /\ l.wire # <<>> /\ o.l = Shorter(l) /\ o.r = l.wire[1]
      BY <1>4, <1>5
    <3>5. Executed(k, fold, S) /\ (k.wire # <<>> => o.r.kind = "array")
      <4>1. Sound(l) /\ l.tx = "none" /\ IF o.r.kind = "array" THEN Lists(WireIds(Tail(l.wire)), fold, S) ELSE Len(l.wire) = 1
        BY <1>3, <3>4 DEF Executing
      <4>2. /\ o.l.tx = l.tx /\ o.l.wire = Tail(l.wire) /\ Sound(o.l)
            /\ Len(l.wire) = 1 => o.l.wire = <<>>
        <5> HIDE DEF l
        <5>. QED BY <1>0, <3>4, <4>1, ShorterSays
      <4>3. k.multi = FALSE /\ k.tx = o.l.tx /\ k.wire = o.l.wire /\ Sound(k)
        <5> DEFINE j == o.l
        <5>1. j \in LinkType /\ Sound(j)
          BY <1>2, <4>2
        <5> HIDE DEF j
        <5>2. LET i == [j EXCEPT !.multi = FALSE, !.watching = FALSE] IN
              i.multi = FALSE /\ i.tx = j.tx /\ i.wire = j.wire /\ Sound(i)
          BY <5>1, OutOfMulti
        <5>. QED BY <5>2 DEF j
      <4> HIDE DEF k, l, S
      <4>. QED BY <4>1, <4>2, <4>3 DEF Executed
    <3> HIDE DEF k
    <3>6. ASSUME NEW m \in Nodes PROVE NodeFits(m)'
      <4>1. CASE m = n
        <5>1. k.wire # <<>> => Accepted(m)'
          <6> SUFFICES ASSUME k.wire # <<>> PROVE Accepted(m)'
            OBVIOUS
          <6>1. fold'[pos].slot \notin refused' /\ master'[fold'[pos].slot] = m
            BY <1>0, <2>1, <3>3, <3>5, <4>1
          <6>2. pos \in 1..(pos' - 1)
            BY <2>1, <3>3
          <6>. QED BY <6>1, <6>2 DEF Accepted
        <5>2. Done(m)'
          <6>1. UNCHANGED <<fold, master>> /\ master[Item.slot] = m
            BY <1>0, <3>3, <4>1
          <6>. QED BY <2>1, <3>3, <6>1, OneMoreDone
        <5>. QED BY <1>0, <2>1, <2>2, <3>1, <3>5, <4>1, <5>1, <5>2 DEF NodeFits
      <4>2. CASE m # n
        <5>1. NodeFits(m) /\ ~Reading(m) /\ Next1(m) = FALSE
          BY <1>0, <4>2 DEF SafeInv, Agree, Next1
        <5>2. Done(m)' <=> Done(m)
          <6>1. UNCHANGED <<fold, master>>
            BY <1>0
          <6>. QED BY <2>1, <3>3, <4>2, <6>1, OneMoreDone
        <5>3. Accepted(m) => Accepted(m)'
          <6> SUFFICES ASSUME Accepted(m) PROVE Accepted(m)'
            OBVIOUS
          <6>1. PICK j \in 1..(pos - 1) : master[fold[j].slot] = m /\ fold[j].slot \notin refused
            BY DEF Accepted
          <6>2. fold[j].slot \notin refused'
            BY <2>1, <3>3, <4>2, <6>1
          <6>3. j \in 1..(pos' - 1)
            BY <2>1, <3>3
          <6>. QED BY <1>0, <6>1, <6>2, <6>3 DEF Accepted
        <5>4. Done(m) => Executed(link[m], fold, Items(m, 1)) /\ (link[m].wire # <<>> => Accepted(m))
          BY <1>0, <5>1 DEF NodeFits
        <5>5. ~Done(m) => Quiet(link[m], fold, Items(m, 1), FALSE)
          BY <1>0, <5>1 DEF NodeFits, Fits
        <5>. QED BY <1>0, <2>1, <2>2, <3>1, <4>2, <5>2, <5>3, <5>4, <5>5 DEF NodeFits, Fits
      <4>. QED BY <4>1, <4>2
    <3>. QED BY <3>2, <3>6
  <2>. QED BY <2>3, <2>4, <2>5 DEF SafeInv
<1>6. CASE o.r.kind \notin {"array", "nil"}
  <2>1. Fails(ls, redir'.type, Late(o))
    BY <1>1, <1>6
  <2> HIDE DEF ls
  <2>2. ASSUME torn = {}, Late(o) = {}, Split = {}, NEW m \in Nodes PROVE Aborting(ls[m], Items(m, 1))
    <3>1. CASE m # n
      BY <1>0, <1>2, <2>2, <3>1, OthersAbort
    <3>2. CASE m = n
      <4>1. ~o.late
        BY <2>2 DEF Late
      <4>2. Executing(l, fold, S, id) /\ S # {}
        <5>1. 1 \in 1..pos /\ n = master[Item.slot]
          BY <1>0, <1>3, <2>2, AtItem
        <5>2. pos \in S
          BY <1>0, <5>1, AtItem
        <5>. QED BY <1>3, <2>2, <5>2
      <4>3. CASE l.wire = <<>> /\ o.l = (IF l.eof THEN Closed ELSE l)
        BY <1>2, <3>2, <4>2, <4>3, NewQuiet DEF Executing
      <4>4. CASE /\ l.wire # <<>> /\ o.l = Shorter(l)
                 /\ IF l.wire[1].kind = "rest" THEN o.r.kind = "lost" ELSE o.r = l.wire[1]
        <5>1. Sound(l) /\ l.multi /\ l.tx = "none" /\ Len(l.wire) = 1
          BY <1>6, <4>2, <4>4 DEF Executing
        <5>2. o.l.tx = l.tx /\ o.l.multi = l.multi /\ o.l.wire = <<>> /\ Sound(o.l)
          <6> HIDE DEF l
          <6>. QED BY <1>0, <4>4, <5>1, ShorterSays
        <5>. QED BY <1>2, <3>2, <4>2, <5>1, <5>2 DEF Aborting
      <4>. QED BY <1>4, <4>1, <4>3, <4>4
    <3>. QED BY <3>1, <3>2
  <2>3. UNCHANGED <<master, mode, fold, op>>
    BY <1>0
  <2>. QED BY <1>0, <1>2, <2>1, <2>2, <2>3, FailsExecSafe
<1>. QED BY <1>5, <1>6

-----------------------------------------------------------------------------
(* The replies of the transaction. *)

LEMMA WireIdsAre ==
  ASSUME NEW w \in Seq(Replies)
  PROVE  /\ WireIds(w) \in Seq(Nat) /\ (WireIds(w) = <<>> <=> w = <<>>)
         /\ w # <<>> => Head(WireIds(w)) = w[1].for /\ WireIds(Tail(w)) = Tail(WireIds(w))
<1> DEFINE n == Len(w)  ids == WireIds(w)
<1>1. n \in Nat /\ (w = <<>> <=> n = 0) /\ \A k \in 1..n : w[k] \in Replies
  OBVIOUS
<1>2. \A r \in Replies : r.for \in Nat
  BY DEF Replies, Reply
<1>3. ids = [k \in 1..n |-> w[k].for]
  BY DEF WireIds
<1> HIDE DEF ids
<1>4. ids \in Seq(Nat) /\ Len(ids) = n /\ \A k \in 1..n : ids[k] = w[k].for
  BY <1>1, <1>2, <1>3
<1>5. ids = <<>> <=> w = <<>>
  BY <1>1, <1>4
<1>6. ASSUME w # <<>> PROVE Head(ids) = w[1].for /\ WireIds(Tail(w)) = Tail(ids)
  <2> DEFINE t == Tail(w)  i == Tail(ids)  j == WireIds(t)
  <2>1. 1 \in 1..n /\ ids # <<>>
    BY <1>1, <1>5, <1>6
  <2>2. Head(ids) = w[1].for
    BY <1>4, <2>1
  <2>3. t \in Seq(Replies) /\ Len(t) = n - 1 /\ \A k \in 1..(n - 1) : t[k] = w[k + 1]
    BY <1>6
  <2>4. i \in Seq(Nat) /\ Len(i) = n - 1 /\ \A k \in 1..(n - 1) : i[k] = ids[k + 1]
    BY <1>4, <2>1
  <2>5. j = [k \in 1..Len(t) |-> t[k].for]
    BY DEF WireIds
  <2> HIDE DEF n, t, i, j
  <2>6. \A k \in 1..(n - 1) : k + 1 \in 1..n
    BY <1>1
  <2>7. \A k \in 1..(n - 1) : i[k] = t[k].for
    BY <1>4, <2>3, <2>4, <2>6
  <2>8. i = [k \in 1..(n - 1) |-> t[k].for]
    BY <2>4, <2>7
  <2>9. i = j
    BY <2>3, <2>5, <2>8
  <2>. QED BY <2>2, <2>9 DEF i, j, t
<1>. QED BY <1>4, <1>5, <1>6 DEF ids

\* What is left after the item that the loop is at.
LEMMA LeftAfter ==
  ASSUME pos \in 1..Len(fold), Len(fold) \in Nat, pos' = pos + 1, UNCHANGED <<fold, master>>, NEW n
  PROVE  /\ Items(n, pos) \in SUBSET Nat /\ \A j \in Items(n, pos) : pos <= j
         /\ Items(n, pos)' = IF master[Item.slot] = n THEN Items(n, pos) \ {pos} ELSE Items(n, pos)
         /\ pos \in Items(n, pos) <=> master[Item.slot] = n
<1>1. pos..Len(fold) = {pos} \cup ((pos + 1)..Len(fold)) /\ pos \notin (pos + 1)..Len(fold)
  OBVIOUS
<1>2. Items(n, pos)' = {i \in (pos + 1)..Len(fold) : master[fold[i].slot] = n}
  BY DEF Items
<1>3. Items(n, pos) = {i \in pos..Len(fold) : master[fold[i].slot] = n}
  BY DEF Items
<1>4. /\ Items(n, pos)' = IF master[Item.slot] = n THEN Items(n, pos) \ {pos} ELSE Items(n, pos)
      /\ pos \in Items(n, pos) <=> master[Item.slot] = n
  BY <1>1, <1>2, <1>3 DEF Item
<1>5. Items(n, pos) \in SUBSET Nat /\ \A j \in Items(n, pos) : pos <= j
  BY <1>3
<1>. QED BY <1>4, <1>5

LEMMA NothingLeft ==
  ASSUME Len(fold) \in Nat, pos = Len(fold) + 1
  PROVE  \A n : Items(n, pos) = {}
<1>1. pos..Len(fold) = {}
  OBVIOUS
<1>. QED BY <1>1 DEF Items

\* The transaction is over.
LEMMA EndsSafe ==
  ASSUME SafeInv, TypeInv', NEW ls \in [Nodes -> LinkType], NEW answers, NEW tears, EndsTx(ls, answers, tears),
         torn = {} /\ tears = {} =>
           /\ answers \in Seq(Answers)
           /\ \A n \in Nodes : Sound(ls[n]) /\ ls[n].wire = <<>> /\ ls[n].tx = "none" /\ (n \notin nodes => ~ls[n].multi)
  PROVE  SafeInv'
<1>1. /\ link' = Reset(ls) /\ mode' = "ATOMIC" /\ fold' = <<>> /\ pc' = "idle" /\ ret' = answers
      /\ torn \cup tears \subseteq torn'
  BY DEF EndsTx, Returns
<1>2. Stepped'
  BY <1>1 DEF Stepped, OnTheWay
<1>3. Replied'
  BY <1>1 DEF Replied
<1>4. Agree'
  <2> SUFFICES ASSUME torn' = {} PROVE Agree'
    BY DEF Agree
  <2>1. \A n \in Nodes : Sound(ls[n]) /\ ls[n].wire = <<>> /\ ls[n].tx = "none" /\ (n \notin nodes => ~ls[n].multi)
    BY <1>1
  <2>2. \A n : Items(n, 1)' = {}
    <3>1. 1..Len(<<>>) = {}
      BY EmptySeq
    <3>. QED BY <1>1, <3>1 DEF Items
  <2>3. ASSUME NEW n \in Nodes PROVE Quiet(link'[n], fold', {}, FALSE)
    <3> DEFINE l == ls[n]  k == [l EXCEPT !.multi = FALSE, !.watching = FALSE]
    <3>1. link'[n] = IF n \in nodes THEN k ELSE l
      BY <1>1 DEF Reset
    <3>2. l \in LinkType /\ Sound(l) /\ l.wire = <<>> /\ l.tx = "none" /\ (n \notin nodes => ~l.multi)
      BY <2>1
    <3> HIDE DEF l
    <3>3. k \in LinkType /\ k.multi = FALSE /\ k.tx = l.tx /\ k.wire = l.wire /\ (Sound(l) => Sound(k))
      BY <3>2, OutOfMulti
    <3> HIDE DEF k
    <3>4. Quiet(k, fold', {}, FALSE) /\ (n \notin nodes => Quiet(l, fold', {}, FALSE))
      BY <3>2, <3>3, QuietMeans
    <3>. QED BY <3>1, <3>4
  <2>. QED BY <1>1, <2>2, <2>3, QuietAgrees
<1>. QED BY <1>2, <1>3, <1>4 DEF SafeInv

LEMMA CollectReplySafe ==
  ASSUME SafeInv, CollectReply, TypeInv'
  PROVE  SafeInv'
<1> DEFINE n == master[Item.slot]  l == link[n]  S == Items(n, pos)
<1>0. /\ pc = "collect" /\ pos <= Len(fold) /\ mode = "MULTI" /\ TypeInv /\ Stepped
      /\ link \in [Nodes -> LinkType] /\ LinkTypes /\ UNCHANGED <<master, op>> /\ missed' = {}
  <2>1. pc = "collect" /\ pos <= Len(fold) /\ UNCHANGED <<table, op, missed>>
    BY DEF CollectReply
  <2>2. missed = {}
    BY <2>1, NoneLeft DEF SafeInv
  <2>. QED BY <2>1, <2>2 DEF SafeInv, TypeInv, LinkTypes, Stepped, table
<1>1. /\ n \in Nodes /\ pos \in 1..Len(fold) /\ Len(fold) \in Nat /\ Item = fold[pos] /\ Item.id \in Nat
      /\ l \in LinkType
  BY <1>0, AtItem
<1>2. torn = {} => \A m \in Nodes : Executed(link[m], fold, Items(m, pos))
  BY <1>0 DEF SafeInv, Agree, NodeFits
<1>3. torn = {} => ret \in Seq(Answers)
  BY DEF SafeInv, Replied
\* The step over one item.
<1>4. ASSUME pos' = pos + 1, UNCHANGED <<pc, mode, fold>>, torn \subseteq torn',
             NEW answer, ret' = Append(ret, answer),
             torn' = {} => /\ answer \in Answers /\ Executed(link'[n], fold, S \ {pos})
                           /\ \A m \in Nodes \ {n} : link'[m] = link[m]
      PROVE  SafeInv'
  <2>1. Stepped'
    BY <1>0, <1>4 DEF Stepped, OnTheWay
  <2>2. Replied'
    <3> SUFFICES ASSUME torn' = {} PROVE ret' \in Seq(Answers)
      BY DEF Replied
    <3>1. ret \in Seq(Answers) /\ answer \in Answers
      BY <1>3, <1>4
    <3>. QED BY <1>4, <3>1
  <2>3. Agree'
    <3> SUFFICES ASSUME torn' = {} PROVE Aimed' /\ \A m \in Nodes : NodeFits(m)'
      BY DEF Agree
    <3>1. ~InExec' /\ ~InCommand'
      BY <1>0, <1>4 DEF InExec, InCommand, OnTheWay
    <3>2. ASSUME NEW m \in Nodes PROVE Executed(link'[m], fold', Items(m, pos)')
      <4>1. Items(m, pos)' = IF n = m THEN Items(m, pos) \ {pos} ELSE Items(m, pos)
        BY <1>0, <1>1, <1>4, LeftAfter
      <4>2. CASE m = n
        BY <1>4, <4>1, <4>2
      <4>3. CASE m # n
        BY <1>2, <1>4, <4>1, <4>3
      <4>. QED BY <4>2, <4>3
    <3>3. pc' = "collect" /\ missed' = {}
      BY <1>0, <1>4
    <3>. QED BY <3>1, <3>2, <3>3 DEF Aimed, NodeFits, Left
  <2>. QED BY <2>1, <2>2, <2>3 DEF SafeInv
<1>5. CASE Item.slot \in refused
  <2>1. /\ ret' = Append(ret, NoAnswer(Item.id)) /\ pos' = pos + 1 /\ torn' = torn \cup OldRefusal
        /\ UNCHANGED <<link, pc, mode, fold>>
    BY <1>5 DEF CollectReply
  <2>2. NoAnswer(Item.id) \in Answers
    BY <1>1 DEF NoAnswer, Answers
  <2>3. torn' = {} => Executed(link'[n], fold, S \ {pos})
    <3> SUFFICES ASSUME torn' = {} PROVE Executed(link[n], fold, S \ {pos})
      BY <2>1
    <3>1. l.wire = <<>> /\ torn = {}
      BY <2>1 DEF OldRefusal
    <3>. QED BY <1>1, <1>2, <3>1 DEF Executed
  <2>. QED BY <1>4, <2>1, <2>2, <2>3
<1>6. CASE Item.slot \notin refused
  <2>1. PICK o \in Reads(n) :
             IF o.r.kind = "lost"
             THEN /\ EndsTx([link EXCEPT ![n] = o.l], <<NoAnswer(op.cmd.id)>>, {"splitExec"} \cup Late(o))
                  /\ UNCHANGED pos
             ELSE /\ link' = [link EXCEPT ![n] = o.l]
                  /\ ret' = Append(ret, Answered(Item.id, o.r))
                  /\ pos' = pos + 1
                  /\ UNCHANGED <<pc, mode, fold, guarded, stale, torn>>
    BY <1>6 DEF CollectReply
  <2>2. o.l \in LinkType
    BY <1>0, <1>1, ReadsType
  <2>3. CASE o.r.kind = "lost"
    <3> DEFINE ls == [link EXCEPT ![n] = o.l]  answers == <<NoAnswer(op.cmd.id)>>  tears == {"splitExec"} \cup Late(o)
    <3>1. EndsTx(ls, answers, tears) /\ tears # {} /\ ls \in [Nodes -> LinkType]
      BY <1>0, <1>1, <2>1, <2>2, <2>3
    <3> HIDE DEF ls, answers, tears
    <3>. QED BY <3>1, EndsSafe
  <2>4. CASE o.r.kind # "lost"
    <3>1. /\ link' = [link EXCEPT ![n] = o.l] /\ ret' = Append(ret, Answered(Item.id, o.r)) /\ pos' = pos + 1
          /\ UNCHANGED <<pc, mode, fold, torn>>
      BY <2>1, <2>4
    <3>2. link'[n] = o.l /\ \A m \in Nodes \ {n} : link'[m] = link[m]
      BY <1>0, <1>1, <3>1
    <3>3. ASSUME torn = {} PROVE Answered(Item.id, o.r) \in Answers /\ Executed(o.l, fold, S \ {pos})
      <4> DEFINE w == l.wire
      <4>1. w # <<>> /\ o.l = Shorter(l) /\ o.r = w[1]
        BY <1>1, <2>4, ReadsSay
      <4>2. w \in Seq(Replies) /\ w[1] \in Replies
        <5>1. w \in Seq(Replies) /\ w # <<>>
          BY <1>1, <4>1, LinkFields
        <5> HIDE DEF w
        <5>. QED BY <5>1
      <4>3. Sound(l) /\ ~l.multi /\ l.tx = "none" /\ Lists(WireIds(w), fold, S)
        BY <1>1, <1>2, <3>3, <4>1 DEF Executed
      <4>4. S \in SUBSET Nat /\ pos \in S /\ \A j \in S : pos <= j
        BY <1>0, <1>1, <3>1, LeftAfter
      <4>5. /\ o.l.multi = l.multi /\ o.l.tx = l.tx /\ o.l.wire = Tail(w) /\ Sound(o.l)
        <5> HIDE DEF l
        <5>1. l.wire # <<>>
          BY <4>1
        <5>. QED BY <1>1, <4>1, <4>3, <5>1, ShorterSays
      <4> HIDE DEF w, l, S
      <4>6. WireIds(w) \in Seq(Nat) /\ Head(WireIds(w)) = w[1].for /\ WireIds(Tail(w)) = Tail(WireIds(w))
        BY <4>1, <4>2, WireIdsAre
      <4>7. Head(WireIds(w)) = fold[pos].id /\ Lists(Tail(WireIds(w)), fold, S \ {pos})
        BY <4>3, <4>4, <4>6, ListsFirst
      <4>8. o.r.for = Item.id /\ o.r.kind \in Kinds
        BY <1>1, <4>1, <4>2, <4>6, <4>7 DEF Replies, Reply
      <4>9. Answered(Item.id, o.r) \in Answers
        BY <1>1, <4>8 DEF Answered, Answers
      <4>10. Executed(o.l, fold, S \ {pos})
        BY <4>3, <4>5, <4>6, <4>7 DEF Executed
      <4>. QED BY <4>9, <4>10 DEF S
    <3>. QED BY <1>4, <3>1, <3>2, <3>3
  <2>. QED BY <2>3, <2>4
<1>. QED BY <1>5, <1>6

LEMMA CollectedSafe ==
  ASSUME SafeInv, Collected, TypeInv'
  PROVE  SafeInv'
<1>1. /\ pc = "collect" /\ EndsTx(link, ret, {}) /\ link \in [Nodes -> LinkType]
      /\ Len(fold) \in Nat /\ pos = Len(fold) + 1
  <2>1. pc = "collect" /\ pos > Len(fold) /\ EndsTx(link, ret, {})
    BY DEF Collected
  <2>2. pos \in Nat /\ Len(fold) \in Nat /\ pos <= Len(fold) + 1 /\ link \in [Nodes -> LinkType]
    BY <2>1 DEF SafeInv, TypeInv, CallTypes, CallShape, LinkTypes
  <2>. QED BY <2>1, <2>2
<1>2. torn = {} => ret \in Seq(Answers)
  BY DEF SafeInv, Replied
<1>3. ASSUME torn = {}, NEW n \in Nodes
      PROVE  Sound(link[n]) /\ link[n].wire = <<>> /\ link[n].tx = "none" /\ ~link[n].multi
  <2> DEFINE w == link[n].wire
  <2>1. Executed(link[n], fold, {})
    <3>1. Items(n, pos) = {}
      BY <1>1, NothingLeft
    <3>2. Executed(link[n], fold, Items(n, pos))
      BY <1>1, <1>3 DEF SafeInv, Agree, NodeFits
    <3>. QED BY <3>1, <3>2
  <2>2. w \in Seq(Replies)
    BY <1>1, LinkFields
  <2>3. w # <<>> => Lists(WireIds(w), fold, {})
    BY <2>1 DEF Executed
  <2> HIDE DEF w
  <2>4. w = <<>>
    BY <2>2, <2>3, WireIdsAre, ListsNothing
  <2>. QED BY <2>1, <2>4 DEF Executed, w
<1>. QED BY <1>1, <1>2, <1>3, EndsSafe

-----------------------------------------------------------------------------
(* The transaction is given up. *)

LEMMA DiscardNodeSafe ==
  ASSUME SafeInv, DiscardNode, TypeInv'
  PROVE  SafeInv'
<1> DEFINE n == master[Item.slot]
<1>0. /\ pc = "abort" /\ pos <= Len(fold) /\ mode = "MULTI" /\ TypeInv /\ Stepped
      /\ link \in [Nodes -> LinkType] /\ UNCHANGED <<master, op>> /\ missed' = {}
  <2>1. pc = "abort" /\ pos <= Len(fold) /\ UNCHANGED <<table, op, missed>>
    BY DEF DiscardNode, target
  <2>2. missed = {}
    BY <2>1, NoneLeft DEF SafeInv
  <2>. QED BY <2>1, <2>2 DEF SafeInv, TypeInv, LinkTypes, Stepped, table
<1>1. /\ n \in nodes /\ n \in Nodes /\ pos \in 1..Len(fold) /\ Len(fold) \in Nat /\ op.cmd.id \in Nat
  BY <1>0, AtItem DEF TypeInv, CallTypes, Op, Command
<1>2. torn = {} => \A m \in Nodes : Aborting(link[m], Items(m, pos))
  BY <1>0 DEF SafeInv, Agree, NodeFits
<1>3. CASE link[n].multi
  <2>1. PICK o \in Direct(n, "DISCARD") :
          IF o.ok THEN /\ EndsTx(Disconnected([link EXCEPT ![n] = o.l]), <<NoAnswer(op.cmd.id)>>, {})
                       /\ UNCHANGED pos
          ELSE /\ link' = [link EXCEPT ![n] = [o.l EXCEPT !.multi = FALSE, !.watching = FALSE]]
               /\ torn' = torn \cup {"abort"} \cup Late(o)
               /\ pos' = pos + 1
               /\ UNCHANGED <<pc, ret, mode, fold, guarded, stale>>
    BY <1>3 DEF DiscardNode
  <2>2. CASE o.ok
    <3> DEFINE sent == [link EXCEPT ![n] = o.l]  ls == Disconnected(sent)  answers == <<NoAnswer(op.cmd.id)>>
    <3>1. EndsTx(ls, answers, {})
      BY <2>1, <2>2
    <3>2. o.l \in LinkType
      BY <1>0, <1>1, DirectType DEF TypeInv
    <3>3. ls \in [Nodes -> LinkType]
      <4>1. sent \in [Nodes -> LinkType]
        BY <1>0, <1>1, <3>2
      <4>. QED BY <4>1, DisconnectedType
    <3>4. answers \in Seq(Answers)
      BY <1>1 DEF NoAnswer, Answers
    <3>5. ASSUME torn = {}, NEW m \in Nodes
          PROVE  Sound(ls[m]) /\ ls[m].wire = <<>> /\ ls[m].tx = "none" /\ ~ls[m].multi
      <4>1. CASE m \in Attached
        <5>1. ls[m] = Closed
          BY <4>1 DEF Disconnected
        <5> HIDE DEF ls
        <5>. QED BY <5>1, NewLinksSound
      <4>2. CASE m \notin Attached
        <5>1. m \notin nodes /\ m # n
          BY <1>1, <4>2 DEF Attached
        <5>2. ls[m] = link[m]
          BY <1>0, <4>2, <5>1 DEF Disconnected
        <5>3. Items(m, pos) = {}
          <6>1. pos..Len(fold) \subseteq 1..Len(fold)
            BY <1>1
          <6>. QED BY <1>0, <5>1, <6>1, FoldItems DEF Items
        <5>4. Aborting(link[m], {})
          BY <1>2, <3>5, <5>3
        <5> HIDE DEF ls
        <5>. QED BY <5>2, <5>4 DEF Aborting
      <4>. QED BY <4>1, <4>2
    <3> HIDE DEF ls, answers
    <3>. QED BY <3>1, <3>3, <3>4, <3>5, EndsSafe
  <2>3. CASE ~o.ok
    <3>1. torn' # {} /\ UNCHANGED <<pc, mode, fold>>
      BY <2>1, <2>3
    <3>2. Stepped'
      BY <1>0, <3>1 DEF Stepped, OnTheWay
    <3>. QED BY <3>1, <3>2 DEF SafeInv, Agree, Replied
  <2>. QED BY <2>2, <2>3
<1>4. CASE ~link[n].multi
  <2>1. pos' = pos + 1 /\ UNCHANGED <<link, pc, ret, mode, fold, torn>>
    BY <1>4 DEF DiscardNode
  <2>2. Stepped'
    BY <1>0, <2>1 DEF Stepped, OnTheWay
  <2>3. Replied'
    BY <2>1 DEF SafeInv, Replied
  <2>4. Agree'
    <3> SUFFICES ASSUME torn = {} PROVE Aimed' /\ \A m \in Nodes : NodeFits(m)'
      BY <2>1 DEF Agree
    <3>1. ~InExec' /\ ~InCommand' /\ pc' = "abort" /\ missed' = {}
      BY <1>0, <2>1 DEF InExec, InCommand, OnTheWay
    <3>2. ASSUME NEW m \in Nodes PROVE Aborting(link'[m], Items(m, pos)')
      <4>1. Items(m, pos)' = IF n = m THEN Items(m, pos) \ {pos} ELSE Items(m, pos)
        BY <1>0, <1>1, <2>1, LeftAfter
      <4>2. Aborting(link[m], Items(m, pos))
        BY <1>2
      <4>3. CASE m = n
        BY <1>4, <2>1, <4>2, <4>3 DEF Aborting
      <4>4. CASE m # n
        BY <2>1, <4>1, <4>2, <4>4
      <4>. QED BY <4>3, <4>4
    <3>. QED BY <3>1, <3>2 DEF Aimed, NodeFits, Left
  <2>. QED BY <2>2, <2>3, <2>4 DEF SafeInv
<1>. QED BY <1>3, <1>4

LEMMA DiscardedSafe ==
  ASSUME SafeInv, Discarded, TypeInv'
  PROVE  SafeInv'
<1>1. /\ pc = "abort" /\ link \in [Nodes -> LinkType] /\ op.cmd.id \in Nat
      /\ Len(fold) \in Nat /\ pos = Len(fold) + 1
  <2>1. pc = "abort" /\ pos > Len(fold)
    BY DEF Discarded
  <2>2. pos \in Nat /\ Len(fold) \in Nat /\ pos <= Len(fold) + 1 /\ link \in [Nodes -> LinkType] /\ op.cmd.id \in Nat
    BY <2>1 DEF SafeInv, TypeInv, CallTypes, CallShape, LinkTypes, Op, Command
  <2>. QED BY <2>1, <2>2
<1>2. ASSUME torn = {}, NEW n \in Nodes
      PROVE  Sound(link[n]) /\ link[n].wire = <<>> /\ link[n].tx = "none" /\ ~link[n].multi
  <2>1. Items(n, pos) = {}
    BY <1>1, NothingLeft
  <2>2. Aborting(link[n], Items(n, pos))
    BY <1>1, <1>2 DEF SafeInv, Agree, NodeFits
  <2>. QED BY <2>1, <2>2 DEF Aborting
<1>3. CASE op.m = "exec"
  <2> DEFINE answers == <<NoAnswer(op.cmd.id)>>
  <2>1. EndsTx(link, answers, {})
    BY <1>3 DEF Discarded
  <2>2. answers \in Seq(Answers)
    BY <1>1 DEF NoAnswer, Answers
  <2> HIDE DEF answers
  <2>. QED BY <1>1, <1>2, <2>1, <2>2, EndsSafe
<1>4. CASE op.m # "exec"
  <2>1. mode' = "ATOMIC" /\ fold' = <<>> /\ pc' = "idle" /\ ret' = <<>> /\ UNCHANGED <<link, torn>>
    BY <1>4 DEF Discarded, Returns
  <2>2. Stepped'
    BY <2>1 DEF Stepped, OnTheWay
  <2>3. Agree'
    <3> SUFFICES ASSUME torn = {} PROVE Agree'
      BY <2>1 DEF Agree
    <3>1. \A n : Items(n, 1)' = {}
      <4>1. 1..Len(<<>>) = {}
        BY EmptySeq
      <4>. QED BY <2>1, <4>1 DEF Items
    <3>2. \A n \in Nodes : Quiet(link[n], fold', {}, FALSE)
      BY <1>1, <1>2, QuietMeans
    <3>. QED BY <2>1, <3>1, <3>2, QuietAgrees
  <2>. QED BY <2>1, <2>2, <2>3 DEF SafeInv, Replied
<1>. QED BY <1>3, <1>4

-----------------------------------------------------------------------------
(* unwatch(). *)

LEMMA UnwatchNodeSafe ==
  ASSUME SafeInv, UnwatchNode, TypeInv'
  PROVE  SafeInv'
<1>1. /\ pc = "unwatch" /\ pc' \in {"asking", "write"} /\ mode = "ATOMIC" /\ op.m = "unwatch" /\ fold = <<>>
      /\ op.cmd.name = "UNWATCH" /\ ~op.cmd.ro
      /\ UNCHANGED <<link, master, mode, fold, op, missed, ret, torn>>
  <2>1. /\ pc = "unwatch" /\ pc' \in {"asking", "write"}
        /\ UNCHANGED <<link, table, tx, op, missed, ret, history>>
    BY DEF UnwatchNode, Sending
  <2>. QED BY <2>1 DEF SafeInv, Stepped, table, tx, history
<1>2. Stepped'
  BY <1>1 DEF Stepped, OnTheWay
<1>3. Replied'
  BY <1>1 DEF SafeInv, Replied
<1>4. Agree'
  <2> SUFFICES ASSUME torn = {} PROVE Aimed' /\ \A m \in Nodes : NodeFits(m)'
    BY <1>1 DEF Agree
  <2>1. ~InExec' /\ \A m : Items(m, 1) = {} /\ Items(m, 1)' = {} /\ ~Reading(m)' /\ Next1(m)' = FALSE /\ ~Left(m)'
    BY <1>1, NothingQueued DEF InExec, Reading, Next1, Left, Items
  <2>2. \A m \in Nodes : Quiet(link[m], fold, {}, FALSE)
    BY <1>1, <2>1, AllQuiet
  <2>3. Aimed'
    BY <1>1, <2>1 DEF Aimed
  <2>4. \A m \in Nodes : NodeFits(m)'
    BY <1>1, <2>1, <2>2 DEF NodeFits, Fits
  <2>. QED BY <2>3, <2>4
<1>. QED BY <1>2, <1>3, <1>4 DEF SafeInv

LEMMA UnwatchedSafe ==
  ASSUME SafeInv, Unwatched, TypeInv'
  PROVE  SafeInv'
<1>1. /\ pc = "unwatch" /\ pc' = "idle" /\ ret' = <<>> /\ UNCHANGED <<link, master, mode, fold, torn>>
  BY DEF Unwatched, Returns, table, tx, history
<1>2. Stepped'
  BY <1>1 DEF SafeInv, Stepped, OnTheWay
<1>3. Agree'
  <2> SUFFICES ASSUME torn = {} PROVE Agree'
    BY <1>1 DEF Agree
  <2>1. \A n \in Nodes : Quiet(link'[n], fold', Items(n, 1)', FALSE)
    BY <1>1, AllQuiet DEF Items
  <2>. QED BY <1>1, <2>1, QuietAgrees
<1>. QED BY <1>1, <1>2, <1>3 DEF SafeInv, Replied

-----------------------------------------------------------------------------
(* The theorems. *)

LEMMA SafeInductive ==
  ASSUME SafeInv, [Next]_vars
  PROVE  SafeInv'
<1>1. TypeInv'
  BY TypesInductive DEF SafeInv
<1>2. CASE Continue
  BY <1>1, <1>2, SendMultiSafe, SendAskingSafe, WriteSafe, ReadSafe, ExecNodeSafe, ReadExecSafe, ExecSentSafe,
     CollectReplySafe, CollectedSafe, DiscardNodeSafe, DiscardedSafe, UnwatchNodeSafe, UnwatchedSafe
     DEF Continue
<1>3. CASE UNCHANGED vars
  <2>1. UNCHANGED <<link, table, tx, target, call, torn>> /\ TypeInv /\ LinkTypes'
    BY <1>1, <1>3 DEF vars, history, SafeInv, TypeInv
  <2>2. \A n \in Nodes : Alike(link[n], link'[n])
    BY <2>1, AlikeItself DEF TypeInv, LinkTypes
  <2>3. Agree'
    BY <2>1, <2>2, AlikeKeeps DEF SafeInv, Agree
  <2>4. Stepped' /\ Replied'
    BY <2>1 DEF SafeInv, Stepped, Replied, table, tx, target, call
  <2>. QED BY <1>1, <2>3, <2>4 DEF SafeInv
<1>. QED BY <1>1, <1>2, <1>3, BeginSafe, EnvironmentSafe DEF Next

LEMMA RepliesFollow ==
  ASSUME SafeInv
  PROVE  RepliesMatched
<1>1. ReplyIsOurs
  <2> SUFFICES ASSUME torn = {}, NEW i \in 1..Len(ret) PROVE ret[i].for = ret[i].id
    BY DEF ReplyIsOurs
  <2>1. ret \in Seq(Answers)
    BY DEF SafeInv, Replied
  <2>2. ret[i] \in Answers
    <3> DEFINE A == Answers
    <3>1. ret \in Seq(A)
      BY <2>1
    <3> HIDE DEF A
    <3>2. ret[i] \in A
      BY <3>1
    <3>. QED BY <3>2 DEF A
  <2>. QED BY <2>2 DEF Answers
<1>2. NothingUnread
  <2> SUFFICES ASSUME pc = "idle", torn = {}, NEW n \in Nodes PROVE link[n].wire = <<>>
    BY DEF NothingUnread
  <2>1. Quiet(link[n], fold, Items(n, 1), FALSE)
    BY AllQuiet
  <2>. QED BY <2>1 DEF Quiet
<1>. QED BY <1>1, <1>2 DEF RepliesMatched

LEMMA MirrorFollows ==
  ASSUME SafeInv
  PROVE  TxMirrored
<1> SUFFICES ASSUME pc = "idle", torn = {}, NEW n \in Nodes, link[n].open /\ ~link[n].eof
             PROVE  /\ link[n].multi <=> link[n].tx # "none"
                    /\ link[n].tx # "none" => mode = "MULTI"
  BY DEF TxMirrored
<1>1. Quiet(link[n], fold, Items(n, 1), FALSE)
  BY AllQuiet
<1>2. link[n].multi <=> link[n].tx # "none"
  BY <1>1 DEF Quiet
<1>3. ASSUME link[n].multi PROVE mode = "MULTI"
  <2>1. Items(n, 1) # {}
    BY <1>1, <1>3 DEF Quiet
  <2>2. fold # <<>>
    BY <2>1, NothingQueued
  <2>3. mode \in {"ATOMIC", "MULTI"} /\ (mode = "ATOMIC" => fold = <<>>)
    BY DEF SafeInv, TypeInv, CallTypes, Stepped
  <2>. QED BY <2>2, <2>3
<1>. QED BY <1>2, <1>3

LEMMA SafeAlways == Spec => []SafeInv
<1>1. Init => SafeInv
  BY StartsSafe
<1>2. SafeInv /\ [Next]_vars => SafeInv'
  BY SafeInductive
<1>. QED BY <1>1, <1>2, PTL DEF Spec

\* Whatever slots move, nodes die and connections close between any two steps of a call, as long
\* as none of Tears has happened: the reply that cluster_check_response or
\* cluster_multi_mbulk_resp hands over is the one to that command, and when a call has ended no
\* connection has a reply left that the next command would take for its own.
THEOREM RepliesAreMatched == Spec => []RepliesMatched
<1>1. SafeInv => RepliesMatched
  BY RepliesFollow
<1>. QED BY <1>1, SafeAlways, PTL

\* And the mode that phpredis has for each socket is the server's: cluster_send_multi put a node in MULTI
\* exactly if RedisSock.mode says so, and no node is in MULTI when the application is not.
THEOREM TransactionsMirrored == Spec => []TxMirrored
<1>1. SafeInv => TxMirrored
  BY MirrorFollows
<1>. QED BY <1>1, SafeAlways, PTL

-----------------------------------------------------------------------------
(* The invariant of watched keys. *)

\* The connection is told of a write to s, and has been if there was one: or its server has closed it.
Watches(l, s, written) ==
  l.open /\ l.watching /\ (l.eof \/ (s \in l.watched /\ (written => l.touched)))

\* In exec(), what matters is the connections that EXEC has not been sent to.
WatchesYet(l, s, written) == l.tx # "none" => s \in l.watched /\ (written => l.touched)

Executes == op.m = "exec" /\ pc # "idle"
Minds(l, s, written) == IF Executes THEN WatchesYet(l, s, written) ELSE Watches(l, s, written)

\* The master of the slot has failed the command that is being written: cluster_sock_write goes on to
\* other nodes, or fails.
LostTo(s) == \E k \in 1..3 : <<k, master[s]>> \in missed

Guarding == torn = {} =>
  \A s \in guarded : LostTo(s) \/ Minds(link[master[s]], s, s \in stale)

\* unwatch() goes from node to node with nothing guarded.
LetGo == op.m = "unwatch" /\ pc # "idle" => guarded = {}

\* A command is queued by the master of its slot.
OfNode(queue, n) == \A i \in 1..Len(queue) : queue[i].slot = None \/ master[queue[i].slot] = n
QueuedHere == torn = {} => \A n \in Nodes : OfNode(link[n].queue, n)

\* A good answer to WATCH means that the server watches.
WatchAnswered == torn = {} /\ pc = "read" /\ op.m = "watch" =>
  (link[cmdSock].wire # <<>> /\ link[cmdSock].wire[1].kind \in Good => op.slot \in link[cmdSock].watched)

Addressed == /\ op.cmd.slot \in {None, op.slot}
             /\ op.m = "watch" => op.cmd.name = "WATCH" /\ op.cmd.slot = op.slot

Effect == [id : Nat, slot : Slots \cup {None}, by : {"itself", "EXEC"}]

WatchInv == /\ SafeInv /\ LetGo
            /\ Guarding /\ QueuedHere /\ WatchAnswered /\ Addressed
            /\ effects \in Seq(Effect)

-----------------------------------------------------------------------------
(* What a step may do to the connections. *)

LEMMA AllSound ==
  ASSUME SafeInv, torn = {}, NEW n \in Nodes
  PROVE  Sound(link[n])
<1>1. NodeFits(n)
  BY DEF SafeInv, Agree
<1>2. InCommand \/ InExec \/ ~Reading(n)
  BY DEF InCommand, InExec, Reading, OnTheWay
<1>. QED BY <1>1, <1>2 DEF NodeFits, Fits, Quiet, Answering, Executing, Executed, Aborting, Gone

\* Outside a transaction nothing is queued.
LEMMA NoneQueued ==
  ASSUME SafeInv, torn = {}, mode = "ATOMIC", NEW n \in Nodes
  PROVE  link[n].tx = "none" /\ link[n].queue = <<>>
<1>1. NodeFits(n) /\ Sound(link[n]) /\ link[n] \in LinkType
  BY AllSound DEF SafeInv, Agree, TypeInv, LinkTypes
<1>2. fold = <<>> /\ pc \in {"idle", "unwatch"} \cup OnTheWay /\ ~Left(n)
  BY DEF SafeInv, Stepped, TypeInv, CallTypes, OnTheWay, Left
<1>3. ~InExec /\ Next1(n) = FALSE /\ (Reading(n) => InCommand)
  BY <1>2 DEF SafeInv, Stepped, InExec, OnTheWay, Next1, InCommand, Reading
<1>4. Items(n, 1) = {}
  BY <1>2, NothingQueued
<1>5. CASE Reading(n)
  <2>1. Answering(link[n], fold, {}, FALSE, op.cmd.id)
    BY <1>1, <1>3, <1>4, <1>5 DEF NodeFits
  <2>2. link[n].tx = "none"
    BY <2>1 DEF Answering
  <2>. QED BY <1>1, <2>2 DEF Sound
<1>6. CASE ~Reading(n)
  <2>1. Quiet(link[n], fold, {}, FALSE)
    BY <1>1, <1>2, <1>3, <1>4, <1>6 DEF NodeFits, Fits, OnTheWay
  <2>2. link[n].tx = "none"
    BY <1>1, <2>1, QuietMeans
  <2>. QED BY <1>1, <2>2 DEF Sound
<1>. QED BY <1>5, <1>6

LEMMA QueuesKept ==
  ASSUME QueuedHere, torn \subseteq torn', master' = master,
         \A m \in Nodes : link'[m].queue = link[m].queue \/ link'[m].queue = <<>>
  PROVE  QueuedHere'
<1> SUFFICES ASSUME torn = {}, NEW n \in Nodes PROVE OfNode(link[n].queue, n)'
  BY DEF QueuedHere
<1>1. OfNode(link[n].queue, n)
  BY DEF QueuedHere
<1>2. CASE link'[n].queue = link[n].queue
  BY <1>1, <1>2 DEF OfNode
<1>3. CASE link'[n].queue = <<>>
  <2>1. 1..Len(<<>>) = {}
    BY EmptySeq
  <2>. QED BY <1>3, <2>1 DEF OfNode
<1>. QED BY <1>2, <1>3

\* The connection minds what it did.
Heeds(l, k, s, w) == /\ Watches(l, s, w) => Watches(k, s, w)
                     /\ WatchesYet(l, s, w) => WatchesYet(k, s, w)
\* ... as far as it matters here.
HeedsHere(l, k, s, w) == Minds(l, s, w) => Minds(k, s, w)

LEMMA GuardingKept ==
  ASSUME TypeInv, Guarding, torn \subseteq torn', Executes' = Executes,
         UNCHANGED <<master, guarded, stale>>,
         torn' = {} => \A m \in Nodes : \A s \in guarded :
           m = master[s] => LostTo(s)' \/ (~LostTo(s) /\ HeedsHere(link[m], link'[m], s, s \in stale))
  PROVE  Guarding'
<1> SUFFICES ASSUME torn' = {}, NEW s \in guarded, ~LostTo(s)'
             PROVE  Minds(link[master[s]], s, s \in stale)'
  BY DEF Guarding
<1>1. master[s] \in Nodes /\ torn = {}
  BY HasMaster DEF TypeInv, CallTypes
<1>2. ~LostTo(s) /\ HeedsHere(link[master[s]], link'[master[s]], s, s \in stale)
  BY <1>1
<1>3. Minds(link[master[s]], s, s \in stale)
  BY <1>1, <1>2 DEF Guarding
<1> DEFINE l == link[master[s]]  k == link'[master[s]]  w == s \in stale
<1>4. Minds(l, s, w) /\ HeedsHere(l, k, s, w)
  BY <1>2, <1>3
<1>5. Minds(link[master[s]], s, s \in stale)' = IF Executes' THEN WatchesYet(k, s, w) ELSE Watches(k, s, w)
  BY DEF Minds, WatchesYet, Watches
<1> HIDE DEF l, k, w
<1>. QED BY <1>4, <1>5 DEF Minds, HeedsHere

\* The two connections look alike to those who watch.
SameWatch(l, k) == /\ k.open = l.open /\ k.watching = l.watching /\ k.eof = l.eof /\ k.tx = l.tx
                   /\ k.watched = l.watched /\ k.touched = l.touched

LEMMA SameHeeds ==
  ASSUME NEW l, NEW k, SameWatch(l, k), NEW s, NEW w
  PROVE  HeedsHere(l, k, s, w)
BY DEF HeedsHere, Minds, Watches, WatchesYet, SameWatch

LEMMA ChangesNotWatch ==
  ASSUME NEW l \in LinkType
  PROVE  /\ SameWatch(l, l)
         /\ \A b \in BOOLEAN : /\ SameWatch(l, [l EXCEPT !.multi = b]) /\ [l EXCEPT !.multi = b].queue = l.queue
                               /\ SameWatch(l, [l EXCEPT !.readonly = b]) /\ [l EXCEPT !.readonly = b].queue = l.queue
         /\ \A w : SameWatch(l, [l EXCEPT !.wire = w]) /\ [l EXCEPT !.wire = w].queue = l.queue
<1>1. SameWatch(l, l)
  BY DEF SameWatch
<1>2. ASSUME NEW b \in BOOLEAN
      PROVE  SameWatch(l, [l EXCEPT !.multi = b]) /\ [l EXCEPT !.multi = b].queue = l.queue
  BY DEF SameWatch, LinkType
<1>3. ASSUME NEW b \in BOOLEAN
      PROVE  SameWatch(l, [l EXCEPT !.readonly = b]) /\ [l EXCEPT !.readonly = b].queue = l.queue
  BY DEF SameWatch, LinkType
<1>4. ASSUME NEW w PROVE SameWatch(l, [l EXCEPT !.wire = w]) /\ [l EXCEPT !.wire = w].queue = l.queue
  BY DEF SameWatch, LinkType
<1>. QED BY <1>1, <1>2, <1>3, <1>4

LEMMA WireNotWatch ==
  ASSUME NEW l \in LinkType, NEW w, NEW k, k = [l EXCEPT !.wire = w]
  PROVE  SameWatch(l, k) /\ k.queue = l.queue
BY DEF SameWatch, LinkType

LEMMA LiveWatch ==
  ASSUME NEW n \in Nodes
  PROVE  /\ Live(n) \in {link[n], Fresh, Closed}
         /\ link[n].open /\ link[n].watching /\ Live(n).open => Live(n) = link[n]
         /\ Live(n).queue \in {<<>>, link[n].queue}
<1>1. Closed.open = FALSE /\ Closed.queue = <<>> /\ Fresh.queue = <<>>
  BY NewLinksSound
<1>. QED BY <1>1 DEF Live

-----------------------------------------------------------------------------
(* The steps of a call, but for the writing and reading of commands. *)

\* What most steps leave as it is.
QueuesStay == \A m \in Nodes : link'[m].queue = link[m].queue \/ link'[m].queue = <<>>
Uneventful == /\ pc' # "read" /\ torn \subseteq torn' /\ QueuesStay
              /\ UNCHANGED <<master, op, effects>>

\* When nothing is guarded any more there is nothing to mind.
LEMMA Unguards ==
  ASSUME WatchInv, SafeInv', LetGo', Uneventful, guarded' = {}
  PROVE  WatchInv'
<1>1. QueuedHere'
  BY QueuesKept DEF WatchInv, Uneventful, QueuesStay
<1>2. Guarding' /\ WatchAnswered' /\ Addressed' /\ effects' \in Seq(Effect)
  BY DEF WatchInv, Uneventful, Guarding, WatchAnswered, Addressed
<1>. QED BY <1>1, <1>2 DEF WatchInv

\* And a step that keeps the connections minds what the step before it did.
LEMMA Continues ==
  ASSUME WatchInv, SafeInv', LetGo', Uneventful, UNCHANGED <<guarded, stale, missed>>,
         Executes' = Executes,
         torn' = {} => \A m \in Nodes : \A s \in guarded : HeedsHere(link[m], link'[m], s, s \in stale)
  PROVE  WatchInv'
<1>1. QueuedHere'
  BY QueuesKept DEF WatchInv, Uneventful, QueuesStay
<1>2. Guarding'
  <2>1. /\ TypeInv /\ Guarding /\ torn \subseteq torn' /\ UNCHANGED <<master, guarded, stale>>
        /\ \A s : LostTo(s)' = LostTo(s)
    BY DEF WatchInv, SafeInv, Uneventful, LostTo
  <2>. QED BY <2>1, GuardingKept
<1>3. WatchAnswered' /\ Addressed' /\ effects' \in Seq(Effect)
  BY DEF WatchInv, Uneventful, WatchAnswered, Addressed
<1>. QED BY <1>1, <1>2, <1>3 DEF WatchInv

LEMMA FailsUnguards ==
  ASSUME WatchInv, SafeInv', LetGo', NEW ACTION ls, NEW ACTION type, NEW ACTION tears, Fails(ls, type, tears),
         UNCHANGED <<master, op, effects>>,
         \A m \in Nodes : ls[m].queue = link[m].queue \/ ls[m].queue = <<>>
  PROVE  WatchInv'
<1>1. /\ guarded' = {} /\ torn \subseteq torn' /\ link' = ls
      /\ pc' \in {"idle", "abort"}
  BY DEF Fails, Unguarded, Returns
<1>2. Uneventful
  BY <1>1 DEF Uneventful, QueuesStay
<1>. QED BY <1>1, <1>2, Unguards

LEMMA EndsUnguards ==
  ASSUME WatchInv, SafeInv', LetGo', NEW ACTION ls, ls \in [Nodes -> LinkType], NEW ACTION answers, NEW ACTION tears,
         EndsTx(ls, answers, tears), UNCHANGED <<master, op, effects>>,
         \A m \in Nodes : ls[m].queue = link[m].queue \/ ls[m].queue = <<>>
  PROVE  WatchInv'
<1>1. /\ guarded' = {} /\ torn \subseteq torn' /\ link' = Reset(ls) /\ pc' = "idle"
  BY DEF EndsTx, Unguarded, Returns
<1>2. \A m \in Nodes : Reset(ls)[m].queue = ls[m].queue
  <2>1. \A l \in LinkType : [l EXCEPT !.multi = FALSE, !.watching = FALSE].queue = l.queue
    BY DEF LinkType
  <2> SUFFICES ASSUME NEW m \in Nodes PROVE Reset(ls)[m].queue = ls[m].queue
    OBVIOUS
  <2>2. ls[m] \in LinkType
    OBVIOUS
  <2>3. Reset(ls)[m] = ls[m] \/ Reset(ls)[m] = [ls[m] EXCEPT !.multi = FALSE, !.watching = FALSE]
    BY DEF Reset
  <2>. QED BY <2>1, <2>2, <2>3
<1>3. Uneventful
  BY <1>1, <1>2 DEF Uneventful, QueuesStay
<1>. QED BY <1>1, <1>3, Unguards

LEMMA StartsGuarding == Init => WatchInv
<1> SUFFICES ASSUME Init PROVE WatchInv
  OBVIOUS
<1>1. SafeInv
  BY StartsSafe
<1>2. guarded = {} /\ pc = "idle" /\ op = NoOp /\ effects = <<>> /\ \A n \in Nodes : link[n] = Closed
  BY DEF Init
<1>3. Guarding /\ WatchAnswered /\ LetGo
  BY <1>2 DEF Guarding, WatchAnswered, LetGo
<1>4. QueuedHere
  <2>1. Closed.queue = <<>> /\ 1..Len(<<>>) = {}
    BY NewLinksSound, EmptySeq
  <2>. QED BY <1>2, <2>1 DEF QueuedHere, OfNode
<1>5. Addressed
  BY <1>2 DEF Addressed, NoOp, Control
<1>6. effects \in Seq(Effect)
  BY <1>2
<1>. QED BY <1>1, <1>3, <1>4, <1>5, <1>6 DEF WatchInv

LEMMA SendGuards ==
  ASSUME WatchInv, SafeInv', LetGo', pc = "idle", NEW s \in Slots, NEW readonly,
         NEW m \in {"write", "read", "directed", "watch"}, NEW name \in {"DATA", "NODE", "WATCH"},
         m = "watch" => name = "WATCH", Send(m, name, s, readonly)
  PROVE  WatchInv'
<1>1. /\ UNCHANGED <<link, master, missed, guarded, stale, torn>> /\ effects' = <<>>
      /\ pc' \in {"idle", "multi", "asking", "write"} /\ op'.m = m
      /\ op'.slot = s /\ op'.cmd.name = name /\ op'.cmd.slot = (IF name = "NODE" THEN None ELSE s)
  BY DEF Send, table, Sending, Returns
<1>2. ~Executes /\ ~Executes'
  BY <1>1 DEF Executes
<1>3. Guarding'
  BY <1>1, <1>2 DEF WatchInv, Guarding, Minds, Watches, LostTo
<1>4. QueuedHere'
  BY <1>1 DEF WatchInv, QueuedHere, OfNode
<1>5. Addressed' /\ WatchAnswered' /\ effects' \in Seq(Effect)
  BY <1>1 DEF Addressed, WatchAnswered
<1>. QED BY <1>3, <1>4, <1>5 DEF WatchInv

\* The other methods.
LEMMA NumberedGuards ==
  ASSUME WatchInv, SafeInv', LetGo', pc = "idle", NEW m, NEW name, m # "watch", Numbered(m, name),
         UNCHANGED <<master, missed>>, torn \subseteq torn', QueuesStay, pc' \notin OnTheWay,
         guarded' = {} \/ (UNCHANGED <<link, guarded, stale, torn>> /\ (m = "exec" => pc' = "exec"))
  PROVE  WatchInv'
<1>1. effects' = <<>> /\ op'.m = m /\ op'.slot = None /\ op'.cmd = [Control(name) EXCEPT !.id = NextId]
  BY DEF Numbered
<1>2. Addressed'
  <2>1. [Control(name) EXCEPT !.id = NextId].slot = None
    BY DEF Control
  <2>. QED BY <1>1, <2>1 DEF Addressed
<1>3. QueuedHere'
  BY QueuesKept DEF WatchInv, QueuesStay
<1>4. WatchAnswered' /\ effects' \in Seq(Effect)
  BY <1>1 DEF WatchAnswered, OnTheWay
<1>5. Guarding'
  <2>1. CASE guarded' = {}
    BY <2>1 DEF Guarding
  <2>2. CASE UNCHANGED <<link, guarded, stale, torn>>
    <3> SUFFICES ASSUME torn = {}, NEW s \in guarded PROVE Minds(link[master[s]], s, s \in stale)'
      BY <2>2 DEF Guarding
    <3>1. master[s] \in Nodes /\ ~LostTo(s)
      <4>1. TypeInv /\ s \in Slots /\ missed = {}
        BY DEF WatchInv, SafeInv, TypeInv, CallTypes, CallShape
      <4>. QED BY <4>1, HasMaster DEF LostTo
    <3>2. Watches(link[master[s]], s, s \in stale)
      BY <3>1 DEF WatchInv, Guarding, Minds, Executes
    <3>3. Sound(link[master[s]])
      BY <3>1, AllSound DEF WatchInv
    <3>4. WatchesYet(link[master[s]], s, s \in stale)
      BY <3>2, <3>3 DEF Watches, WatchesYet, Sound
    <3>. QED BY <2>2, <3>2, <3>4 DEF Minds, Watches, WatchesYet
  <2>. QED BY <2>1, <2>2
<1>. QED BY <1>2, <1>3, <1>4, <1>5 DEF WatchInv

LEMMA BeginGuards ==
  ASSUME WatchInv, Begin, SafeInv', LetGo'
  PROVE  WatchInv'
<1>1. ASSUME NEW s \in Slots, CallCommand(s) \/ CallRead(s) \/ CallDirected(s) \/ CallWatch(s)
      PROVE  WatchInv'
  BY <1>1, SendGuards DEF CallCommand, CallRead, CallDirected, CallWatch, Idle
<1>2. CASE CallMulti
  BY <1>2, NumberedGuards DEF CallMulti, Idle, Returns, table, target, QueuesStay, OnTheWay
<1>3. CASE CallExec
  BY <1>3, NumberedGuards DEF CallExec, Idle, table, target, QueuesStay, OnTheWay
<1>4. CASE CallDiscard
  BY <1>4, NumberedGuards DEF CallDiscard, Idle, table, target, QueuesStay, OnTheWay
<1>5. CASE CallUnwatch
  BY <1>5, NumberedGuards DEF CallUnwatch, Idle, Unguarded, table, target, QueuesStay, OnTheWay
<1>6. ASSUME NEW m \in Nodes
      PROVE  Disconnected(link)[m].queue = link[m].queue \/ Disconnected(link)[m].queue = <<>>
  BY NewLinksSound DEF Disconnected
<1>7. CASE CallClose
  <2>1. /\ pc = "idle" /\ Numbered("close", "NODE") /\ UNCHANGED <<master, missed>> /\ torn \subseteq torn'
        /\ pc' = "idle" /\ guarded' = {} /\ link' = Disconnected(link)
    BY <1>7 DEF CallClose, Idle, table, target, Returns, Unguarded
  <2>2. QueuesStay
    BY <1>6, <2>1 DEF QueuesStay
  <2>. QED BY <2>1, <2>2, NumberedGuards DEF OnTheWay
<1>8. CASE CallReconnect
  <2>1. /\ pc = "idle" /\ Numbered("reconnect", "NODE") /\ UNCHANGED <<master, missed, torn>>
        /\ pc' = "idle" /\ guarded' = {}
    BY <1>8 DEF CallReconnect, Idle, table, target, Returns, Unguarded
  <2>2. \A m \in Nodes : link'[m] = Fresh \/ link'[m] = Disconnected(link)[m] \/ link'[m] = link[m]
    BY <1>8 DEF CallReconnect
  <2>3. QueuesStay
    BY <1>6, <2>2, NewLinksSound DEF QueuesStay
  <2>. QED BY <2>1, <2>3, NumberedGuards DEF OnTheWay
<1>. QED BY <1>1, <1>2, <1>3, <1>4, <1>5, <1>7, <1>8 DEF Begin

\* What happens to the cluster: a write is told to those who watch, and a server that closes a
\* connection takes its watching with it.
LEMMA DroppedWatch ==
  ASSUME NEW l \in LinkType, NEW s, NEW w
  PROVE  /\ Heeds(l, Dropped(l), s, w) /\ (Dropped(l).queue = l.queue \/ Dropped(l).queue = <<>>)
         /\ Dropped(l) = l \/ Dropped(l).wire = <<>>
<1>1. CASE l.open
  <2> DEFINE m == l.multi  b == l.watching  r == l.readonly
             d == [Closed EXCEPT !.open = TRUE, !.multi = m, !.eof = TRUE, !.watching = b, !.readonly = r]
  <2>1. Dropped(l) = d
    BY <1>1 DEF Dropped
  <2> HIDE DEF m, b, r
  <2>2. /\ d.open = TRUE /\ d.eof = TRUE /\ d.watching = b /\ d.wire = <<>> /\ d.tx = "none" /\ d.queue = <<>>
    BY DEF Closed
  <2> HIDE DEF d
  <2>. QED BY <2>1, <2>2 DEF Heeds, Watches, WatchesYet, b
<1>2. CASE ~l.open
  BY <1>2 DEF Dropped, Heeds
<1>. QED BY <1>1, <1>2

\* s is written if it has been or is now.
LEMMA TouchedWatch ==
  ASSUME NEW l \in LinkType
  PROVE  LET k == [l EXCEPT !.touched = TRUE] IN
         /\ k.open = l.open /\ k.watching = l.watching /\ k.eof = l.eof /\ k.tx = l.tx
         /\ k.watched = l.watched /\ k.touched = TRUE /\ k.queue = l.queue /\ k.wire = l.wire
BY DEF LinkType

LEMMA EnvironmentGuards ==
  ASSUME WatchInv, Environment, SafeInv', LetGo'
  PROVE  WatchInv'
<1>0. /\ TypeInv /\ link \in [Nodes -> LinkType] /\ guarded \subseteq Slots
      /\ UNCHANGED <<master, op, pc, mode, cmdSock, missed, effects, guarded, torn>>
  <2>1. UNCHANGED <<master, op, pc, mode, cmdSock, missed, effects, guarded, torn>>
    BY DEF Environment, KeyWritten, MigrationEnds, SlotMoves, KeyMoves,
           ServerCloses, NodeDies, history, table, tx, target, call
  <2>. QED BY <2>1 DEF WatchInv, SafeInv, TypeInv, LinkTypes, CallTypes, TableTypes
\* The three kinds of step there are.
<1>1. \/ \E s \in Slots : link' = Touched(link, s) /\ stale' = stale \cup ({s} \cap guarded)
      \/ \E s \in Slots : link' = Touched(link, s) /\ stale' = stale
      \/ (\E n \in Nodes : link' = [link EXCEPT ![n] = Dropped(@)]) /\ stale' = stale
      \/ link' = link /\ stale' = stale
  BY DEF Environment, KeyWritten, MigrationEnds, SlotMoves, KeyMoves, ServerCloses, NodeDies, history
\* A connection that watches is one of these.
<1>2. ASSUME NEW m \in Nodes
      PROVE  /\ link'[m].queue = link[m].queue \/ link'[m].queue = <<>>
             /\ link'[m].wire = <<>> \/ (link'[m].wire = link[m].wire /\ link'[m].watched = link[m].watched)
             /\ \A s \in guarded : /\ Watches(link[m], s, s \in stale) => Watches(link'[m], s, s \in stale')
                                   /\ WatchesYet(link[m], s, s \in stale) => WatchesYet(link'[m], s, s \in stale')
  <2> DEFINE l == link[m]
  <2>0. l \in LinkType
    BY <1>0
  <2>1. ASSUME NEW t \in Slots, link' = Touched(link, t), stale' \subseteq stale \cup {t}
        PROVE  /\ link'[m].queue = l.queue
               /\ link'[m].wire = l.wire /\ link'[m].watched = l.watched
               /\ \A s \in guarded : /\ Watches(l, s, s \in stale) => Watches(link'[m], s, s \in stale')
                                     /\ WatchesYet(l, s, s \in stale) => WatchesYet(link'[m], s, s \in stale')
    <3>1. link'[m] = IF t \in l.watched THEN [l EXCEPT !.touched = TRUE] ELSE l
      BY <2>1 DEF Touched
    <3> HIDE DEF l
    <3> DEFINE k == [l EXCEPT !.touched = TRUE]
    <3>2. /\ k.open = l.open /\ k.watching = l.watching /\ k.eof = l.eof /\ k.tx = l.tx
          /\ k.watched = l.watched /\ k.touched = TRUE /\ k.queue = l.queue /\ k.wire = l.wire
      BY <2>0, TouchedWatch
    <3> HIDE DEF k
    <3>3. link'[m] = IF t \in l.watched THEN k ELSE l
      BY <3>1 DEF k
    <3>4. ASSUME NEW s \in guarded
          PROVE  /\ Watches(l, s, s \in stale) => Watches(link'[m], s, s \in stale')
                 /\ WatchesYet(l, s, s \in stale) => WatchesYet(link'[m], s, s \in stale')
      <4>1. CASE t \in l.watched
        BY <3>2, <3>3, <4>1 DEF Watches, WatchesYet
      <4>2. CASE t \notin l.watched
        <5>1. s \in l.watched /\ s \in stale' => s \in stale
          BY <2>1, <4>2
        <5>. QED BY <3>3, <4>2, <5>1 DEF Watches, WatchesYet
      <4>. QED BY <4>1, <4>2
    <3>. QED BY <3>2, <3>3, <3>4
  <2>2. CASE \E s \in Slots : link' = Touched(link, s) /\ stale' = stale \cup ({s} \cap guarded)
    BY <2>1, <2>2
  <2>3. CASE \E s \in Slots : link' = Touched(link, s) /\ stale' = stale
    BY <2>1, <2>3
  <2>4. CASE (\E n \in Nodes : link' = [link EXCEPT ![n] = Dropped(@)]) /\ stale' = stale
    <3>1. link'[m] = l \/ link'[m] = Dropped(l)
      BY <1>0, <2>4
    <3>2. Dropped(l).queue = l.queue \/ Dropped(l).queue = <<>>
      BY <2>0, DroppedWatch
    <3>3. Dropped(l) = l \/ Dropped(l).wire = <<>>
      BY <2>0, DroppedWatch
    <3>4. \A s \in guarded : Heeds(l, Dropped(l), s, s \in stale)
      BY <2>0, DroppedWatch
    <3> HIDE DEF l
    <3>. QED BY <2>4, <3>1, <3>2, <3>3, <3>4 DEF l, Heeds
  <2>5. CASE link' = link /\ stale' = stale
    BY <2>5
  <2>. QED BY <1>1, <2>2, <2>3, <2>4, <2>5
<1>3. QueuedHere'
  BY <1>0, <1>2, QueuesKept DEF WatchInv
<1>4. Guarding'
  <2> SUFFICES ASSUME torn = {}, NEW s \in guarded, ~LostTo(s)
               PROVE  Minds(link[master[s]], s, s \in stale)'
    BY <1>0 DEF Guarding, LostTo
  <2> DEFINE n == master[s]  l == link[n]  k == link'[n]
  <2>1. n \in Nodes /\ Minds(l, s, s \in stale)
    BY <1>0, HasMaster DEF WatchInv, Guarding
  <2>2. /\ Watches(l, s, s \in stale) => Watches(k, s, s \in stale')
        /\ WatchesYet(l, s, s \in stale) => WatchesYet(k, s, s \in stale')
    BY <1>2, <2>1
  <2>3. Minds(link[master[s]], s, s \in stale)' = IF Executes THEN WatchesYet(k, s, s \in stale') ELSE Watches(k, s, s \in stale')
    BY <1>0 DEF Minds, Watches, WatchesYet, Executes
  <2> HIDE DEF l, k
  <2>. QED BY <2>1, <2>2, <2>3 DEF Minds
<1>5. WatchAnswered'
  <2> SUFFICES ASSUME torn = {}, pc = "read", op.m = "watch", link'[cmdSock].wire # <<>>,
                      link'[cmdSock].wire[1].kind \in Good
               PROVE  op.slot \in link'[cmdSock].watched
    BY <1>0 DEF WatchAnswered
  <2>1. cmdSock \in Nodes
    BY <1>0 DEF TypeInv, CallShape, OnTheWay
  <2>2. link'[cmdSock].wire = link[cmdSock].wire /\ link'[cmdSock].watched = link[cmdSock].watched
    BY <1>2, <2>1
  <2>. QED BY <2>2 DEF WatchInv, WatchAnswered
<1>6. Addressed' /\ effects' \in Seq(Effect)
  BY <1>0 DEF WatchInv, Addressed
<1>. QED BY <1>3, <1>4, <1>5, <1>6 DEF WatchInv

\* MULTI and ASKING.
LEMMA DirectWatch ==
  ASSUME TypeInv, NEW n \in Nodes, NEW name \in {"MULTI", "DISCARD", "READONLY", "ASKING"}, NEW o \in Direct(n, name)
  PROVE  /\ o.l.queue = link[n].queue \/ o.l.queue = <<>>
         /\ o.ok => /\ Live(n).open
                    /\ o.l.open = Live(n).open /\ o.l.watching = Live(n).watching /\ o.l.eof = Live(n).eof
                    /\ name # "DISCARD" => /\ o.l.watched = Live(n).watched
                                                       /\ o.l.touched = Live(n).touched
                    /\ name \in {"READONLY", "ASKING"} => o.l.tx = Live(n).tx
<1> DEFINE live == Live(n)  c == Control(name)
           l == Served(n, Live(n), c, FALSE)
           kind == KindOf(n, live, c, FALSE)
           first == l.wire[1]
           other == <<[first EXCEPT !.kind = "rest"]>> \o Tail(l.wire)
           answered == IF first.kind = "ok" THEN [l EXCEPT !.wire = Tail(l.wire)] ELSE [l EXCEPT !.wire = other]
<1>1. \/ o.ok = FALSE /\ o.l = Closed
      \/ live.open /\ (o.l = answered \/ (o.ok = FALSE /\ o.l = l))
  <2>1. \/ o = [ok |-> FALSE, l |-> Closed, late |-> FALSE]
        \/ live.open /\ o = [ok |-> first.kind = "ok", l |-> answered, late |-> FALSE]
        \/ live.open /\ o = [ok |-> FALSE, l |-> l, late |-> TRUE]
    BY Zenon DEF Direct, Reachable
  <2> HIDE DEF answered, live, l
  <2>. QED BY <2>1
<1>2. /\ l \in LinkType /\ live \in LinkType
      /\ c \in Command /\ c.name = name /\ c.slot = None
  <2>1. live \in LinkType /\ c \in Command /\ c.name = name /\ c.name # "WATCH" /\ c.slot = None
    BY LiveType, ControlSays DEF TypeInv
  <2>. QED BY <2>1, ServedType DEF TypeInv
<1>3. /\ l.open = live.open /\ l.watching = live.watching /\ l.eof = live.eof
      /\ l.queue = live.queue \/ l.queue = <<>>
      /\ name # "DISCARD" => l.watched = live.watched /\ l.touched = live.touched
      /\ name \in {"READONLY", "ASKING"} => l.tx = live.tx
  <2> DEFINE ends == c.name \in {"EXEC", "DISCARD"}
             wire == live.wire \o RepliesTo(n, live, c, kind)
             t == CASE ends -> "none"
                    [] c.name = "MULTI" -> "open"
                    [] c.name \in {"DATA", "NODE", "WATCH"} /\ live.tx # "none" /\ kind # "queued" -> "doomed"
                    [] OTHER -> live.tx
             queue == CASE ends -> <<>>
                        [] kind = "queued" -> Append(live.queue, [id |-> c.id, slot |-> c.slot])
                        [] OTHER -> live.queue
             watched == CASE ends \/ c.name = "UNWATCH" -> {}
                          [] c.name = "WATCH" /\ kind = "ok" -> live.watched \cup {c.slot}
                          [] OTHER -> live.watched
             touched == live.touched /\ ~(ends \/ c.name = "UNWATCH")
             asking == c.name = "ASKING"
             s == [live EXCEPT !.wire = wire, !.tx = t, !.queue = queue, !.watched = watched,
                               !.touched = touched, !.asking = asking]
  <2>1. l = IF live.eof THEN live ELSE s
    BY DEF Served
  <2>2. kind # "queued"
    BY <1>2 DEF KindOf
  <2>3. /\ queue = live.queue \/ queue = <<>>
        /\ name # "DISCARD" => watched = live.watched /\ touched = live.touched
        /\ name \in {"READONLY", "ASKING"} => t = live.tx
    <3> HIDE DEF live, kind, c
    <3>1. queue = live.queue \/ queue = <<>>
      BY <2>2
    <3>2. live.touched \in BOOLEAN
      BY <1>2, LinkFields
    <3>. QED BY <1>2, <3>1, <3>2
  <2> HIDE DEF wire, t, queue, watched, touched, asking, live, kind, c, l
  <2>4. /\ s.open = live.open /\ s.watching = live.watching /\ s.eof = live.eof
        /\ s.queue = queue /\ s.watched = watched /\ s.touched = touched /\ s.tx = t
    BY <1>2 DEF LinkType
  <2> HIDE DEF s
  <2>. QED BY <2>1, <2>3, <2>4
<1>4. live.queue = link[n].queue \/ live.queue = <<>>
  BY LiveWatch
<1> DEFINE after == Tail(l.wire)
<1>5. answered = [l EXCEPT !.wire = after] \/ answered = [l EXCEPT !.wire = other]
  OBVIOUS
<1> HIDE DEF answered, live, l, other, after
<1>6. /\ answered.queue = l.queue /\ answered.open = l.open /\ answered.watching = l.watching
      /\ answered.eof = l.eof /\ answered.watched = l.watched /\ answered.touched = l.touched
      /\ answered.tx = l.tx
  <2>1. SameWatch(l, answered) /\ answered.queue = l.queue
    BY <1>2, <1>5, WireNotWatch
  <2>. QED BY <2>1 DEF SameWatch
<1>. QED BY <1>1, <1>3, <1>4, <1>6, NewLinksSound DEF live

LEMMA SendMultiGuards ==
  ASSUME WatchInv, SendMulti, SafeInv', LetGo'
  PROVE  WatchInv'
<1> DEFINE n == master[op.slot]
<1>0. /\ pc = "multi" /\ op.m # "exec" /\ n \in Nodes /\ cmdSock \in Nodes /\ link \in [Nodes -> LinkType]
      /\ UNCHANGED <<master, op, effects>> /\ TypeInv /\ ClusterTypes /\ LinkTypes
  <2>1. pc = "multi" /\ UNCHANGED <<master, op, effects>>
    BY DEF SendMulti, table
  <2>2. TypeInv /\ pc \in OnTheWay /\ op.m # "exec" /\ cmdSock \in Nodes /\ op.slot \in Slots
    BY <2>1 DEF WatchInv, SafeInv, TypeInv, CallShape, OnTheWay
  <2>. QED BY <2>1, <2>2, HasMaster DEF TypeInv, LinkTypes
<1>1. PICK o \in Direct(n, "MULTI") :
        LET sent == [link EXCEPT ![n] = o.l] IN
        IF o.ok THEN /\ link' = [sent EXCEPT ![cmdSock].multi = TRUE]
                     /\ pc' = Sending(redir.type) /\ GoesOn
        ELSE Fails(sent, redir.type, Late(o))
  BY DEF SendMulti
<1> DEFINE sent == [link EXCEPT ![n] = o.l]
<1>2. o.l \in LinkType /\ sent \in [Nodes -> LinkType]
  <2>1. o.l \in LinkType
    BY <1>0, DirectType
  <2>. QED BY <1>0, <2>1
<1>3. /\ o.l.queue = link[n].queue \/ o.l.queue = <<>>
      /\ o.ok => /\ Live(n).open
                 /\ o.l.open = Live(n).open /\ o.l.watching = Live(n).watching /\ o.l.eof = Live(n).eof
                 /\ o.l.watched = Live(n).watched /\ o.l.touched = Live(n).touched
  BY <1>0, DirectWatch
<1>4. sent[n] = o.l /\ \A m \in Nodes \ {n} : sent[m] = link[m]
  BY <1>0
<1> HIDE DEF sent
<1>5. CASE o.ok
  <2>1. /\ link' = [sent EXCEPT ![cmdSock].multi = TRUE] /\ pc' \in {"asking", "write"}
        /\ UNCHANGED <<guarded, stale, missed, torn>>
    BY <1>1, <1>5 DEF SendMulti, target, GoesOn, Sending, sent
  <2>2. ASSUME NEW m \in Nodes PROVE SameWatch(sent[m], link'[m]) /\ link'[m].queue = sent[m].queue
    <3>1. sent[m] \in LinkType /\ (link'[m] = sent[m] \/ link'[m] = [sent[m] EXCEPT !.multi = TRUE])
      BY <1>2, <2>1
    <3> DEFINE l == sent[m]
    <3>2. l \in LinkType /\ (link'[m] = l \/ link'[m] = [l EXCEPT !.multi = TRUE])
      BY <3>1
    <3> HIDE DEF l
    <3>3. SameWatch(l, link'[m]) /\ link'[m].queue = l.queue
      BY <3>2, ChangesNotWatch
    <3>. QED BY <3>3 DEF l
  <2>3. Uneventful
    BY <1>0, <1>3, <1>4, <2>1, <2>2 DEF Uneventful, QueuesStay
  <2>4. ~Executes /\ Executes' = Executes
    BY <1>0, <2>1 DEF Executes
  <2>5. ASSUME NEW m \in Nodes, NEW s \in guarded PROVE HeedsHere(link[m], link'[m], s, s \in stale)
    <3>1. ASSUME Watches(link[m], s, s \in stale) PROVE Watches(sent[m], s, s \in stale)
      <4>1. CASE m = n
        <5>1. Live(n) = link[n]
          BY <1>3, <1>5, <3>1, <4>1, LiveWatch DEF Watches
        <5>. QED BY <1>3, <1>4, <1>5, <3>1, <4>1, <5>1 DEF Watches
      <4>2. CASE m # n
        BY <1>4, <3>1, <4>2
      <4>. QED BY <4>1, <4>2
    <3>. QED BY <2>2, <2>4, <3>1 DEF HeedsHere, Minds, Watches, SameWatch
  <2>. QED BY <1>0, <2>1, <2>3, <2>4, <2>5, Continues
<1>6. CASE ~o.ok
  <2>1. Fails(sent, redir.type, Late(o))
    BY <1>1, <1>6 DEF sent
  <2>. QED BY <1>0, <1>3, <1>4, <2>1, FailsUnguards
<1>. QED BY <1>5, <1>6

LEMMA SendAskingGuards ==
  ASSUME WatchInv, SendAsking, SafeInv', LetGo'
  PROVE  WatchInv'
<1> DEFINE n == cmdSock
<1>0. /\ pc = "asking" /\ n \in Nodes /\ link \in [Nodes -> LinkType]
      /\ UNCHANGED <<master, op, effects>> /\ TypeInv /\ ClusterTypes /\ LinkTypes
  <2>1. pc = "asking" /\ UNCHANGED <<master, op, effects>>
    BY DEF SendAsking, table
  <2>. QED BY <2>1 DEF WatchInv, SafeInv, TypeInv, CallShape, LinkTypes, OnTheWay
<1>1. PICK o \in Direct(n, "ASKING") :
        LET sent == [link EXCEPT ![n] = o.l] IN
        IF o.ok THEN link' = sent /\ pc' = "write" /\ GoesOn /\ UNCHANGED refused
        ELSE Fails(sent, redir.type, Late(o)) /\ Unsent
  BY DEF SendAsking
<1> DEFINE sent == [link EXCEPT ![n] = o.l]
<1>2. sent[n] = o.l /\ \A m \in Nodes \ {n} : sent[m] = link[m]
  BY <1>0
<1>3. /\ o.l.queue = link[n].queue \/ o.l.queue = <<>>
      /\ o.ok => /\ Live(n).open
                 /\ o.l.open = Live(n).open /\ o.l.watching = Live(n).watching /\ o.l.eof = Live(n).eof
                 /\ o.l.watched = Live(n).watched /\ o.l.touched = Live(n).touched /\ o.l.tx = Live(n).tx
  BY <1>0, DirectWatch
<1>4. CASE o.ok
  <2>1. link' = sent /\ pc' = "write" /\ UNCHANGED <<guarded, stale, missed, torn>>
    BY <1>1, <1>4 DEF SendAsking, target, GoesOn
  <2> HIDE DEF sent
  <2>2. Uneventful
    BY <1>0, <1>2, <1>3, <2>1 DEF Uneventful, QueuesStay
  <2>3. Executes' = Executes
    BY <1>0, <2>1 DEF Executes
  <2>4. ASSUME NEW m \in Nodes, NEW s \in guarded PROVE HeedsHere(link[m], link'[m], s, s \in stale)
    <3>1. CASE m = n
      <4>1. CASE Live(n) = link[n]
        <5>1. SameWatch(link[m], link'[m])
          BY <1>2, <1>3, <1>4, <2>1, <3>1, <4>1 DEF SameWatch
        <5>. QED BY <5>1, SameHeeds
      <4>2. CASE Live(n) # link[n]
        <5>1. ~(link[n].open /\ link[n].watching) /\ Live(n) \in {Fresh, Closed}
          BY <1>0, <1>3, <1>4, <4>2, LiveWatch
        <5>2. link'[n].tx = "none"
          BY <1>2, <1>3, <1>4, <2>1, <5>1, NewLinksSound
        <5>. QED BY <3>1, <5>1, <5>2 DEF HeedsHere, Minds, Watches, WatchesYet
      <4>. QED BY <4>1, <4>2
    <3>2. CASE m # n
      BY <1>2, <2>1, <3>2 DEF HeedsHere
    <3>. QED BY <3>1, <3>2
  <2>. QED BY <1>0, <2>1, <2>2, <2>3, <2>4, Continues
<1>5. CASE ~o.ok
  <2>1. Fails(sent, redir.type, Late(o))
    BY <1>1, <1>5
  <2> HIDE DEF sent
  <2>. QED BY <1>0, <1>2, <1>3, <2>1, FailsUnguards
<1>. QED BY <1>4, <1>5

-----------------------------------------------------------------------------
(* exec(), discard() and unwatch(). *)

\* A reply that is read changes nothing for those who watch.
LEMMA ReadsWatch ==
  ASSUME NEW n \in Nodes, link[n] \in LinkType, NEW o \in Reads(n)
  PROVE  /\ o.l.queue = link[n].queue \/ o.l.queue = <<>>
         /\ \/ SameWatch(link[n], o.l) /\ (o.r.kind # "lost" => link[n].wire # <<>> /\ o.r = link[n].wire[1])
            \/ o.r.kind = "lost" /\ o.l = Closed /\ link[n].eof
<1> DEFINE l == link[n]
<1>1. \/ /\ l.wire = <<>> /\ o.r.kind = "lost" /\ o.l = (IF l.eof THEN Closed ELSE l)
      \/ /\ l.wire # <<>> /\ o.l = Shorter(l)
         /\ IF l.wire[1].kind = "rest" THEN o.r.kind = "lost" ELSE o.r = l.wire[1]
      \/ o.r.kind = "lost" /\ o.l = l
  BY ReadsSay
<1>2. l \in LinkType
  OBVIOUS
<1> HIDE DEF l
<1>3. SameWatch(l, l) /\ SameWatch(l, Shorter(l)) /\ Shorter(l).queue = l.queue
  <2> DEFINE w == Tail(l.wire)
  <2>1. Shorter(l) = [l EXCEPT !.wire = w]
    BY DEF Shorter
  <2> HIDE DEF w
  <2>. QED BY <1>2, <2>1, WireNotWatch, ChangesNotWatch
<1>4. /\ o.l.queue = l.queue \/ o.l.queue = <<>>
      /\ \/ SameWatch(l, o.l) /\ (o.r.kind # "lost" => l.wire # <<>> /\ o.r = l.wire[1])
         \/ o.r.kind = "lost" /\ o.l = Closed /\ l.eof
  BY <1>1, <1>3, NewLinksSound
<1>. QED BY <1>4 DEF l

LEMMA ExecGuards ==
  ASSUME WatchInv, ExecNode \/ ExecSent, SafeInv', LetGo'
  PROVE  WatchInv'
<1>1. /\ pc = "exec" /\ pc' \in {"exec", "asking", "write", "collect"}
      /\ UNCHANGED <<link, master, missed, op, effects, guarded, stale, torn>>
  BY DEF ExecNode, ExecSent, table, tx, target, history, Sending
<1>2. Uneventful /\ Executes' = Executes
  BY <1>1 DEF Uneventful, QueuesStay, Executes
<1>3. \A m \in Nodes : \A s \in guarded : HeedsHere(link[m], link'[m], s, s \in stale)
  BY <1>1 DEF HeedsHere
<1>. QED BY <1>1, <1>2, <1>3, Continues

LEMMA ReadExecGuards ==
  ASSUME WatchInv, ReadExec, SafeInv', LetGo'
  PROVE  WatchInv'
<1> DEFINE n == cmdSock
<1>0. /\ pc = "read" /\ op.m = "exec" /\ n \in Nodes /\ link \in [Nodes -> LinkType] /\ LinkTypes
      /\ UNCHANGED <<master, missed, op, effects>>
  <2>1. pc = "read" /\ op.m = "exec" /\ UNCHANGED <<master, missed, op, effects>>
    BY DEF ReadExec, table
  <2>. QED BY <2>1 DEF WatchInv, SafeInv, TypeInv, CallShape, LinkTypes, OnTheWay
<1>1. PICK o \in Reads(n) :
       LET ls == [link EXCEPT ![n] = o.l] IN
       IF o.r.kind \in {"array", "nil"}
       THEN /\ link' = [ls EXCEPT ![n].multi = FALSE, ![n].watching = FALSE]
            /\ pc' = "exec" /\ pos' = pos + 1
            /\ UNCHANGED <<redir, ret, guarded, stale, torn>>
       ELSE Fails(ls, redir'.type, Late(o))
  BY DEF ReadExec
<1> DEFINE ls == [link EXCEPT ![n] = o.l]
<1>2. o.l \in LinkType /\ ls[n] = o.l /\ \A m \in Nodes \ {n} : ls[m] = link[m]
  <2>1. o.l \in LinkType
    BY <1>0, ReadsType
  <2>. QED BY <1>0, <2>1
<1>3. /\ o.l.queue = link[n].queue \/ o.l.queue = <<>>
      /\ o.r.kind # "lost" => SameWatch(link[n], o.l)
  BY <1>0, ReadsWatch
<1>4. CASE o.r.kind \in {"array", "nil"}
  <2> DEFINE l == o.l  k == [l EXCEPT !.multi = FALSE, !.watching = FALSE]
  <2>1. /\ link' = [ls EXCEPT ![n].multi = FALSE, ![n].watching = FALSE]
        /\ pc' = "exec" /\ UNCHANGED <<guarded, stale, torn>>
    BY <1>1, <1>4
  <2>2. ls \in [Nodes -> LinkType] /\ ls[n] = l /\ l \in LinkType
    BY <1>0, <1>2
  <2>3. link'[n] = k /\ \A m \in Nodes \ {n} : link'[m] = link[m]
    <3> HIDE DEF ls, l
    <3>1. link' = [ls EXCEPT ![n] = [ls[n] EXCEPT !.multi = FALSE, !.watching = FALSE]]
      BY <1>0, <2>1, <2>2
    <3>. QED BY <1>0, <1>2, <2>2, <3>1
  <2> HIDE DEF ls, l
  <2>4. k.queue = l.queue /\ k.tx = l.tx /\ k.watched = l.watched /\ k.touched = l.touched
    BY <2>2 DEF LinkType
  <2> HIDE DEF k
  <2>5. Uneventful
    BY <1>0, <1>3, <2>1, <2>3, <2>4 DEF Uneventful, QueuesStay, l
  <2>6. Executes /\ Executes' = Executes
    BY <1>0, <2>1 DEF Executes
  <2>7. ASSUME NEW m \in Nodes, NEW s \in guarded PROVE HeedsHere(link[m], link'[m], s, s \in stale)
    <3>1. CASE m = n
      <4>1. SameWatch(link[n], l)
        BY <1>3, <1>4 DEF l
      <4>. QED BY <2>3, <2>4, <2>6, <3>1, <4>1 DEF SameWatch, HeedsHere, Minds, WatchesYet
    <3>2. CASE m # n
      BY <2>3, <3>2 DEF HeedsHere
    <3>. QED BY <3>1, <3>2
  <2>. QED BY <1>0, <2>1, <2>5, <2>6, <2>7, Continues
<1>5. CASE o.r.kind \notin {"array", "nil"}
  <2>1. Fails(ls, redir'.type, Late(o))
    BY <1>1, <1>5
  <2>2. \A m \in Nodes : ls[m].queue = link[m].queue \/ ls[m].queue = <<>>
    BY <1>2, <1>3
  <2> HIDE DEF ls
  <2>. QED BY <1>0, <2>1, <2>2, FailsUnguards
<1>. QED BY <1>4, <1>5

LEMMA CollectGuards ==
  ASSUME WatchInv, CollectReply \/ Collected, SafeInv', LetGo'
  PROVE  WatchInv'
<1>0. /\ pc = "collect" /\ link \in [Nodes -> LinkType] /\ LinkTypes
      /\ UNCHANGED <<master, missed, op, effects>>
  <2>1. pc = "collect" /\ UNCHANGED <<master, missed, op, effects>>
    BY DEF CollectReply, Collected, table, target
  <2>. QED BY <2>1 DEF WatchInv, SafeInv, TypeInv, LinkTypes
<1>1. CASE Collected
  <2>1. EndsTx(link, ret, {})
    BY <1>1 DEF Collected
  <2>. QED BY <1>0, <2>1, EndsUnguards
<1>2. CASE CollectReply
  <2> DEFINE n == master[Item.slot]
  <2>1. CASE Item.slot \in refused
    <3>1. UNCHANGED <<link, pc, guarded, stale>> /\ torn \subseteq torn'
      BY <1>2, <2>1 DEF CollectReply
    <3>2. Uneventful /\ Executes' = Executes
      BY <1>0, <3>1 DEF Uneventful, QueuesStay, Executes
    <3>3. \A m \in Nodes : \A s \in guarded : HeedsHere(link[m], link'[m], s, s \in stale)
      BY <3>1 DEF HeedsHere
    <3>. QED BY <1>0, <3>1, <3>2, <3>3, Continues
  <2>2. CASE Item.slot \notin refused
    <3>1. PICK o \in Reads(n) :
            LET ls == [link EXCEPT ![n] = o.l] IN
            IF o.r.kind = "lost"
            THEN EndsTx(ls, <<NoAnswer(op.cmd.id)>>, {"splitExec"} \cup Late(o)) /\ UNCHANGED pos
            ELSE /\ link' = ls
                 /\ ret' = Append(ret, Answered(Item.id, o.r))
                 /\ pos' = pos + 1
                 /\ UNCHANGED <<pc, mode, fold, guarded, stale, torn>>
      BY <1>2, <2>2 DEF CollectReply
    <3> DEFINE ls == [link EXCEPT ![n] = o.l]
    <3>2. n \in Nodes
      <4>1. pos <= Len(fold) /\ TypeInv
        BY <1>2 DEF CollectReply, WatchInv, SafeInv
      <4>2. pos \in 1..Len(fold)
        BY <4>1 DEF TypeInv, CallTypes
      <4>. QED BY <4>1, <4>2, FoldItems DEF Item
    <3>3. o.l \in LinkType /\ ls \in [Nodes -> LinkType] /\ ls[n] = o.l /\ \A m \in Nodes \ {n} : ls[m] = link[m]
      <4>1. o.l \in LinkType
        BY <1>0, <3>2, ReadsType
      <4>. QED BY <1>0, <3>2, <4>1
    <3>4. /\ o.l.queue = link[n].queue \/ o.l.queue = <<>>
          /\ o.r.kind # "lost" => SameWatch(link[n], o.l)
      BY <1>0, <3>2, ReadsWatch
    <3>5. \A m \in Nodes : ls[m].queue = link[m].queue \/ ls[m].queue = <<>>
      BY <3>3, <3>4
    <3>6. CASE o.r.kind = "lost"
      <4> DEFINE answers == <<NoAnswer(op.cmd.id)>>  tears == {"splitExec"} \cup Late(o)
      <4>1. EndsTx(ls, answers, tears)
        BY <3>1, <3>6
      <4> HIDE DEF ls, answers, tears
      <4>. QED BY <1>0, <3>3, <3>5, <4>1, EndsUnguards
    <3>7. CASE o.r.kind # "lost"
      <4>1. link' = ls /\ UNCHANGED <<pc, guarded, stale, torn>>
        BY <3>1, <3>7
      <4> HIDE DEF ls
      <4>2. Uneventful /\ Executes' = Executes
        BY <1>0, <3>5, <4>1 DEF Uneventful, QueuesStay, Executes
      <4>3. ASSUME NEW m \in Nodes, NEW s \in guarded PROVE HeedsHere(link[m], link'[m], s, s \in stale)
        <5>1. SameWatch(link[m], link'[m])
          BY <1>0, <3>3, <3>4, <3>7, <4>1, ChangesNotWatch
        <5>. QED BY <5>1, SameHeeds
      <4>. QED BY <1>0, <4>1, <4>2, <4>3, Continues
    <3>. QED BY <3>6, <3>7
  <2>. QED BY <2>1, <2>2
<1>. QED BY <1>1, <1>2

LEMMA DiscardGuards ==
  ASSUME WatchInv, DiscardNode \/ Discarded, SafeInv', LetGo'
  PROVE  WatchInv'
<1>0. /\ pc = "abort" /\ link \in [Nodes -> LinkType] /\ LinkTypes /\ TypeInv /\ ClusterTypes
      /\ UNCHANGED <<master, missed, op, effects>>
  <2>1. pc = "abort" /\ UNCHANGED <<master, missed, op, effects>>
    BY DEF DiscardNode, Discarded, table, target
  <2>. QED BY <2>1 DEF WatchInv, SafeInv, TypeInv, LinkTypes
<1>1. CASE Discarded
  <2>1. CASE op.m = "exec"
    <3> DEFINE answers == <<NoAnswer(op.cmd.id)>>
    <3>1. EndsTx(link, answers, {})
      BY <1>1, <2>1 DEF Discarded
    <3> HIDE DEF answers
    <3>. QED BY <1>0, <3>1, EndsUnguards
  <2>2. CASE op.m # "exec"
    <3>1. pc' = "idle" /\ guarded' = {} /\ UNCHANGED <<link, torn>>
      BY <1>1, <2>2 DEF Discarded, Returns, Unguarded
    <3>2. Uneventful
      BY <1>0, <3>1 DEF Uneventful, QueuesStay
    <3>. QED BY <3>1, <3>2, Unguards
  <2>. QED BY <2>1, <2>2
<1>2. CASE DiscardNode
  <2> DEFINE n == master[Item.slot]
  <2>1. n \in Nodes
    <3>1. pos <= Len(fold)
      BY <1>2 DEF DiscardNode
    <3>2. pos \in 1..Len(fold)
      BY <1>0, <3>1 DEF TypeInv, CallTypes
    <3>. QED BY <1>0, <3>2, FoldItems DEF Item
  <2>2. CASE link[n].multi
    <3>1. PICK o \in Direct(n, "DISCARD") :
            IF o.ok THEN /\ EndsTx(Disconnected([link EXCEPT ![n] = o.l]), <<NoAnswer(op.cmd.id)>>, {})
                         /\ UNCHANGED pos
            ELSE /\ link' = [link EXCEPT ![n] = [o.l EXCEPT !.multi = FALSE, !.watching = FALSE]]
                 /\ torn' = torn \cup {"abort"} \cup Late(o)
                 /\ pos' = pos + 1
                 /\ UNCHANGED <<pc, ret, mode, fold, guarded, stale>>
      BY <1>2, <2>2 DEF DiscardNode
    <3> DEFINE l == o.l  k == [l EXCEPT !.multi = FALSE, !.watching = FALSE]
    <3>2. l \in LinkType /\ (l.queue = link[n].queue \/ l.queue = <<>>)
      <4>1. o.l \in LinkType
        BY <1>0, <2>1, DirectType
      <4>2. o.l.queue = link[n].queue \/ o.l.queue = <<>>
        BY <1>0, <2>1, DirectWatch
      <4>. QED BY <4>1, <4>2
    <3>3. CASE o.ok
      <4> DEFINE sent == [link EXCEPT ![n] = l]  ls == Disconnected(sent)  answers == <<NoAnswer(op.cmd.id)>>
      <4>1. EndsTx(ls, answers, {})
        BY <3>1, <3>3
      <4> HIDE DEF l
      <4>2. sent \in [Nodes -> LinkType] /\ \A m \in Nodes : sent[m] = IF m = n THEN l ELSE link[m]
        BY <1>0, <2>1, <3>2
      <4> HIDE DEF sent
      <4>3. \A m \in Nodes : ls[m] = sent[m] \/ ls[m] = Closed
        BY DEF Disconnected
      <4>4. ls \in [Nodes -> LinkType]
        BY <4>2, DisconnectedType
      <4>5. \A m \in Nodes : ls[m].queue = link[m].queue \/ ls[m].queue = <<>>
        <5> HIDE DEF ls
        <5>. QED BY <3>2, <4>2, <4>3, NewLinksSound
      <4> HIDE DEF ls, answers
      <4>. QED BY <1>0, <4>1, <4>4, <4>5, EndsUnguards
    <3>4. CASE ~o.ok
      <4>1. link' = [link EXCEPT ![n] = k] /\ torn' # {} /\ torn \subseteq torn' /\ UNCHANGED <<pc, guarded, stale>>
        BY <3>1, <3>4
      <4> HIDE DEF l
      <4>2. k.queue = l.queue
        BY <3>2 DEF LinkType
      <4> HIDE DEF k
      <4>3. Uneventful /\ Executes' = Executes
        BY <1>0, <2>1, <3>2, <4>1, <4>2 DEF Uneventful, QueuesStay, Executes
      <4>. QED BY <1>0, <4>1, <4>3, Continues
    <3>. QED BY <3>3, <3>4
  <2>3. CASE ~link[n].multi
    <3>1. UNCHANGED <<link, pc, guarded, stale, torn>>
      BY <1>2, <2>3 DEF DiscardNode
    <3>2. Uneventful /\ Executes' = Executes
      BY <1>0, <3>1 DEF Uneventful, QueuesStay, Executes
    <3>3. \A m \in Nodes : \A s \in guarded : HeedsHere(link[m], link'[m], s, s \in stale)
      BY <3>1 DEF HeedsHere
    <3>. QED BY <1>0, <3>1, <3>2, <3>3, Continues
  <2>. QED BY <2>2, <2>3
<1>. QED BY <1>1, <1>2

LEMMA UnwatchGuards ==
  ASSUME WatchInv, UnwatchNode \/ Unwatched, SafeInv', LetGo'
  PROVE  WatchInv'
<1>1. /\ pc = "unwatch" /\ pc' \in {"asking", "write", "idle"}
      /\ UNCHANGED <<link, master, op, effects, guarded, torn>>
  BY DEF UnwatchNode, Unwatched, Sending, Returns, table, history
<1>2. guarded = {}
  BY <1>1 DEF WatchInv, LetGo, SafeInv, Stepped
<1>3. Uneventful
  BY <1>1 DEF Uneventful, QueuesStay
<1>. QED BY <1>1, <1>2, <1>3, Unguards

-----------------------------------------------------------------------------
(* A command is written. *)

Serves(l, c, k) ==
  /\ k.open = l.open /\ k.watching = l.watching /\ k.eof = FALSE
  /\ c.name = "EXEC" => k.tx = "none" /\ k.queue = <<>>
  /\ c.name \in {"DATA", "NODE", "WATCH"} =>
       /\ k.touched = l.touched /\ l.watched \subseteq k.watched
       /\ k.queue = l.queue \/ (l.tx # "none" /\ k.queue = Append(l.queue, [id |-> c.id, slot |-> c.slot]))
  /\ c.name = "UNWATCH" => k.queue = l.queue
  /\ c.name = "WATCH" /\ k.wire[1].kind \in Good => c.slot \in k.watched

LEMMA ServedWatch ==
  ASSUME ClusterTypes, NEW n \in Nodes, NEW l \in LinkType, l.eof = FALSE, l.wire = <<>>,
         NEW c \in Command, NEW refuse \in BOOLEAN, NEW k, k = Served(n, l, c, refuse)
  PROVE  Serves(l, c, k)
<1> DEFINE kind == KindOf(n, l, c, refuse)
           ends == c.name \in {"EXEC", "DISCARD"}
           w == RepliesTo(n, l, c, kind)
           wire == l.wire \o w
           t == CASE ends -> "none"
                  [] c.name = "MULTI" -> "open"
                  [] c.name \in {"DATA", "NODE", "WATCH"} /\ l.tx # "none" /\ kind # "queued" -> "doomed"
                  [] OTHER -> l.tx
           entry == [id |-> c.id, slot |-> c.slot]
           queue == CASE ends -> <<>>
                      [] kind = "queued" -> Append(l.queue, entry)
                      [] OTHER -> l.queue
           watched == CASE ends \/ c.name = "UNWATCH" -> {}
                        [] c.name = "WATCH" /\ kind = "ok" -> l.watched \cup {c.slot}
                        [] OTHER -> l.watched
           touched == l.touched /\ ~(ends \/ c.name = "UNWATCH")
           asking == c.name = "ASKING"
           s == [l EXCEPT !.wire = wire, !.tx = t, !.queue = queue, !.watched = watched,
                          !.touched = touched, !.asking = asking]
<1>1. k = s
  BY DEF Served
<1>2. /\ kind = "queued" => l.tx # "none"
      /\ c.name = "WATCH" /\ kind \in Good => kind = "ok"
      /\ c.name \in {"EXEC", "UNWATCH"} => kind # "queued"
  <2>1. /\ kind = "queued" => l.tx # "none"
        /\ c.name \in {"EXEC", "UNWATCH"} => kind # "queued"
    BY KindSays
  <2>2. ASSUME c.name = "WATCH" PROVE kind \in Good => kind = "ok"
    <3> DEFINE v == Verdict(n, l, c)
    <3>1. c.slot \in Slots \cup {None}
      BY DEF Command
    <3>2. v \in Verdicts
      BY <3>1, VerdictType
    <3>3. kind \in {v} \ {"here"} \/ kind \in {"error", "ok"}
      BY <2>2 DEF KindOf
    <3> HIDE DEF v, kind
    <3>. QED BY <3>2, <3>3 DEF Verdicts, Good
  <2>. QED BY <2>1, <2>2
<1>3. wire = w /\ w[1].kind = kind
  <2>1. w \in Seq(Replies) /\ w[1].kind = kind
    BY RepliesSay
  <2> HIDE DEF w
  <2>. QED BY <2>1
<1>4. /\ c.name = "EXEC" => t = "none" /\ queue = <<>>
      /\ c.name \in {"DATA", "NODE", "WATCH"} =>
           touched = l.touched /\ l.watched \subseteq watched
      /\ c.name \in {"DATA", "NODE", "WATCH"} =>
           queue = l.queue \/ (l.tx # "none" /\ queue = Append(l.queue, entry))
      /\ c.name = "UNWATCH" => queue = l.queue
      /\ c.name = "WATCH" /\ kind = "ok" => c.slot \in watched
  <2>1. l.touched \in BOOLEAN
    BY LinkFields
  <2> DEFINE more == Append(l.queue, entry)
  <2> HIDE DEF kind
  <2>2. c.name = "EXEC" => t = "none" /\ ends
    OBVIOUS
  <2>3. c.name \in {"DATA", "NODE", "WATCH", "UNWATCH"} => ~ends
    OBVIOUS
  <2>4. c.name \in {"DATA", "NODE", "WATCH"} => touched = l.touched /\ l.watched \subseteq watched
    BY <2>1
  <2>5. c.name = "WATCH" /\ kind = "ok" => c.slot \in watched
    OBVIOUS
  <2>6. queue = CASE ends -> <<>> [] kind = "queued" -> more [] OTHER -> l.queue
    BY DEF more
  <2> HIDE DEF queue, more, ends
  <2>7. /\ ends /\ kind # "queued" => queue = <<>>
        /\ ~ends => queue = l.queue \/ (kind = "queued" /\ queue = more)
    BY <2>6
  <2>. QED BY <1>2, <2>2, <2>3, <2>4, <2>5, <2>7 DEF more
<1> HIDE DEF wire, t, queue, watched, touched, asking, kind, w, entry
<1>5. /\ s.open = l.open /\ s.watching = l.watching /\ s.eof = l.eof /\ s.wire = wire
      /\ s.tx = t /\ s.queue = queue /\ s.watched = watched /\ s.touched = touched
  BY DEF LinkType
<1> HIDE DEF s
<1>. QED BY <1>1, <1>2, <1>3, <1>4, <1>5 DEF Serves, entry

RunsQueue(l, c, E) ==
  \A i \in 1..Len(E) : E[i].by = "EXEC" =>
    /\ c.name = "EXEC" /\ l.tx = "open" /\ ~l.touched
    /\ \E j \in 1..Len(l.queue) : E[i].slot = l.queue[j].slot

\* What a transaction runs is what the server has queued, and only if no watched key was touched.
LEMMA EffectsSay ==
  ASSUME NEW n, NEW l \in LinkType, NEW c \in Command, NEW refuse
  PROVE  LET E == Effects(n, l, c, refuse) IN E \in Seq(Effect) /\ RunsQueue(l, c, E)
<1> DEFINE kind == KindOf(n, l, c, refuse)  q == l.queue
           one == [id |-> c.id, slot |-> c.slot, by |-> "itself"]
           all == [i \in 1..Len(q) |-> [id |-> q[i].id, slot |-> q[i].slot, by |-> "EXEC"]]
           E == Effects(n, l, c, refuse)
<1>1. E = <<>> \/ E = <<one>> \/ (kind = "array" /\ E = all)
  BY DEF Effects
<1>2. kind = "array" => c.name = "EXEC" /\ l.tx = "open" /\ ~l.touched
  <2> DEFINE v == Verdict(n, l, c)  x == ExecVerdict(n, l, c)  u == Verdict(n, l, [c EXCEPT !.slot = KeySlot(l, c)])
  <2>0. \A m, d : Verdict(m, l, d) \in Verdicts
    BY DEF Verdict, Verdicts
  <2>1. c.name \in {"DATA", "NODE", "WATCH"} => kind \in {v, "error", "ok", "queued", "value"}
    BY DEF KindOf
  <2>2. c.name = "EXEC" => \/ l.tx # "open" /\ kind = "error"
                           \/ l.tx = "open" /\ kind = x
                           \/ l.tx = "open" /\ l.touched /\ kind = "nil"
                           \/ l.tx = "open" /\ ~l.touched
    BY DEF KindOf
  <2>3. c.name \notin {"DATA", "NODE", "WATCH", "EXEC"} => kind \in {"error", "ok"}
    BY DEF KindOf
  <2>4. x = "error" \/ x = u
    BY DEF ExecVerdict
  <2>5. v \in Verdicts /\ u \in Verdicts
    BY <2>0
  <2> HIDE DEF kind, v, x, u
  <2>. QED BY <2>1, <2>2, <2>3, <2>4, <2>5 DEF Verdicts
<1>3. q \in Seq(Queued)
  BY LinkFields
<1>4. \A i \in 1..Len(q) : q[i] \in Queued /\ q[i].id \in Nat /\ q[i].slot \in Slots \cup {None}
  <2> HIDE DEF q
  <2>1. \A i \in 1..Len(q) : q[i] \in Queued
    BY <1>3
  <2>. QED BY <2>1 DEF Queued
<1>5. one \in Effect /\ one.by = "itself"
  BY DEF Effect, Command
<1>6. /\ all \in Seq(Effect) /\ Len(all) = Len(q)
      /\ \A i \in 1..Len(q) : all[i].slot = q[i].slot
  <2>1. \A i \in 1..Len(q) : [id |-> q[i].id, slot |-> q[i].slot, by |-> "EXEC"] \in Effect
    BY <1>4 DEF Effect
  <2>2. Len(q) \in Nat
    BY <1>3
  <2> HIDE DEF q
  <2>. QED BY <2>1, <2>2
<1> HIDE DEF all, one, kind, E
<1>7. E \in Seq(Effect)
  <2>1. <<one>> \in Seq(Effect) /\ <<>> \in Seq(Effect)
    BY <1>5
  <2>. QED BY <1>1, <1>6, <2>1
<1>8. ASSUME NEW i \in 1..Len(E), E[i].by = "EXEC"
      PROVE  /\ c.name = "EXEC" /\ l.tx = "open" /\ ~l.touched
             /\ \E j \in 1..Len(q) : E[i].slot = q[j].slot
  <2>1. CASE E = <<>>
    BY <1>8, <2>1
  <2>2. CASE E = <<one>>
    <3>1. E[i] = one
      BY <1>8, <2>2
    <3>. QED BY <1>5, <1>8, <3>1
  <2>3. CASE kind = "array" /\ E = all
    <3>1. i \in 1..Len(q)
      BY <1>6, <1>8, <2>3
    <3>. QED BY <1>2, <1>6, <2>3, <3>1
  <2>. QED BY <1>1, <2>1, <2>2, <2>3
<1>. QED BY <1>7, <1>8 DEF RunsQueue, E, q

LEMMA OneMoreOfNode ==
  ASSUME NEW q \in Seq(Queued), NEW e \in Queued, NEW n, OfNode(q, n), e.slot = None \/ master[e.slot] = n
  PROVE  OfNode(Append(q, e), n)
<1> DEFINE a == Append(q, e)
<1>1. Len(a) = Len(q) + 1 /\ Len(q) \in Nat /\ a[Len(q) + 1] = e /\ \A i \in 1..Len(q) : a[i] = q[i]
  OBVIOUS
<1>2. ASSUME NEW i \in 1..Len(a) PROVE i \in 1..Len(q) \/ i = Len(q) + 1
  BY <1>1
<1> HIDE DEF a
<1>3. \A i \in 1..Len(a) : a[i].slot = None \/ master[a[i].slot] = n
  BY <1>1, <1>2 DEF OfNode
<1>. QED BY <1>3 DEF OfNode, a

\* A connection that is told READONLY looks as it did to those who watch.
LEMMA ReadiedWatch ==
  ASSUME TypeInv, NEW n \in Nodes, NEW k, NEW o \in Readied(n, k)
  PROVE  /\ o.l.queue = link[n].queue \/ o.l.queue = <<>>
         /\ o.ok => Live(n).open /\ SameWatch(Live(n), o.l)
<1>0. Live(n) \in LinkType
  BY LiveType DEF TypeInv
<1>1. CASE o = [ok |-> Reachable(n), l |-> Live(n), late |-> FALSE]
  <2>1. o.ok = Live(n).open /\ o.l = Live(n)
    BY <1>1 DEF Reachable
  <2>. QED BY <1>0, <2>1, LiveWatch, ChangesNotWatch
<1>2. ASSUME NEW d \in Direct(n, "READONLY"), o = [d EXCEPT !.l.readonly = d.ok]
      PROVE  /\ o.l.queue = link[n].queue \/ o.l.queue = <<>>
             /\ o.ok => Live(n).open /\ SameWatch(Live(n), o.l)
  <2>1. d.l \in LinkType /\ d.ok \in BOOLEAN
    BY DirectType DEF TypeInv
  <2>2. o.l = [d.l EXCEPT !.readonly = d.ok] /\ o.ok = d.ok
    <3>1. PICK x, y, z : d = [ok |-> x, l |-> y, late |-> z]
      BY Zenon DEF Direct
    <3>2. o = [ok |-> x, l |-> [y EXCEPT !.readonly = x], late |-> z]
      BY <1>2, <3>1
    <3>. QED BY <3>1, <3>2
  <2> DEFINE l == d.l  b == d.ok
  <2>3. SameWatch(l, [l EXCEPT !.readonly = b]) /\ [l EXCEPT !.readonly = b].queue = l.queue
    <3>1. l \in LinkType /\ b \in BOOLEAN
      BY <2>1
    <3> HIDE DEF l, b
    <3>. QED BY <3>1, ChangesNotWatch
  <2>4. /\ d.l.queue = link[n].queue \/ d.l.queue = <<>>
        /\ d.ok => /\ Live(n).open
                   /\ d.l.open = Live(n).open /\ d.l.watching = Live(n).watching /\ d.l.eof = Live(n).eof
                   /\ d.l.watched = Live(n).watched /\ d.l.touched = Live(n).touched /\ d.l.tx = Live(n).tx
    BY DirectWatch
  <2>. QED BY <2>2, <2>3, <2>4 DEF SameWatch
<1>. QED BY <1>1, <1>2 DEF Readied

\* The connection that a command is written to, when nothing has gone wrong before.
LEMMA WritesTo ==
  ASSUME WatchInv, pc = "write", NEW k \in 1..3, NEW n \in Nodes, NEW refuse, WriteTo(n, k, refuse), torn' = {},
         NEW o \in Readied(n, k), o.ok
  PROVE  /\ torn = {} /\ \A s \in guarded : ~LostTo(s)
         /\ o.l \in LinkType /\ o.l.eof = FALSE /\ o.l.wire = <<>>
         /\ SameWatch(Live(n), o.l) /\ o.l.queue = Live(n).queue /\ Live(n).open
         /\ Live(n) = link[n] \/ (Live(n) = Fresh /\ ~(link[n].open /\ link[n].watching))
         /\ mode = "MULTI" => n = cmdSock /\ missed = {}
         /\ op.m = "exec" <=> op.cmd.name = "EXEC"
         /\ op.m = "unwatch" <=> op.cmd.name = "UNWATCH"
         /\ op.m # "exec" => op.cmd.name \in {"DATA", "NODE", "WATCH", "UNWATCH"}
         /\ mode = "MULTI" /\ op.m # "exec" => n = master[op.slot]
<1>1. torn = {} /\ FellBack(n) = {} /\ WatchLost = {}
  BY DEF WriteTo
<1>2. TypeInv /\ Stepped /\ Aimed /\ NodeFits(n) /\ Sound(link[n]) /\ LinkTypes /\ ClusterTypes /\ link[n] \in LinkType
  BY <1>1, AllSound DEF WatchInv, SafeInv, Agree, TypeInv, LinkTypes
<1>3. mode = "MULTI" => n = cmdSock /\ missed = {}
  BY <1>1 DEF FellBack
<1>4. /\ op.m = "exec" <=> op.cmd.name = "EXEC"
      /\ op.m = "unwatch" <=> op.cmd.name = "UNWATCH"
      /\ op.m # "exec" => op.cmd.name \in {"DATA", "NODE", "WATCH", "UNWATCH"}
      /\ op.m = "exec" => mode = "MULTI"
  BY <1>2 DEF Stepped, OnTheWay
<1>5. mode = "MULTI" /\ op.m # "exec" => n = master[op.slot]
  BY <1>2, <1>3 DEF Aimed, InCommand, OnTheWay
<1>6. link[n].wire = <<>>
  <2>1. ~Reading(n) /\ (InExec => ~Done(n)) /\ ~Left(n)
    BY <1>2, <1>3, <1>4 DEF Reading, InExec, Aimed, Left
  <2>. QED BY <1>2, <2>1 DEF NodeFits, Fits, Quiet
<1>7. o.l.eof = FALSE /\ o.l.wire = <<>> /\ o.l.queue = Live(n).queue /\ Live(n).open
  BY <1>2, <1>6, ReadiedSays
<1>8. o.l \in LinkType /\ SameWatch(Live(n), o.l)
  BY <1>2, ReadiedType, ReadiedWatch
<1>9. Live(n) = link[n] \/ (Live(n) = Fresh /\ ~(link[n].open /\ link[n].watching))
  BY <1>2, <1>7, LiveSays, LiveWatch
<1>10. \A s \in guarded : ~LostTo(s)
  BY <1>1 DEF WatchLost, LostTo
<1>. QED BY <1>1, <1>3, <1>4, <1>5, <1>7, <1>8, <1>9, <1>10

LEMMA WriteToGuards ==
  ASSUME WatchInv, SafeInv', LetGo', pc = "write", UNCHANGED <<table, redir, mode, fold, op>>,
         NEW k \in 1..3, NEW n \in Nodes, NEW refuse \in BOOLEAN, WriteTo(n, k, refuse)
  PROVE  WatchInv'
<1>. PICK o \in Readied(n, k) :
       /\ o.ok
       /\ link' = [link EXCEPT ![n] = Served(n, o.l, op.cmd, refuse)]
       /\ effects' = effects \o Effects(n, o.l, op.cmd, refuse)
  BY DEF WriteTo
<1> DEFINE l == o.l  c == op.cmd  s == Served(n, l, c, refuse)
<1>0. /\ TypeInv /\ ClusterTypes /\ LinkTypes /\ link \in [Nodes -> LinkType]
      /\ c \in Command /\ UNCHANGED <<mode, master, op, guarded, stale>> /\ torn \subseteq torn'
      /\ link' = [link EXCEPT ![n] = s] /\ cmdSock' = n /\ pc' = "read"
      /\ effects' = effects \o Effects(n, l, c, refuse) /\ effects \in Seq(Effect) /\ l \in LinkType
  <2>1. /\ UNCHANGED <<mode, master, op, guarded, stale>> /\ torn \subseteq torn'
        /\ cmdSock' = n /\ pc' = "read"
    BY DEF table, WriteTo
  <2>2. TypeInv /\ ClusterTypes /\ LinkTypes /\ link \in [Nodes -> LinkType] /\ c \in Command /\ effects \in Seq(Effect)
    BY DEF WatchInv, SafeInv, TypeInv, CallTypes, LinkTypes, Op
  <2>. QED BY <2>1, <2>2, ReadiedType
<1>1. link'[n] = s /\ \A m \in Nodes \ {n} : link'[m] = link[m]
  BY <1>0
<1>2. Addressed'
  BY <1>0 DEF WatchInv, Addressed
<1>3. effects' \in Seq(Effect)
  <2> DEFINE E == Effects(n, l, c, refuse)
  <2>1. E \in Seq(Effect)
    BY <1>0, EffectsSay
  <2> HIDE DEF E
  <2>. QED BY <1>0, <2>1 DEF E
<1>4. torn' = {} => Serves(l, c, s)
  <2> SUFFICES ASSUME torn' = {} PROVE Serves(l, c, s)
    OBVIOUS
  <2>1. l \in LinkType /\ l.eof = FALSE /\ l.wire = <<>>
    BY WritesTo
  <2>2. ClusterTypes /\ c \in Command /\ s = Served(n, l, c, refuse) /\ n \in Nodes /\ refuse \in BOOLEAN
    BY <1>0
  <2> HIDE DEF s, l, c
  <2>. QED BY <2>1, <2>2, ServedWatch
<1>5. torn' = {} =>
        /\ torn = {} /\ \A g \in guarded : ~LostTo(g)
        /\ SameWatch(Live(n), l) /\ l.queue = Live(n).queue
        /\ Live(n) = link[n] \/ (Live(n) = Fresh /\ ~(link[n].open /\ link[n].watching))
        /\ mode = "MULTI" /\ op.m # "exec" => n = master[op.slot]
        /\ op.m = "exec" <=> c.name = "EXEC"
        /\ op.m = "unwatch" <=> c.name = "UNWATCH"
        /\ op.m # "exec" => c.name \in {"DATA", "NODE", "WATCH", "UNWATCH"}
        /\ l.eof = FALSE
  BY WritesTo
<1> HIDE DEF s, l, c
<1>6. QueuedHere'
  <2> SUFFICES ASSUME torn' = {}, NEW m \in Nodes PROVE OfNode(link[m].queue, m)'
    BY DEF QueuedHere
  <2>1. 1..Len(<<>>) = {}
    BY EmptySeq
  <2>2. OfNode(link[m].queue, m) /\ OfNode(<<>>, m)
    BY <1>5, <2>1 DEF WatchInv, QueuedHere, OfNode
  <2>3. OfNode(link'[m].queue, m)
    <3>1. CASE m # n
      BY <1>1, <2>2, <3>1
    <3>2. CASE m = n
      <4>1. OfNode(l.queue, n)
        BY <1>5, <2>2, <3>2, NewLinksSound
      <4>2. CASE s.queue = <<>> \/ s.queue = l.queue
        BY <1>1, <2>2, <3>2, <4>1, <4>2
      <4>3. CASE op.m # "exec" /\ l.tx # "none" /\ s.queue = Append(l.queue, [id |-> c.id, slot |-> c.slot])
        <5>1. mode = "MULTI"
          <6>1. link[n].tx # "none"
            BY <1>5, <4>3, NewLinksSound DEF SameWatch
          <6>2. mode \in {"ATOMIC", "MULTI"}
            BY <1>0 DEF TypeInv, CallTypes
          <6>. QED BY <1>5, <6>1, <6>2, NoneQueued DEF WatchInv
        <5>2. c.slot = None \/ master[c.slot] = n
          BY <1>5, <4>3, <5>1 DEF WatchInv, Addressed, c
        <5> DEFINE e == [id |-> c.id, slot |-> c.slot]  q == l.queue
        <5>3. e \in Queued /\ e.slot = c.slot
          BY <1>0 DEF Command, Queued
        <5>4. q \in Seq(Queued) /\ OfNode(q, n)
          BY <1>0, <4>1, LinkFields
        <5> HIDE DEF e, q
        <5>5. OfNode(Append(q, e), n)
          BY <5>2, <5>3, <5>4, OneMoreOfNode
        <5>. QED BY <1>1, <3>2, <4>3, <5>5 DEF e, q
      <4>. QED BY <1>4, <1>5, <4>2, <4>3 DEF Serves
    <3>. QED BY <3>1, <3>2
  <2>. QED BY <1>0, <2>3 DEF OfNode
<1>7. Guarding'
  <2>1. Executes' = Executes
    BY <1>0 DEF Executes
  <2>2. ASSUME torn' = {}, NEW m \in Nodes, NEW g \in guarded
        PROVE  ~LostTo(g) /\ HeedsHere(link[m], link'[m], g, g \in stale)
    <3>1. CASE m # n
      BY <1>1, <1>5, <2>2, <3>1 DEF HeedsHere
    <3>2. CASE m = n
      <4>1. CASE op.m = "exec"
        <5>1. link'[m].tx = "none" /\ Executes
          BY <1>1, <1>4, <1>5, <2>2, <3>2, <4>1 DEF Executes, Serves
        <5>. QED BY <1>5, <2>2, <5>1 DEF HeedsHere, Minds, WatchesYet
      <4>2. CASE op.m # "exec"
        <5>1. ~Executes
          BY <4>2 DEF Executes
        <5>2. c.name \in {"DATA", "NODE", "WATCH"}
          BY <1>5, <2>2, <4>2 DEF WatchInv, LetGo
        <5>3. ASSUME Watches(link[n], g, g \in stale) PROVE Watches(s, g, g \in stale)
          <6>1. Watches(l, g, g \in stale)
            BY <1>5, <2>2, <5>3 DEF Watches, SameWatch
          <6>. QED BY <1>4, <1>5, <2>2, <5>2, <6>1 DEF Watches, Serves
        <5>. QED BY <1>1, <1>5, <2>2, <3>2, <5>1, <5>3 DEF HeedsHere, Minds
      <4>. QED BY <4>1, <4>2
    <3>. QED BY <3>1, <3>2
  <2>. QED BY <1>0, <2>1, <2>2, GuardingKept DEF WatchInv
<1>8. WatchAnswered'
  <2> SUFFICES ASSUME torn' = {}, op.m = "watch", s.wire[1].kind \in Good PROVE op.slot \in s.watched
    BY <1>0, <1>1 DEF WatchAnswered
  <2>1. c.name = "WATCH" /\ c.slot = op.slot
    BY DEF WatchInv, Addressed, c
  <2>. QED BY <1>4, <2>1 DEF Serves
<1>. QED BY <1>2, <1>3, <1>6, <1>7, <1>8 DEF WatchInv

\* A node that fails the command: it is the only one that does not mind what it did.
LEMMA MissGuards ==
  ASSUME WatchInv, SafeInv', LetGo', pc = "write", UNCHANGED <<table, redir, mode, fold, op>>,
         NEW k \in 1..3, NEW n \in Nodes, Miss(n, k)
  PROVE  WatchInv'
<1>1. PICK o \in Readied(n, k) : link' = [link EXCEPT ![n] = o.l]
  BY DEF Miss
<1>2. /\ TypeInv /\ Guarding /\ link \in [Nodes -> LinkType] /\ torn \subseteq torn'
      /\ UNCHANGED <<master, op, pc, effects, guarded, stale>> /\ missed' = missed \cup {<<k, n>>}
  BY DEF WatchInv, SafeInv, TypeInv, LinkTypes, Miss, table
<1>3. QueuedHere'
  <2>1. o.l.queue = link[n].queue \/ o.l.queue = <<>>
    BY <1>2, ReadiedWatch
  <2>. QED BY <1>1, <1>2, <2>1, QueuesKept DEF WatchInv
<1>4. Guarding'
  <2>1. Executes' = Executes
    BY <1>2 DEF Executes
  <2>2. ASSUME NEW g \in guarded, NEW m \in Nodes, m = master[g]
        PROVE  LostTo(g)' \/ (~LostTo(g) /\ HeedsHere(link[m], link'[m], g, g \in stale))
    <3>1. m = n => LostTo(g)'
      BY <1>2, <2>2 DEF LostTo
    <3>2. LostTo(g) => LostTo(g)'
      BY <1>2 DEF LostTo
    <3>3. m # n => link'[m] = link[m]
      BY <1>1, <1>2
    <3>. QED BY <3>1, <3>2, <3>3 DEF HeedsHere
  <2>. QED BY <1>2, <2>1, <2>2, GuardingKept
<1>5. WatchAnswered' /\ Addressed' /\ effects' \in Seq(Effect)
  BY <1>2 DEF WatchInv, WatchAnswered, Addressed
<1>. QED BY <1>3, <1>4, <1>5 DEF WatchInv

LEMMA WriteGuards ==
  ASSUME WatchInv, Write, SafeInv', LetGo'
  PROVE  WatchInv'
<1>1. pc = "write" /\ UNCHANGED <<table, redir, mode, fold, op>>
  BY DEF Write
<1>2. CASE \E k \in 1..3, n \in Nodes, refuse \in BOOLEAN : WriteTo(n, k, refuse)
  BY <1>1, <1>2, WriteToGuards
<1>3. CASE \E k \in 1..3, n \in Nodes : Miss(n, k)
  BY <1>1, <1>3, MissGuards
<1>4. CASE NobodyToWriteTo
  <2>1. Fails(link, redir.type, {}) /\ UNCHANGED <<master, op, effects>>
    BY <1>1, <1>4 DEF NobodyToWriteTo, table
  <2>. QED BY <2>1, FailsUnguards
<1>. QED BY <1>2, <1>3, <1>4 DEF Write

\* watch() has had a good answer from the master of the slot.
LEMMA WatchGuards ==
  ASSUME WatchInv, SafeInv', LetGo', pc = "read", op.m = "watch", cmdSock \in Nodes, NEW o \in Reads(cmdSock),
         o.r.kind \in Good, NEW ls, ls = [link EXCEPT ![cmdSock] = o.l], Succeeded(o, ls), UNCHANGED <<op, effects>>
  PROVE  WatchInv'
<1> DEFINE n == cmdSock  d == master[op.slot]
<1>0. /\ TypeInv /\ LinkTypes /\ link \in [Nodes -> LinkType] /\ o.l \in LinkType
      /\ d \in Nodes /\ op.slot \in Slots /\ stale \subseteq guarded /\ guarded \subseteq Slots
      /\ \A s \in Slots : master[s] \in Nodes /\ ~LostTo(s)
  <2>1. TypeInv /\ LinkTypes /\ pc \in OnTheWay
    BY DEF WatchInv, SafeInv, TypeInv, OnTheWay
  <2>2. link \in [Nodes -> LinkType] /\ o.l \in LinkType
    BY <2>1, ReadsType DEF LinkTypes
  <2>3. op.slot \in Slots /\ missed = {}
    BY <2>1 DEF TypeInv, CallShape
  <2>. QED BY <2>1, <2>2, <2>3, HasMaster DEF TypeInv, CallTypes, LostTo
<1>1. /\ link' = [ls EXCEPT ![d].watching = TRUE] /\ guarded' = guarded \cup {op.slot}
      /\ torn' = torn \cup WatchedElsewhere /\ pc' = "idle" /\ UNCHANGED <<master, stale, op, effects>>
  BY DEF Succeeded, Hands, Returns, table
<1>2. /\ SameWatch(link[n], o.l) /\ (o.l.queue = link[n].queue \/ o.l.queue = <<>>)
      /\ link[n].wire # <<>> /\ o.r = link[n].wire[1]
  <2>1. o.r.kind # "lost"
    BY DEF Good
  <2>. QED BY <1>0, <2>1, ReadsWatch
<1>3. ls[n] = o.l /\ ls \in [Nodes -> LinkType] /\ \A m \in Nodes \ {n} : ls[m] = link[m]
  BY <1>0
<1>4. ASSUME NEW m \in Nodes
      PROVE  /\ SameWatch(link[m], ls[m]) /\ (ls[m].queue = link[m].queue \/ ls[m].queue = <<>>)
             /\ ls[m] \in LinkType
  BY <1>0, <1>2, <1>3, ChangesNotWatch
<1>5. ASSUME NEW m \in Nodes
      PROVE  /\ link'[m].open = link[m].open /\ link'[m].eof = link[m].eof
             /\ link'[m].watched = link[m].watched /\ link'[m].touched = link[m].touched
             /\ link'[m].queue = ls[m].queue
             /\ link'[m].watching = (link[m].watching \/ m = d)
  <2> DEFINE l == ls[m]  k == [l EXCEPT !.watching = TRUE]
  <2>1. link'[m] = IF m = d THEN k ELSE l
    BY <1>0, <1>1, <1>3
  <2>2. l \in LinkType /\ SameWatch(link[m], l) /\ link[m].watching \in BOOLEAN
    BY <1>0, <1>4, LinkFields
  <2> HIDE DEF l
  <2>3. /\ k.open = l.open /\ k.eof = l.eof /\ k.watched = l.watched /\ k.touched = l.touched
        /\ k.queue = l.queue /\ k.watching = TRUE
    BY <2>2 DEF LinkType
  <2> HIDE DEF k
  <2>4. CASE m = d
    BY <2>1, <2>2, <2>3, <2>4 DEF SameWatch, l
  <2>5. CASE m # d
    BY <2>1, <2>2, <2>5 DEF SameWatch, l
  <2>. QED BY <2>4, <2>5
<1> HIDE DEF d
<1>6. QueuedHere'
  <2>1. torn \subseteq torn' /\ UNCHANGED master
    BY <1>1
  <2>2. \A m \in Nodes : link'[m].queue = link[m].queue \/ link'[m].queue = <<>>
    BY <1>4, <1>5
  <2>. QED BY <2>1, <2>2, QueuesKept DEF WatchInv
<1>7. Guarding'
  <2> SUFFICES ASSUME torn' = {}, NEW g \in guarded' PROVE Minds(link[master[g]], g, g \in stale)'
    BY DEF Guarding
  <2>1. torn = {} /\ WatchedElsewhere = {} /\ n = d
    BY <1>1 DEF WatchedElsewhere, d
  <2> DEFINE m == master[g]
  <2>2. m \in Nodes
    BY <1>0, <1>1
  <2>3. g \in guarded => Watches(link[m], g, g \in stale)
    BY <1>0, <2>1 DEF WatchInv, Guarding, Minds, Executes
  <2>4. g = op.slot => op.slot \in link[n].watched /\ link[n].open
    <3>1. Sound(link[n])
      BY <2>1, AllSound DEF WatchInv
    <3>. QED BY <1>2, <2>1, <3>1 DEF WatchInv, WatchAnswered, Sound
  <2>5. Watches(link'[m], g, g \in stale)
    <3>1. CASE g \in guarded
      <4>1. link'[m].watching = TRUE
        BY <1>5, <2>2, <2>3, <3>1 DEF Watches
      <4>. QED BY <1>5, <2>2, <2>3, <3>1, <4>1 DEF Watches
    <3>2. CASE g \notin guarded
      <4>1. g = op.slot /\ g \notin stale /\ m = d
        BY <1>0, <1>1, <3>2 DEF d
      <4>2. link'[m].watching = TRUE
        BY <1>5, <2>2, <4>1
      <4>. QED BY <1>5, <2>1, <2>2, <2>4, <4>1, <4>2 DEF Watches
    <3>. QED BY <3>1, <3>2
  <2>. QED BY <1>1, <2>5 DEF Minds, Watches, Executes
<1>8. WatchAnswered' /\ Addressed' /\ effects' \in Seq(Effect)
  BY <1>1 DEF WatchInv, WatchAnswered, Addressed
<1>. QED BY <1>6, <1>7, <1>8 DEF WatchInv

\* A redirection is followed.
LEMMA FollowsGuards ==
  ASSUME WatchInv, SafeInv', LetGo', pc = "read", op.m # "exec", mode = "ATOMIC", cmdSock \in Nodes,
         NEW o \in Reads(cmdSock), NEW ls, ls = [link EXCEPT ![cmdSock] = o.l],
         FollowGoesOn(ls) \/ FollowGivesUp(ls), UNCHANGED <<op, effects>>
  PROVE  WatchInv'
<1> DEFINE n == cmdSock
<1>0. /\ TypeInv /\ LinkTypes /\ link \in [Nodes -> LinkType]
      /\ \A g \in guarded : master[g] \in Nodes /\ ~LostTo(g)
  <2>1. TypeInv /\ LinkTypes /\ pc \in OnTheWay /\ missed = {} /\ guarded \subseteq Slots
    BY DEF WatchInv, SafeInv, TypeInv, OnTheWay, CallShape, CallTypes
  <2>. QED BY <2>1, HasMaster DEF LinkTypes, LostTo
<1>1. SameWatch(link[n], o.l) \/ o.l = Closed
  BY <1>0, ReadsWatch
<1>2. ASSUME NEW m \in Nodes
      PROVE  /\ SameWatch(link[m], ls[m]) \/ ls[m] = Closed
             /\ ls[m].queue = link[m].queue \/ ls[m].queue = <<>>
  <2>1. ls[m] = (IF m = n THEN o.l ELSE link[m]) /\ link[m] \in LinkType
    BY <1>0
  <2>2. o.l.queue = link[n].queue \/ o.l.queue = <<>>
    BY <1>0, ReadsWatch
  <2>. QED BY <1>1, <2>1, <2>2, ChangesNotWatch
<1>3. /\ \A m \in Nodes : link'[m] = ls[m] \/ link'[m] = Closed
      /\ torn \subseteq torn' /\ pc' \in {"asking", "write", "idle"}
  BY DEF FollowGoesOn, FollowGivesUp, Fails, Returns, NoLinks
<1>4. QueuedHere'
  <2> SUFFICES ASSUME torn = {}, NEW m \in Nodes PROVE OfNode(link[m].queue, m)'
    BY <1>3 DEF QueuedHere
  <2>1. link[m].queue = <<>>
    BY NoneQueued DEF WatchInv
  <2>2. link'[m].queue = <<>> /\ 1..Len(<<>>) = {}
    BY <1>2, <1>3, <2>1, NewLinksSound, EmptySeq
  <2>. QED BY <2>2 DEF OfNode
<1>5. Guarding'
  <2>1. CASE FollowGoesOn(ls)
    <3> SUFFICES ASSUME torn' = {}, NEW g \in guarded PROVE Minds(link[master[g]], g, g \in stale)'
      BY <2>1 DEF Guarding, FollowGoesOn
    <3> DEFINE m == master[g]
    <3>1. torn = {} /\ WatchMoved = {} /\ UNCHANGED stale
      BY <2>1 DEF FollowGoesOn
    <3>2. m \in Nodes /\ master'[g] = m /\ link'[m].open
      BY <1>0, <3>1 DEF WatchMoved
    <3>3. Watches(link[m], g, g \in stale)
      BY <1>0, <3>1 DEF WatchInv, Guarding, Minds, Executes
    <3>4. link'[m] = ls[m] /\ SameWatch(link[m], ls[m])
      BY <1>2, <1>3, <3>2, NewLinksSound
    <3>5. Watches(link'[m], g, g \in stale)
      BY <3>3, <3>4 DEF Watches, SameWatch
    <3> HIDE DEF m
    <3>6. Minds(link[master[g]], g, g \in stale)' = Watches(link'[m], g, g \in stale)
      BY <3>1, <3>2 DEF Minds, Watches, Executes
    <3>. QED BY <3>5, <3>6
  <2>2. CASE FollowGivesUp(ls)
    BY <2>2 DEF FollowGivesUp, Fails, Unguarded, Guarding
  <2>. QED BY <2>1, <2>2
<1>6. WatchAnswered' /\ Addressed' /\ effects' \in Seq(Effect)
  BY <1>3 DEF WatchInv, WatchAnswered, Addressed
<1>. QED BY <1>4, <1>5, <1>6 DEF WatchInv

LEMMA ReadGuards ==
  ASSUME WatchInv, Read, SafeInv', LetGo'
  PROVE  WatchInv'
<1>0. /\ pc = "read" /\ op.m # "exec" /\ cmdSock \in Nodes /\ TypeInv /\ LinkTypes /\ link \in [Nodes -> LinkType]
      /\ UNCHANGED <<mode, missed, op, effects>>
  <2>1. pc = "read" /\ op.m # "exec" /\ pc \in OnTheWay /\ UNCHANGED <<mode, missed, op, effects>>
    BY DEF Read, OnTheWay
  <2>. QED BY <2>1 DEF WatchInv, SafeInv, TypeInv, CallShape, LinkTypes
<1>1. PICK o \in Reads(cmdSock) : ReadAs(o, [link EXCEPT ![cmdSock] = o.l])
  BY <1>0, ReadCases
<1> DEFINE ls == [link EXCEPT ![cmdSock] = o.l]
<1>2. ls[cmdSock] = o.l /\ \A m \in Nodes \ {cmdSock} : ls[m] = link[m]
  BY <1>0
<1>3. /\ o.l.queue = link[cmdSock].queue \/ o.l.queue = <<>>
      /\ o.r.kind # "lost" => SameWatch(link[cmdSock], o.l)
  BY <1>0, ReadsWatch
<1>4. \A m \in Nodes : ls[m].queue = link[m].queue \/ ls[m].queue = <<>>
  BY <1>2, <1>3
<1>5. ASSUME NEW ACTION k, NEW ACTION type, NEW ACTION tears, Fails(k, type, tears), UNCHANGED master,
             \A m \in Nodes : k[m] = ls[m] \/ k[m] = Closed
      PROVE  WatchInv'
  <2>1. \A m \in Nodes : k[m].queue = link[m].queue \/ k[m].queue = <<>>
    BY <1>4, <1>5, NewLinksSound
  <2> HIDE DEF ls
  <2>. QED BY <1>0, <1>5, <2>1, FailsUnguards
<1>6. CASE o.r.kind \in Good /\ (SlotSucceeded(o, ls) \/ (op.m # "watch" /\ Succeeded(o, ls)))
  <2>1. link' = ls /\ pc' = "idle" /\ UNCHANGED <<master, guarded, stale, torn>>
    BY <1>6 DEF SlotSucceeded, Succeeded, Hands, Returns, table
  <2>2. o.r.kind # "lost"
    BY <1>6 DEF Good
  <2>3. Uneventful /\ Executes' = Executes
    BY <1>0, <1>4, <2>1 DEF Uneventful, QueuesStay, Executes
  <2>4. ASSUME NEW m \in Nodes, NEW g \in guarded PROVE HeedsHere(link[m], link'[m], g, g \in stale)
    <3>1. SameWatch(link[m], link'[m])
      BY <1>0, <1>2, <1>3, <2>1, <2>2, ChangesNotWatch
    <3>. QED BY <3>1, SameHeeds
  <2>. QED BY <1>0, <2>1, <2>3, <2>4, Continues
<1>7. CASE o.r.kind \in Good /\ op.m = "watch" /\ Succeeded(o, ls)
  BY <1>0, <1>7, WatchGuards
<1>8. CASE SlotFailed(o, ls) \/ Failed(o, ls)
  <2> DEFINE after == IF o.r.kind = "lost" THEN [ls EXCEPT ![cmdSock] = Closed] ELSE ls
  <2>1. UNCHANGED master
    BY <1>8 DEF SlotFailed, Failed, table
  <2>2. \A m \in Nodes : after[m] = ls[m] \/ after[m] = Closed
    BY <1>0
  <2>3. CASE SlotFailed(o, ls)
    <3>1. Fails(ls, redir'.type, Late(o))
      BY <2>3 DEF SlotFailed
    <3> HIDE DEF ls
    <3>. QED BY <1>5, <2>1, <3>1
  <2>4. CASE Failed(o, ls)
    <3>1. Fails(after, redir'.type, {})
      BY <2>4 DEF Failed
    <3> HIDE DEF after, ls
    <3>. QED BY <1>5, <2>1, <2>2, <3>1
  <2>. QED BY <1>8, <2>3, <2>4
<1>9. CASE o.r.kind \in {"moved", "ask"} /\ Redirected(o, ls)
  <2>1. CASE mode = "MULTI"
    <3>1. Fails(ls, redir'.type, {}) /\ UNCHANGED master
      BY <1>9, <2>1 DEF Redirected, table
    <3> HIDE DEF ls
    <3>. QED BY <1>5, <3>1
  <2>2. CASE mode # "MULTI"
    <3>1. FollowMoved(o.r, ls) \/ FollowAsk(o.r, ls)
      BY <1>9, <2>2 DEF Redirected
    <3>2. mode = "ATOMIC"
      BY <1>0, <2>2 DEF TypeInv, CallTypes
    <3>3. master[o.r.slot] # None
      <4>1. o.r.slot \in Slots /\ pc \in OnTheWay
        <5>1. o.r \in Replies \cup {NoReply}
          BY <1>0, ReadsType DEF TypeInv
        <5>. QED BY <1>0, <1>9, <5>1, Redirects DEF OnTheWay
      <4>. QED BY <1>0, <4>1, HasMaster, NoneAssumption
    <3>4. FollowGoesOn(ls) \/ FollowGivesUp(ls)
      BY <3>1, <3>3, FollowEnds
    <3>. QED BY <1>0, <3>2, <3>4, FollowsGuards
  <2>. QED BY <2>1, <2>2
<1>10. CASE WatchRefused(o, ls)
  <2>1. torn' # {} /\ pc' = "idle" /\ UNCHANGED <<op, effects>>
    BY <1>0, <1>10 DEF WatchRefused, Returns
  <2>. QED BY <2>1 DEF WatchInv, Guarding, QueuedHere, WatchAnswered, Addressed
<1>11. CASE op.m = "unwatch" /\ UnwatchAnswered(o, ls)
  <2>1. /\ link' = [ls EXCEPT ![master[cmdSlot]].watching = FALSE] /\ pc' = "unwatch" /\ torn \subseteq torn'
        /\ UNCHANGED <<master, guarded>>
    BY <1>11 DEF UnwatchAnswered, table
  <2>2. guarded' = {}
    BY <1>0, <1>11, <2>1 DEF WatchInv, LetGo
  <2>3. Uneventful
    <3>1. ASSUME NEW m \in Nodes PROVE link'[m].queue = ls[m].queue
      <4> DEFINE l == ls[m]
      <4>1. link'[m] = l \/ link'[m] = [l EXCEPT !.watching = FALSE]
        BY <1>0, <2>1
      <4>2. l \in LinkType
        BY <1>0, <1>2, ReadsType DEF TypeInv
      <4> HIDE DEF l
      <4>3. link'[m].queue = l.queue
        BY <4>1, <4>2 DEF LinkType
      <4>. QED BY <4>3 DEF l
    <3>. QED BY <1>0, <1>4, <2>1, <3>1 DEF Uneventful, QueuesStay
  <2>. QED BY <2>2, <2>3, Unguards
<1>. QED BY <1>1, <1>6, <1>7, <1>8, <1>9, <1>10, <1>11 DEF ReadAs

\* What unwatch() lets go stays so until it returns.
LEMMA LetsGo ==
  ASSUME LetGo, [Next]_vars
  PROVE  LetGo'
<1>1. CASE Begin
  <2>1. ASSUME NEW m, NEW name, Numbered(m, name) PROVE op'.m = m
    BY <2>1 DEF Numbered
  <2>2. CASE \E s \in Slots : CallCommand(s) \/ CallRead(s) \/ CallDirected(s) \/ CallWatch(s)
    <3>1. ASSUME NEW m, NEW name, NEW s, NEW readonly, Send(m, name, s, readonly) PROVE op'.m = m
      BY <3>1 DEF Send
    <3>2. op'.m \in {"write", "read", "directed", "watch"}
      BY <2>2, <3>1 DEF CallCommand, CallRead, CallDirected, CallWatch
    <3>. QED BY <3>2 DEF LetGo
  <2>3. CASE CallMulti \/ CallExec \/ CallDiscard \/ CallClose \/ CallReconnect
    BY <2>1, <2>3 DEF CallMulti, CallExec, CallDiscard, CallClose, CallReconnect, LetGo
  <2>4. CASE CallUnwatch
    BY <2>4 DEF CallUnwatch, Unguarded, LetGo
  <2>. QED BY <1>1, <2>2, <2>3, <2>4 DEF Begin
<1>2. CASE UNCHANGED <<op, pc, guarded>>
  BY <1>2 DEF LetGo
<1>3. CASE Environment \/ UNCHANGED vars
  <2>1. UNCHANGED <<op, pc, guarded>>
    BY <1>3 DEF vars, Environment, KeyWritten, MigrationEnds, SlotMoves, KeyMoves, ServerCloses, NodeDies,
                call, history
  <2>. QED BY <1>2, <2>1
<1>4. ASSUME pc # "idle", op' = op, guarded' = guarded \/ guarded' = {} \/ op.m # "unwatch" PROVE LetGo'
  BY <1>4 DEF LetGo
<1>5. ASSUME NEW ACTION ls, NEW ACTION type, NEW ACTION tears, Fails(ls, type, tears) PROVE guarded' = {}
  BY <1>5 DEF Fails, Unguarded
<1>6. ASSUME NEW ACTION ls, NEW ACTION answers, NEW ACTION tears, EndsTx(ls, answers, tears) PROVE guarded' = {}
  BY <1>6 DEF EndsTx, Unguarded
<1>7. CASE SendMulti \/ SendAsking
  <2>1. pc # "idle" /\ op' = op /\ (guarded' = guarded \/ guarded' = {})
    BY <1>5, <1>7 DEF SendMulti, SendAsking, GoesOn
  <2>. QED BY <1>4, <2>1
<1>8. CASE Write
  <2>1. pc # "idle" /\ op' = op /\ (guarded' = guarded \/ guarded' = {})
    BY <1>5, <1>8 DEF Write, WriteTo, Miss, NobodyToWriteTo
  <2>. QED BY <1>4, <2>1
<1>9. CASE Read
  <2>1. PICK o \in Reads(cmdSock) : ReadAs(o, [link EXCEPT ![cmdSock] = o.l])
    BY <1>9, ReadCases
  <2> DEFINE ls == [link EXCEPT ![cmdSock] = o.l]
  <2>2. SlotFailed(o, ls) \/ Failed(o, ls) => guarded' = {}
    BY <1>5 DEF SlotFailed, Failed
  <2>3. op.m = "unwatch" /\ UnwatchAnswered(o, ls) => guarded' = guarded
    BY DEF UnwatchAnswered
  <2> HIDE DEF ls
  <2>4. op.m # "unwatch" \/ guarded' = guarded \/ guarded' = {}
    BY <2>1, <2>2, <2>3 DEF ReadAs, ls
  <2>. QED BY <1>4, <1>9, <2>4 DEF Read
<1>10. CASE ExecNode \/ ExecSent \/ UnwatchNode \/ Unwatched
  BY <1>4, <1>10 DEF ExecNode, ExecSent, UnwatchNode, Unwatched, history
<1>11. CASE ReadExec
  BY <1>4, <1>11 DEF ReadExec
<1>12. CASE CollectReply \/ Collected
  <2>1. pc # "idle" /\ op' = op /\ (guarded' = guarded \/ guarded' = {})
    BY <1>6, <1>12 DEF CollectReply, Collected
  <2>. QED BY <1>4, <2>1
<1>13. CASE DiscardNode \/ Discarded
  <2>1. pc # "idle" /\ op' = op /\ (guarded' = guarded \/ guarded' = {})
    BY <1>6, <1>13 DEF DiscardNode, Discarded, Unguarded
  <2>. QED BY <1>4, <2>1
<1>. QED BY <1>1, <1>3, <1>7, <1>8, <1>9, <1>10, <1>11, <1>12, <1>13 DEF Next, Continue

LEMMA WatchInductive ==
  ASSUME WatchInv, [Next]_vars
  PROVE  WatchInv'
<1>1. SafeInv'
  BY SafeInductive DEF WatchInv
<1>. LetGo'
  BY LetsGo DEF WatchInv
<1>2. CASE Continue
  BY <1>1, <1>2, SendMultiGuards, SendAskingGuards, WriteGuards, ReadGuards, ExecGuards, ReadExecGuards,
     CollectGuards, DiscardGuards, UnwatchGuards DEF Continue
<1>3. CASE UNCHANGED vars
  <2>1. UNCHANGED <<link, master, mode, cmdSock, missed, pc, op, effects, guarded, stale, torn>>
    BY <1>3 DEF vars, table, tx, target, call, history
  <2>. QED BY <1>1, <2>1 DEF WatchInv, Guarding, QueuedHere, OfNode, WatchAnswered, Addressed, Minds, Executes, LostTo
<1>. QED BY <1>1, <1>2, <1>3, BeginGuards, EnvironmentGuards DEF Next

-----------------------------------------------------------------------------
(* What EXEC runs. *)

Honours == torn' = {} => \A i \in (Len(effects) + 1)..Len(effects') :
             effects'[i].by = "EXEC" => effects'[i].slot \notin stale

LEMMA NothingRun ==
  ASSUME effects \in Seq(Effect), effects' = effects \/ effects' = <<>>
  PROVE  Honours
<1>1. (Len(effects) + 1)..Len(effects') = {}
  BY EmptySeq
<1>. QED BY <1>1 DEF Honours

LEMMA WriteHonours ==
  ASSUME WatchInv, pc = "write", NEW k \in 1..3, NEW n \in Nodes, NEW refuse \in BOOLEAN, WriteTo(n, k, refuse)
  PROVE  Honours
<1>. PICK o \in Readied(n, k) : o.ok /\ effects' = effects \o Effects(n, o.l, op.cmd, refuse)
  BY DEF WriteTo
<1> DEFINE l == o.l  c == op.cmd  E == Effects(n, l, c, refuse)
<1> SUFFICES ASSUME torn' = {} PROVE Honours
  BY DEF Honours
<1>1. /\ SameWatch(Live(n), l) /\ l.queue = Live(n).queue /\ l \in LinkType
      /\ Live(n) = link[n] \/ Live(n) = Fresh
      /\ op.m = "exec" <=> c.name = "EXEC"
      /\ torn = {} /\ \A s \in guarded : ~LostTo(s)
  BY WritesTo
<1>2. /\ effects' = effects \o E /\ effects \in Seq(Effect) /\ c \in Command
      /\ TypeInv /\ guarded \subseteq Slots /\ stale \subseteq guarded /\ Guarding /\ QueuedHere
  BY DEF WatchInv, SafeInv, TypeInv, CallTypes, Op
<1>3. E \in Seq(Effect) /\ RunsQueue(l, c, E)
  BY <1>1, <1>2, EffectsSay
<1> HIDE DEF l, c, E
<1>4. ASSUME NEW i \in 1..Len(E), E[i].by = "EXEC", E[i].slot \in stale PROVE FALSE
  <2> DEFINE s == E[i].slot
  <2>1. PICK j \in 1..Len(l.queue) : s = l.queue[j].slot
    BY <1>3, <1>4 DEF RunsQueue
  <2>2. op.m = "exec" /\ l.tx = "open" /\ ~l.touched
    BY <1>1, <1>3, <1>4 DEF RunsQueue
  <2>3. SameWatch(link[n], l) /\ l.queue = link[n].queue
    BY <1>1, <2>2, NewLinksSound DEF SameWatch
  <2>4. master[s] = n
    <3>1. s # None
      BY <1>2, <1>4, NoneAssumption
    <3>2. OfNode(l.queue, n)
      BY <1>1, <1>2, <2>3 DEF QueuedHere
    <3>. QED BY <2>1, <3>1, <3>2 DEF OfNode
  <2>5. WatchesYet(link[n], s, TRUE)
    <3>1. Minds(link[master[s]], s, s \in stale)
      BY <1>1, <1>2, <1>4 DEF Guarding
    <3>. QED BY <1>4, <2>2, <2>4, <3>1 DEF Minds, Executes, WatchesYet
  <2>. QED BY <2>2, <2>3, <2>5 DEF WatchesYet, SameWatch
<1>5. ASSUME NEW i \in (Len(effects) + 1)..Len(effects'), effects'[i].by = "EXEC" PROVE effects'[i].slot \notin stale
  <2>1. i - Len(effects) \in 1..Len(E) /\ effects'[i] = E[i - Len(effects)]
    BY <1>2, <1>3, <1>5
  <2>. QED BY <1>4, <1>5, <2>1
<1>. QED BY <1>5 DEF Honours

LEMMA StepsHonour ==
  ASSUME WatchInv, [Next]_vars
  PROVE  Honours
<1>0. effects \in Seq(Effect)
  BY DEF WatchInv
<1>1. CASE Write
  <2>1. CASE NobodyToWriteTo \/ \E k \in 1..3, n \in Nodes : Miss(n, k)
    BY <1>0, <2>1, NothingRun DEF NobodyToWriteTo, Miss
  <2>2. CASE ~(NobodyToWriteTo \/ \E k \in 1..3, n \in Nodes : Miss(n, k))
    BY <1>1, <2>2, WriteHonours DEF Write
  <2>. QED BY <2>1, <2>2
<1>2. CASE Continue /\ ~Write
  BY <1>0, <1>2, NothingRun
     DEF Continue, SendMulti, SendAsking, Read, ExecNode, ReadExec, ExecSent, CollectReply, Collected,
         DiscardNode, Discarded, UnwatchNode, Unwatched, history
<1>3. CASE Begin
  BY <1>0, <1>3, NothingRun
     DEF Begin, CallCommand, CallRead, CallDirected, CallWatch, Send, CallMulti, CallExec, CallDiscard,
         CallUnwatch, CallClose, CallReconnect, Numbered
<1>4. CASE Environment
  BY <1>0, <1>4, NothingRun
     DEF Environment, KeyWritten, MigrationEnds, SlotMoves, KeyMoves, ServerCloses, NodeDies, history
<1>5. CASE UNCHANGED vars
  BY <1>0, <1>5, NothingRun DEF vars, history
<1>. QED BY <1>1, <1>2, <1>3, <1>4, <1>5 DEF Next

\* Optimistic locking works across the nodes of a cluster: as long as none of Tears has happened, EXEC
\* runs no command whose key another client has written since watch() returned TRUE for it, whichever of
\* the nodes the keys are watched at, and whatever commands, migrations and lost connections lie
\* between (RedisCluster::watch, cluster_send_exec, redis_check_eof for a socket that watches).
THEOREM WatchedKeysHonoured == Spec => WatchHonoured
<1>1. Init => WatchInv
  BY StartsGuarding
<1>2. WatchInv /\ [Next]_vars => WatchInv'
  BY WatchInductive
<1>3. WatchInv /\ [Next]_vars =>
        [torn' = {} => \A i \in (Len(effects) + 1)..Len(effects') :
            effects'[i].by = "EXEC" => effects'[i].slot \notin stale]_vars
  BY StepsHonour DEF Honours
<1>. QED BY <1>1, <1>2, <1>3, PTL DEF Spec, WatchHonoured

-----------------------------------------------------------------------------
(* The invariant of what takes effect. *)

\* Nothing has taken effect twice.
Once == \A i, j \in 1..Len(effects) : effects[i].id = effects[j].id => i = j

\* A command has taken effect only if its reply, as long as it has not been read, says so.
Replies1(w) == effects = <<>> \/ /\ Len(effects) = 1 /\ effects[1].id = op.cmd.id
                                 /\ w # <<>> => w[1].kind = "value"
Lone == InCommand => IF pc = "read" THEN Replies1(link[cmdSock].wire) ELSE effects = <<>>

\* discard() and unwatch() run nothing.
NotYet == op.m # "exec" /\ pc \in {"abort", "unwatch"} => effects = <<>>

\* The commands of a transaction are queued in the order they are called.
FoldOrder == /\ \A i, j \in 1..Len(fold) : i < j => fold[i].id < fold[j].id
             /\ \A i \in 1..Len(fold) : fold[i].id <= op.cmd.id /\ (InCommand => fold[i].id < op.cmd.id)

\* exec() runs what was queued, by the EXEC of the node it was queued at.
RunAt(k) == InExec => Done(master[fold[k].slot]) \/ Reading(master[fold[k].slot])
ExecRan  == op.m = "exec" /\ pc # "idle" =>
  \A i \in 1..Len(effects) : \E k \in 1..Len(fold) : effects[i].id = fold[k].id /\ RunAt(k)

RunParts == Once /\ Lone /\ NotYet /\ FoldOrder /\ ExecRan
RunInv   == WatchInv /\ (torn = {} => RunParts)

\* As long as none of Tears has happened.
Untorn == WatchInv /\ torn = {} /\ RunParts

-----------------------------------------------------------------------------
(* The steps that run nothing. *)

LEMMA NoneYet == 1..Len(<<>>) = {}
BY EmptySeq

LEMMA UntornTypes ==
  ASSUME Untorn
  PROVE  /\ TypeInv /\ ClusterTypes /\ LinkTypes /\ link \in [Nodes -> LinkType] /\ Stepped /\ FoldOrder
         /\ op.cmd \in Command /\ op.cmd.id \in Nat /\ effects \in Seq(Effect) /\ SafeInv /\ RunParts
BY DEF Untorn, RunParts, WatchInv, SafeInv, TypeInv, LinkTypes, CallTypes, Op, Command

\* The queue may be emptied between two calls.
LEMMA OrderKept ==
  ASSUME TypeInv, FoldOrder, fold' = fold \/ fold' = <<>>, op'.cmd.id \in Nat, op.cmd.id <= op'.cmd.id,
         InCommand' => InCommand \/ fold = <<>> \/ op.cmd.id < op'.cmd.id
  PROVE  FoldOrder'
<1>1. CASE fold' = <<>>
  BY <1>1, NoneYet DEF FoldOrder
<1>2. CASE fold' = fold /\ fold # <<>>
  <2>1. op.cmd.id \in Nat /\ \A i \in 1..Len(fold) : fold[i].id \in Nat
    BY FoldItems DEF TypeInv, CallTypes, Op, Command
  <2>. QED BY <1>2, <2>1 DEF FoldOrder
<1>. QED BY <1>1, <1>2

LEMMA StartsRuns ==
  ASSUME Untorn, effects' = <<>>, fold' = fold \/ fold' = <<>>, op'.cmd.id = NextId, pc' # "read"
  PROVE  RunParts'
<1>1. op'.cmd.id \in Nat /\ op.cmd.id < op'.cmd.id
  BY UntornTypes DEF NextId
<1>2. FoldOrder'
  BY <1>1, UntornTypes, OrderKept
<1>3. NotYet' /\ Lone'
  BY DEF NotYet, Lone
<1>4. Once' /\ ExecRan'
  BY NoneYet DEF Once, ExecRan
<1>. QED BY <1>2, <1>3, <1>4 DEF RunParts

\* A call returns, or goes on with what runs nothing.
LEMMA ReturnsRuns ==
  ASSUME Untorn, UNCHANGED <<op, effects>>, fold' = fold \/ fold' = <<>>, pc' = "idle"
  PROVE  RunParts'
<1>1. ~InCommand' /\ ~InExec'
  BY DEF InCommand, InExec, OnTheWay
<1>2. FoldOrder'
  BY <1>1, UntornTypes, OrderKept
<1>3. NotYet' /\ Lone' /\ ExecRan'
  BY <1>1 DEF NotYet, Lone, ExecRan
<1>4. Once'
  BY DEF Untorn, RunParts, Once
<1>. QED BY <1>2, <1>3, <1>4 DEF RunParts

LEMMA AbortsRuns ==
  ASSUME Untorn, UNCHANGED <<op, effects, fold>>, op.m = "exec" \/ effects = <<>>,
         op.m = "exec" => pc # "idle", pc' \notin OnTheWay \cup {"exec"}
  PROVE  RunParts'
<1>1. ~InCommand' /\ ~InExec'
  BY DEF InCommand, InExec
<1>2. FoldOrder'
  BY <1>1, UntornTypes, OrderKept
<1>3. NotYet' /\ Lone'
  BY <1>1 DEF NotYet, Lone
<1>4. Once'
  BY DEF Untorn, RunParts, Once
<1>5. ExecRan'
  <2> SUFFICES ASSUME op.m = "exec", NEW i \in 1..Len(effects)
               PROVE  \E k \in 1..Len(fold) : effects[i].id = fold[k].id /\ RunAt(k)'
    BY DEF ExecRan
  <2>1. PICK k \in 1..Len(fold) : effects[i].id = fold[k].id
    BY DEF Untorn, RunParts, ExecRan
  <2>2. RunAt(k)'
    BY <1>1 DEF RunAt
  <2>. QED BY <2>1, <2>2
<1>. QED BY <1>2, <1>3, <1>4, <1>5 DEF RunParts

LEMMA FailsRuns ==
  ASSUME Untorn, NEW ACTION ls, NEW ACTION type, NEW ACTION tears, Fails(ls, type, tears),
         UNCHANGED <<op, effects, fold>>, pc # "idle"
  PROVE  RunParts'
<1>1. IF op.m = "exec" THEN pc' = "abort" ELSE pc' = "idle"
  BY DEF Fails, Returns
<1>2. CASE op.m = "exec"
  BY <1>1, <1>2, AbortsRuns DEF OnTheWay
<1>3. CASE op.m # "exec"
  BY <1>1, <1>3, ReturnsRuns
<1>. QED BY <1>2, <1>3

\* exec() goes on, and what it has run stays run.
LEMMA ExecRuns ==
  ASSUME Untorn, UNCHANGED <<op, effects, fold, master>>, InExec, InExec',
         \A n \in Nodes : Done(n) \/ Reading(n) => Done(n)' \/ Reading(n)'
  PROVE  RunParts'
<1>1. ~InCommand' /\ op.m = "exec" /\ pc # "idle"
  BY DEF InCommand, InExec, OnTheWay
<1>2. FoldOrder'
  BY <1>1, UntornTypes, OrderKept
<1>3. NotYet' /\ Lone'
  BY <1>1 DEF NotYet, Lone
<1>4. Once'
  BY DEF Untorn, RunParts, Once
<1>5. ExecRan'
  <2> SUFFICES ASSUME NEW i \in 1..Len(effects)
               PROVE  \E k \in 1..Len(fold) : effects[i].id = fold[k].id /\ RunAt(k)'
    BY DEF ExecRan
  <2>1. PICK k \in 1..Len(fold) : effects[i].id = fold[k].id /\ RunAt(k)
    BY <1>1 DEF Untorn, RunParts, ExecRan
  <2>2. master[fold[k].slot] \in Nodes
    BY UntornTypes, FoldItems
  <2>3. RunAt(k)'
    <3> DEFINE n == master[fold[k].slot]
    <3>1. Done(n) \/ Reading(n)
      BY <2>1 DEF RunAt
    <3>2. Done(n)' \/ Reading(n)'
      BY <2>2, <3>1
    <3>. QED BY <3>2 DEF RunAt, Done, Reading
  <2>. QED BY <2>1, <2>3
<1>. QED BY <1>2, <1>3, <1>4, <1>5 DEF RunParts

\* A command goes on that has not taken effect.
LEMMA GoesOnRuns ==
  ASSUME Untorn, UNCHANGED <<op, effects, fold>>, op.m # "exec", InCommand' => InCommand \/ fold = <<>>,
         effects = <<>>, pc' # "read"
  PROVE  RunParts'
<1>1. FoldOrder'
  BY UntornTypes, OrderKept
<1>2. NotYet' /\ Lone' /\ ExecRan'
  BY DEF NotYet, Lone, ExecRan
<1>3. Once'
  BY DEF Untorn, RunParts, Once
<1>. QED BY <1>1, <1>2, <1>3 DEF RunParts

LEMMA StartsRun == Init => RunInv
<1> SUFFICES ASSUME Init PROVE RunInv
  OBVIOUS
<1>1. WatchInv
  BY StartsGuarding
<1>2. pc = "idle" /\ effects = <<>> /\ fold = <<>>
  BY DEF Init
<1>3. ~InCommand /\ ~InExec
  BY <1>2 DEF InCommand, InExec, OnTheWay
<1>4. Once /\ FoldOrder
  BY <1>2, NoneYet DEF Once, FoldOrder
<1>5. Lone /\ NotYet /\ ExecRan
  BY <1>2, <1>3 DEF Lone, NotYet, ExecRan
<1>. QED BY <1>1, <1>4, <1>5 DEF RunInv, RunParts

LEMMA BeginRuns ==
  ASSUME Untorn, Begin
  PROVE  RunParts'
<1>1. ASSUME NEW m, NEW name, NEW s, NEW readonly, Send(m, name, s, readonly) PROVE RunParts'
  <2>1. /\ pc' \in {"idle", "multi", "asking", "write"} /\ effects' = <<>> /\ fold' = fold
        /\ op'.cmd.id = NextId
    BY <1>1 DEF Send, Sending, Returns, tx
  <2>. QED BY <2>1, StartsRuns
<1>2. ASSUME NEW s \in Slots, CallCommand(s) \/ CallRead(s) \/ CallDirected(s) \/ CallWatch(s)
      PROVE  RunParts'
  BY <1>1, <1>2 DEF CallCommand, CallRead, CallDirected, CallWatch
<1>3. ASSUME NEW m, NEW name, Numbered(m, name), fold' = fold \/ fold' = <<>>, pc' \notin OnTheWay
      PROVE  RunParts'
  <2>1. [Control(name) EXCEPT !.id = NextId].id = NextId
    BY DEF Control
  <2>2. effects' = <<>> /\ op'.cmd.id = NextId
    BY <1>3, <2>1, UntornTypes DEF Numbered, TypeInv, CallTypes, Op
  <2>. QED BY <1>3, <2>2, StartsRuns DEF OnTheWay
<1>4. CASE CallMulti
  BY <1>3, <1>4 DEF CallMulti, Returns, OnTheWay
<1>5. CASE CallExec
  BY <1>3, <1>5 DEF CallExec, tx, OnTheWay
<1>6. CASE CallDiscard
  BY <1>3, <1>6 DEF CallDiscard, tx, OnTheWay
<1>7. CASE CallUnwatch
  BY <1>3, <1>7 DEF CallUnwatch, tx, OnTheWay
<1>8. CASE CallClose
  BY <1>3, <1>8 DEF CallClose, tx, Returns, OnTheWay
<1>9. CASE CallReconnect
  BY <1>3, <1>9 DEF CallReconnect, Returns, OnTheWay
<1>. QED BY <1>2, <1>4, <1>5, <1>6, <1>7, <1>8, <1>9 DEF Begin

LEMMA EnvironmentRuns ==
  ASSUME Untorn, Environment
  PROVE  RunParts'
<1>0. /\ link \in [Nodes -> LinkType] /\ UNCHANGED <<master, fold, op, pc, pos, cmdSock, effects>>
      /\ pc \in OnTheWay => cmdSock \in Nodes
  <2>1. UNCHANGED <<master, fold, op, pc, pos, cmdSock, effects>>
    BY DEF Environment, KeyWritten, MigrationEnds, SlotMoves, KeyMoves,
           ServerCloses, NodeDies, history, table, tx, target, call
  <2>. QED BY <2>1, UntornTypes DEF TypeInv, CallShape
<1>1. \A n \in Nodes : link'[n].wire = link[n].wire \/ link'[n].wire = <<>>
  <2>1. ASSUME NEW s, link' = Touched(link, s) PROVE \A n \in Nodes : link'[n].wire = link[n].wire
    BY <1>0, <2>1, TouchedWatch DEF Touched
  <2>2. ASSUME NEW n \in Nodes, link' = [link EXCEPT ![n] = Dropped(@)]
        PROVE  \A m \in Nodes : link'[m].wire = link[m].wire \/ link'[m].wire = <<>>
    BY <1>0, <2>2, DroppedWatch
  <2>3. CASE \E s \in Slots : KeyWritten(s) \/ MigrationEnds(s)
    BY <2>1, <2>3 DEF KeyWritten, MigrationEnds
  <2>4. CASE \E s \in Slots, n \in Nodes : SlotMoves(s, n) \/ KeyMoves(s, n)
    BY <2>1, <2>4 DEF SlotMoves, KeyMoves
  <2>5. CASE \E n \in Nodes : ServerCloses(n)
    BY <2>2, <2>5 DEF ServerCloses
  <2>6. CASE \E n, r \in Nodes : NodeDies(n, r)
    BY <2>2, <2>6 DEF NodeDies
  <2>. QED BY <2>3, <2>4, <2>5, <2>6 DEF Environment
<1>2. Once' /\ NotYet' /\ FoldOrder' /\ ExecRan'
  BY <1>0 DEF Untorn, RunParts, Once, NotYet, FoldOrder, ExecRan, RunAt, InExec, InCommand, Done, Reading
<1>3. Lone'
  <2> SUFFICES ASSUME InCommand PROVE Lone'
    BY <1>0 DEF Lone, InCommand
  <2>1. IF pc = "read" THEN Replies1(link[cmdSock].wire) ELSE effects = <<>>
    BY DEF Untorn, RunParts, Lone
  <2>2. pc = "read" => Replies1(link[cmdSock].wire)'
    <3> SUFFICES ASSUME pc = "read" PROVE Replies1(link[cmdSock].wire)'
      OBVIOUS
    <3>1. link'[cmdSock].wire = link[cmdSock].wire \/ link'[cmdSock].wire = <<>>
      BY <1>0, <1>1 DEF OnTheWay
    <3>. QED BY <1>0, <2>1, <3>1 DEF Replies1
  <2>. QED BY <1>0, <2>1, <2>2 DEF Lone
<1>. QED BY <1>2, <1>3 DEF RunParts

-----------------------------------------------------------------------------
(* A command is sent. *)

\* Before a command is written it has not taken effect.
LEMMA NothingRunYet ==
  ASSUME Untorn, InCommand, pc # "read"
  PROVE  effects = <<>>
BY DEF Untorn, RunParts, Lone

\* MULTI, ASKING and a node that cannot be written to run nothing.
LEMMA PreludeRuns ==
  ASSUME Untorn, UNCHANGED <<op, effects, fold, master, pos, cmdSock>>, pc \in {"multi", "asking", "write"},
         pc' \in {"asking", "write"}
  PROVE  RunParts'
<1>1. CASE op.m = "exec"
  <2>1. InExec /\ InExec'
    BY <1>1 DEF InExec, OnTheWay
  <2>2. \A n : (Done(n)' <=> Done(n)) /\ ~Reading(n)
    BY DEF Done, Reading
  <2>. QED BY <2>1, <2>2, ExecRuns
<1>2. CASE op.m # "exec"
  <2>1. InCommand
    BY <1>2 DEF InCommand, OnTheWay
  <2>. QED BY <1>2, <2>1, NothingRunYet, GoesOnRuns
<1>. QED BY <1>1, <1>2

LEMMA SendMultiRuns ==
  ASSUME Untorn, SendMulti
  PROVE  RunParts'
<1>1. /\ pc = "multi" /\ UNCHANGED <<op, effects, fold, master, cmdSock>>
      /\ \/ pc' \in {"asking", "write"} /\ pos' = pos
         \/ \E ls, tears : Fails(ls, redir.type, tears)
  BY DEF SendMulti, tx, table, target, Sending, GoesOn
<1>. QED BY <1>1, PreludeRuns, FailsRuns

LEMMA SendAskingRuns ==
  ASSUME Untorn, SendAsking
  PROVE  RunParts'
<1>1. /\ pc = "asking" /\ UNCHANGED <<op, effects, fold, master, cmdSock>>
      /\ \/ pc' = "write" /\ pos' = pos
         \/ \E ls, tears : Fails(ls, redir.type, tears)
  BY DEF SendAsking, table, target, GoesOn
<1>. QED BY <1>1, PreludeRuns, FailsRuns

LEMMA MissRuns ==
  ASSUME Untorn, pc = "write", UNCHANGED <<table, redir, mode, fold, op>>, NEW k, NEW n, Miss(n, k)
  PROVE  RunParts'
<1>1. UNCHANGED <<op, effects, fold, master, pos, cmdSock, pc>>
  BY DEF Miss, table
<1>. QED BY <1>1, PreludeRuns

\* What takes effect when c is served: c itself, and its reply is a value ...
RunsItself(l, c, kind, E) ==
  /\ kind = "value" /\ c.name \in {"DATA", "NODE"} /\ l.tx = "none"
  /\ Len(E) = 1 /\ E[1].id = c.id
\* ... or all that was queued.
RunsAll(l, c, E) ==
  /\ c.name = "EXEC" /\ Len(E) = Len(l.queue)
  /\ \A i \in 1..Len(E) : E[i].id = QueueIds(l.queue)[i] /\ E[i].by = "EXEC"

LEMMA EffectsAre ==
  ASSUME ClusterTypes, NEW n \in Nodes, NEW l \in LinkType, NEW c \in Command, NEW refuse \in BOOLEAN
  PROVE  LET E == Effects(n, l, c, refuse)  kind == KindOf(n, l, c, refuse) IN
         E = <<>> \/ (~l.eof /\ (RunsItself(l, c, kind, E) \/ RunsAll(l, c, E)))
<1> DEFINE kind == KindOf(n, l, c, refuse)  q == l.queue  E == Effects(n, l, c, refuse)
           one == [id |-> c.id, slot |-> c.slot, by |-> "itself"]
           all == [i \in 1..Len(q) |-> [id |-> q[i].id, slot |-> q[i].slot, by |-> "EXEC"]]
<1>1. E = <<>> \/ (~l.eof /\ ((kind = "value" /\ E = <<one>>) \/ (kind = "array" /\ E = all)))
  BY DEF Effects
<1>2. kind = "array" => c.name = "EXEC"
  BY KindSays
<1>3. kind = "value" => c.name \in {"DATA", "NODE"} /\ l.tx = "none"
  <2> DEFINE v == Verdict(n, l, c)  x == ExecVerdict(n, l, c)  u == Verdict(n, l, [c EXCEPT !.slot = KeySlot(l, c)])
  <2>0. \A m, d : Verdict(m, l, d) \in Verdicts
    BY DEF Verdict, Verdicts
  <2>1. c.name \in {"DATA", "NODE", "WATCH"} =>
          \/ kind \in {v} \ {"here"} \/ kind \in {"error", "ok", "queued"}
          \/ c.name # "WATCH" /\ l.tx = "none"
    BY DEF KindOf
  <2>2. c.name = "EXEC" => kind \in {"error", "nil", "array"} \/ (x # "here" /\ kind = x)
    BY DEF KindOf
  <2>3. c.name \notin {"DATA", "NODE", "WATCH", "EXEC"} => kind \in {"error", "ok"}
    BY DEF KindOf
  <2>4. x = "error" \/ x = u
    BY DEF ExecVerdict
  <2>5. v \in Verdicts /\ u \in Verdicts
    BY <2>0
  <2> HIDE DEF kind, v, x, u
  <2>. QED BY <2>1, <2>2, <2>3, <2>4, <2>5 DEF Verdicts
<1>4. q \in Seq(Queued)
  BY LinkFields
<1>5. Len(all) = Len(q) /\ \A i \in 1..Len(all) : all[i].id = QueueIds(q)[i] /\ all[i].by = "EXEC"
  <2>1. Len(q) \in Nat
    BY <1>4
  <2>2. Len(QueueIds(q)) = Len(q) /\ \A k \in 1..Len(q) : QueueIds(q)[k] = q[k].id
    BY <1>4, QueueIdsAre
  <2> HIDE DEF q
  <2>. QED BY <2>1, <2>2
<1>6. Len(<<one>>) = 1 /\ <<one>>[1].id = c.id
  OBVIOUS
<1> HIDE DEF one, all, q, kind, E
<1>. QED BY <1>1, <1>2, <1>3, <1>5, <1>6 DEF RunsItself, RunsAll, q, kind, E

-----------------------------------------------------------------------------
(* A command is written: what takes effect. *)

LEMMA FoldIds ==
  ASSUME TypeInv, FoldOrder, NEW i \in 1..Len(fold), NEW j \in 1..Len(fold), fold[i].id = fold[j].id
  PROVE  i = j
<1>1. fold[i].id \in Nat /\ fold[j].id \in Nat /\ (i < j \/ j < i \/ i = j)
  BY FoldItems
<1>. QED BY <1>1 DEF FoldOrder

LEMMA ListsDistinct ==
  ASSUME TypeInv, FoldOrder, NEW S, S \subseteq 1..Len(fold), NEW ids \in Seq(Nat), Lists(ids, fold, S)
  PROVE  /\ \A i \in 1..Len(ids) : \E k \in S : ids[i] = fold[k].id
         /\ \A i, j \in 1..Len(ids) : ids[i] = ids[j] => i = j
<1>1. PICK f \in [1..Len(ids) -> S] :
         /\ \A k \in 1..Len(ids) : ids[k] = fold[f[k]].id
         /\ \A k, m \in 1..Len(ids) : k < m => f[k] < f[m]
  BY DEF Lists
<1>2. ASSUME NEW i \in 1..Len(ids), NEW j \in 1..Len(ids), ids[i] = ids[j] PROVE i = j
  <2>1. f[i] \in 1..Len(fold) /\ f[j] \in 1..Len(fold) /\ fold[f[i]].id = fold[f[j]].id
    BY <1>1, <1>2
  <2>2. f[i] = f[j]
    BY <2>1, FoldIds
  <2>. QED BY <1>1, <2>1, <2>2
<1>. QED BY <1>1, <1>2

LEMMA Appended ==
  ASSUME NEW a \in Seq(Effect), NEW b \in Seq(Effect), NEW c, c = a \o b
  PROVE  /\ c \in Seq(Effect) /\ Len(a) \in Nat /\ Len(b) \in Nat /\ Len(c) = Len(a) + Len(b)
         /\ \A i \in 1..Len(c) : \/ i \in 1..Len(a) /\ c[i] = a[i]
                                 \/ /\ i - Len(a) \in 1..Len(b) /\ c[i] = b[i - Len(a)]
                                    /\ i \in (Len(a) + 1)..Len(c)
         /\ \A i \in (Len(a) + 1)..Len(c) : i - Len(a) \in 1..Len(b) /\ c[i] = b[i - Len(a)]
         /\ a = <<>> => c = b
OBVIOUS



\* What is known of a command when it is written on the connection l of n.
Written(n, l, refuse) ==
  /\ link' = [link EXCEPT ![n] = Served(n, l, op.cmd, refuse)]
  /\ Effects(n, l, op.cmd, refuse) \in Seq(Effect) /\ effects' = effects \o Effects(n, l, op.cmd, refuse)
  /\ l.eof = FALSE /\ l.wire = <<>> /\ SameWatch(Live(n), l) /\ l.queue = Live(n).queue /\ Live(n).open
  /\ Live(n) = link[n] \/ Live(n) = Fresh
  /\ mode = "MULTI" => n = cmdSock /\ missed = {}
  /\ op.m = "exec" <=> op.cmd.name = "EXEC"
  /\ op.m # "exec" => op.cmd.name \in {"DATA", "NODE", "WATCH", "UNWATCH"}
  /\ UNCHANGED <<master, pos>> /\ pc' = "read" /\ cmdSock' = n

LEMMA WriteFacts ==
  ASSUME Untorn, pc = "write", UNCHANGED <<table, redir, mode, fold, op>>, torn' = {},
         NEW k \in 1..3, NEW n \in Nodes, NEW refuse \in BOOLEAN, WriteTo(n, k, refuse)
  PROVE  \E l \in LinkType : Written(n, l, refuse)
<1>1. PICK o \in Readied(n, k) :
        /\ o.ok
        /\ link' = [link EXCEPT ![n] = Served(n, o.l, op.cmd, refuse)]
        /\ effects' = effects \o Effects(n, o.l, op.cmd, refuse)
  BY DEF WriteTo
<1>2. /\ o.l \in LinkType /\ o.l.eof = FALSE /\ o.l.wire = <<>>
      /\ SameWatch(Live(n), o.l) /\ o.l.queue = Live(n).queue /\ Live(n).open
      /\ Live(n) = link[n] \/ Live(n) = Fresh
      /\ mode = "MULTI" => n = cmdSock /\ missed = {}
      /\ op.m = "exec" <=> op.cmd.name = "EXEC"
      /\ op.m # "exec" => op.cmd.name \in {"DATA", "NODE", "WATCH", "UNWATCH"}
  BY <1>1, WritesTo DEF Untorn
<1>3. Effects(n, o.l, op.cmd, refuse) \in Seq(Effect)
  BY <1>2, UntornTypes, EffectsSay
<1>4. UNCHANGED <<master, pos>> /\ pc' = "read" /\ cmdSock' = n
  BY DEF table, WriteTo
<1>. QED BY <1>1, <1>2, <1>3, <1>4 DEF Written

LEMMA WriteCommandRuns ==
  ASSUME Untorn, pc = "write", UNCHANGED <<table, redir, mode, fold, op>>, torn' = {}, op.m # "exec",
         NEW k \in 1..3, NEW n \in Nodes, NEW refuse \in BOOLEAN, WriteTo(n, k, refuse)
  PROVE  RunParts'
<1> DEFINE c == op.cmd
<1>0. PICK l \in LinkType : Written(n, l, refuse)
  BY WriteFacts
<1>1. /\ link' = [link EXCEPT ![n] = Served(n, l, c, refuse)]
      /\ Effects(n, l, c, refuse) \in Seq(Effect) /\ effects' = effects \o Effects(n, l, c, refuse)
      /\ l.eof = FALSE /\ l.wire = <<>>
      /\ c.name \in {"DATA", "NODE", "WATCH", "UNWATCH"}
      /\ UNCHANGED <<master, pos>> /\ pc' = "read" /\ cmdSock' = n
  BY <1>0 DEF Written
<1> DEFINE E == Effects(n, l, c, refuse)  s == Served(n, l, c, refuse)  kind == KindOf(n, l, c, refuse)
<1>2. /\ TypeInv /\ ClusterTypes /\ FoldOrder /\ c \in Command /\ c.id \in Nat
      /\ effects \in Seq(Effect) /\ link \in [Nodes -> LinkType]
  BY UntornTypes
<1>3. InCommand /\ InCommand' /\ ~InExec'
  BY <1>1 DEF InCommand, InExec, OnTheWay
<1>4. effects = <<>>
  BY <1>3, NothingRunYet
<1>5. E = <<>> \/ (kind = "value" /\ Len(E) = 1 /\ E[1].id = c.id)
  <2>1. E = <<>> \/ (~l.eof /\ (RunsItself(l, c, kind, E) \/ RunsAll(l, c, E)))
    BY <1>2, EffectsAre
  <2>. QED BY <1>1, <2>1 DEF RunsItself, RunsAll
<1>6. s.wire[1].kind = kind
  <2>1. LinkServed(n, l, c, refuse)
    BY <1>1, <1>2, ServedSays
  <2>2. kind # "array"
    BY <1>1, <1>2, KindSays
  <2>3. RepliesTo(n, l, c, kind)[1].kind = kind
    BY <1>2, <2>2, RepliesSay
  <2>. QED BY <2>1, <2>3 DEF LinkServed
<1>7. link'[n] = s
  BY <1>1, <1>2
<1> HIDE DEF E, s, kind
<1>8. effects' = E
  BY <1>1, <1>4, Appended DEF E
<1>9. Lone'
  BY <1>1, <1>5, <1>6, <1>7, <1>8 DEF Lone, Replies1
<1>10. Once'
  <2> DEFINE L == Len(E)
  <2>1. L = 0 \/ L = 1
    BY <1>5, EmptySeq
  <2> HIDE DEF L
  <2>2. \A i, j \in 1..L : i = j
    BY <2>1
  <2>. QED BY <1>8, <2>2 DEF Once, L
<1>11. FoldOrder'
  BY <1>2, <1>3, OrderKept
<1>12. NotYet' /\ ExecRan'
  BY <1>1 DEF NotYet, ExecRan
<1>. QED BY <1>9, <1>10, <1>11, <1>12 DEF RunParts

\* EXEC goes to the node of the item, and nowhere else.
LEMMA WriteExecRuns ==
  ASSUME Untorn, pc = "write", UNCHANGED <<table, redir, mode, fold, op>>, torn' = {}, op.m = "exec",
         NEW k \in 1..3, NEW n \in Nodes, NEW refuse \in BOOLEAN, WriteTo(n, k, refuse)
  PROVE  RunParts'
<1> DEFINE c == op.cmd  S == Items(n, 1)
<1>0. PICK l \in LinkType : Written(n, l, refuse)
  BY WriteFacts
<1>1. /\ link' = [link EXCEPT ![n] = Served(n, l, c, refuse)]
      /\ Effects(n, l, c, refuse) \in Seq(Effect) /\ effects' = effects \o Effects(n, l, c, refuse)
      /\ l.queue = Live(n).queue
      /\ mode = "MULTI" => n = cmdSock /\ missed = {}
      /\ c.name = "EXEC"
      /\ UNCHANGED <<master, pos>> /\ pc' = "read" /\ cmdSock' = n
  BY <1>0 DEF Written
<1> DEFINE E == Effects(n, l, c, refuse)
<1>2. /\ TypeInv /\ ClusterTypes /\ FoldOrder /\ c \in Command /\ c.id \in Nat
      /\ effects \in Seq(Effect) /\ link \in [Nodes -> LinkType]
  BY UntornTypes
<1>3. n = cmdSock /\ missed = {}
  BY <1>1, UntornTypes DEF Stepped, OnTheWay
<1>4. /\ InExec /\ InExec' /\ ~InCommand' /\ \A m : ~Reading(m)
      /\ \A m : (Done(m)' <=> Done(m)) /\ (Reading(m)' <=> m = n)
  BY <1>1 DEF InExec, InCommand, OnTheWay, Reading, Done
<1>5. ~Done(n) /\ Fits(n)
  <2>1. Aimed /\ NodeFits(n)
    BY DEF Untorn, WatchInv, SafeInv, Agree
  <2>2. ~Done(n)
    BY <1>3, <1>4, <2>1 DEF Aimed
  <2>. QED BY <1>3, <1>4, <2>1, <2>2 DEF NodeFits, Left
<1>6. S \subseteq 1..Len(fold) /\ \A i \in S : master[fold[i].slot] = n
  BY DEF Items
<1>7. l.queue = <<>> \/ Lists(QueueIds(l.queue), fold, S)
  <2>1. l.queue = link[n].queue \/ l.queue = <<>>
    BY <1>1, LiveWatch
  <2>2. link[n].queue = <<>> \/ Lists(QueueIds(link[n].queue), fold, S)
    BY <1>5 DEF Fits, Quiet, Sound
  <2> HIDE DEF S
  <2>. QED BY <2>1, <2>2
<1>8. E = <<>> \/ (Len(E) = Len(l.queue) /\ \A i \in 1..Len(E) : E[i].id = QueueIds(l.queue)[i])
  <2>1. E = <<>> \/ (~l.eof /\ (RunsItself(l, c, KindOf(n, l, c, refuse), E) \/ RunsAll(l, c, E)))
    BY <1>2, EffectsAre
  <2>. QED BY <1>1, <2>1 DEF RunsItself, RunsAll
<1>9. E \in Seq(Effect) /\ effects' = effects \o E
  BY <1>1
<1> HIDE DEF c, E, S
<1>10. /\ \A i \in 1..Len(E) : \E j \in S : E[i].id = fold[j].id
      /\ \A i, j \in 1..Len(E) : E[i].id = E[j].id => i = j
  <2>1. CASE E = <<>> \/ l.queue = <<>>
    <3>1. 1..Len(E) = {}
      BY <1>8, <2>1, NoneYet
    <3>. QED BY <3>1
  <2>2. CASE ~(E = <<>> \/ l.queue = <<>>)
    <3> DEFINE ids == QueueIds(l.queue)
    <3>1. ids \in Seq(Nat) /\ Len(ids) = Len(E) /\ Lists(ids, fold, S) /\ \A i \in 1..Len(E) : E[i].id = ids[i]
      BY <1>1, <1>2, <1>7, <1>8, <2>2, LinkFields, QueueIdsAre
    <3> HIDE DEF ids
    <3>2. /\ \A i \in 1..Len(ids) : \E j \in S : ids[i] = fold[j].id
          /\ \A i, j \in 1..Len(ids) : ids[i] = ids[j] => i = j
      <4>1. TypeInv /\ FoldOrder
        BY <1>2
      <4>2. ids \in Seq(Nat) /\ Lists(ids, fold, S) /\ S \subseteq 1..Len(fold)
        BY <1>6, <3>1
      <4>. QED BY <4>1, <4>2, ListsDistinct
    <3>. QED BY <3>1, <3>2
  <2>. QED BY <2>1, <2>2
<1>11. \A i \in 1..Len(effects) : \E j \in 1..Len(fold) : effects[i].id = fold[j].id /\ Done(master[fold[j].slot])
  BY <1>4 DEF Untorn, RunParts, ExecRan, RunAt
<1>12. ASSUME NEW i \in 1..Len(effects), NEW j \in 1..Len(E), effects[i].id = E[j].id PROVE FALSE
  <2>1. PICK x \in 1..Len(fold) : effects[i].id = fold[x].id /\ Done(master[fold[x].slot])
    BY <1>11
  <2>2. PICK y \in S : E[j].id = fold[y].id
    BY <1>10
  <2>3. x = y
    BY <1>1, <1>2, <1>6, <1>12, <2>1, <2>2, FoldIds
  <2>. QED BY <1>5, <1>6, <2>1, <2>3
<1> DEFINE F == effects'  L == Len(effects)
<1>13. /\ L \in Nat
       /\ \A i \in 1..Len(F) : \/ i \in 1..L /\ F[i] = effects[i]
                               \/ i - L \in 1..Len(E) /\ F[i] = E[i - L] /\ i \in (L + 1)..Len(F)
  BY <1>2, <1>9, Appended
<1>14. Once'
  <2> SUFFICES ASSUME NEW i \in 1..Len(F), NEW j \in 1..Len(F), F[i].id = F[j].id PROVE i = j
    BY DEF Once
  <2> HIDE DEF F, L
  <2>1. \A x, y \in 1..L : effects[x].id = effects[y].id => x = y
    BY DEF Untorn, RunParts, Once, L
  <2>2. CASE i \in 1..L /\ j \in 1..L /\ F[i] = effects[i] /\ F[j] = effects[j]
    BY <2>1, <2>2
  <2>3. CASE i - L \in 1..Len(E) /\ F[i] = E[i - L] /\ j - L \in 1..Len(E) /\ F[j] = E[j - L]
    <3>1. i - L = j - L
      BY <1>10, <2>3
    <3>. QED BY <1>13, <3>1
  <2>4. CASE \/ i \in 1..L /\ F[i] = effects[i] /\ j - L \in 1..Len(E) /\ F[j] = E[j - L]
             \/ j \in 1..L /\ F[j] = effects[j] /\ i - L \in 1..Len(E) /\ F[i] = E[i - L]
    BY <1>12, <2>4 DEF L
  <2>. QED BY <1>13, <2>2, <2>3, <2>4
<1>15. ExecRan'
  <2> SUFFICES ASSUME NEW i \in 1..Len(F)
               PROVE  \E j \in 1..Len(fold) : F[i].id = fold[j].id /\ RunAt(j)'
    BY <1>1, <1>2 DEF ExecRan
  <2> HIDE DEF F, L
  <2>1. CASE i \in 1..L /\ F[i] = effects[i]
    <3>1. PICK j \in 1..Len(fold) : effects[i].id = fold[j].id /\ Done(master[fold[j].slot])
      BY <1>11, <2>1 DEF L
    <3>2. RunAt(j)'
      <4>1. Done(master[fold[j].slot])'
        BY <1>1, <1>2, <1>4, <3>1 DEF Done
      <4>. QED BY <1>1, <1>2, <4>1 DEF RunAt, Done
    <3>. QED BY <2>1, <3>1, <3>2
  <2>2. CASE i - L \in 1..Len(E) /\ F[i] = E[i - L]
    <3>1. PICK j \in S : E[i - L].id = fold[j].id
      BY <1>10, <2>2
    <3>2. j \in 1..Len(fold) /\ master[fold[j].slot] = n
      BY <1>6, <3>1
    <3>3. RunAt(j)'
      BY <1>1, <1>2, <3>2 DEF RunAt, Reading
    <3>. QED BY <2>2, <3>1, <3>2, <3>3
  <2>. QED BY <1>13, <2>1, <2>2
<1>16. FoldOrder'
  BY <1>1, <1>2, <1>4, OrderKept DEF c
<1>17. NotYet' /\ Lone'
  BY <1>1, <1>2, <1>3, <1>4 DEF NotYet, Lone
<1>. QED BY <1>14, <1>15, <1>16, <1>17 DEF RunParts

LEMMA WriteRuns ==
  ASSUME Untorn, Write, torn' = {}
  PROVE  RunParts'
<1>1. pc = "write" /\ UNCHANGED <<table, redir, mode, fold, op>>
  BY DEF Write
<1>2. ASSUME NEW k \in 1..3, NEW n \in Nodes, NEW refuse \in BOOLEAN, WriteTo(n, k, refuse) PROVE RunParts'
  <2>1. CASE op.m = "exec"
    BY <1>1, <1>2, <2>1, WriteExecRuns
  <2>2. CASE op.m # "exec"
    BY <1>1, <1>2, <2>2, WriteCommandRuns
  <2>. QED BY <2>1, <2>2
<1>3. CASE NobodyToWriteTo
  <2>1. Fails(link, redir.type, {}) /\ UNCHANGED effects
    BY <1>3 DEF NobodyToWriteTo
  <2>. QED BY <1>1, <2>1, FailsRuns
<1>4. ASSUME NEW k \in 1..3, NEW n \in Nodes, Miss(n, k) PROVE RunParts'
  BY <1>1, <1>4, MissRuns
<1>. QED BY <1>2, <1>3, <1>4 DEF Write

-----------------------------------------------------------------------------
(* An answer is read: what takes effect. *)

\* A command that returns, and one whose handler is queued.
LEMMA HandsRuns ==
  ASSUME Untorn, InCommand, UNCHANGED <<op, effects>>, pc' = "idle", NEW slot \in Slots,
         fold' = fold \/ fold' = Append(fold, [id |-> op.cmd.id, slot |-> slot])
  PROVE  RunParts'
<1> DEFINE x == [id |-> op.cmd.id, slot |-> slot]  T == [id : Nat, slot : Slots]  L == Len(fold)
<1>1. CASE fold' = fold
  BY <1>1, ReturnsRuns
<1>2. CASE fold' = Append(fold, x)
  <2>1. TypeInv /\ op.cmd.id \in Nat /\ ~InCommand' /\ ~InExec' /\ FoldOrder
    BY UntornTypes DEF InCommand, InExec, OnTheWay
  <2>2. fold \in Seq(T) /\ x \in T /\ x.id = op.cmd.id
    BY <2>1 DEF TypeInv, CallTypes
  <2>3. /\ \A i \in 1..L : fold[i].id \in Nat /\ fold[i].id < op.cmd.id
        /\ \A i, j \in 1..L : i < j => fold[i].id < fold[j].id
    BY <2>1, FoldItems DEF FoldOrder
  <2> HIDE DEF x, T, L
  <2>4. L \in Nat /\ Len(fold') = L + 1 /\ fold'[L + 1] = x /\ \A i \in 1..L : fold'[i] = fold[i]
    BY <1>2, <2>2 DEF L
  <2>5. \A i \in 1..(L + 1) : i \in 1..L \/ i = L + 1
    BY <2>4
  <2> DEFINE q == fold'
  <2>6. /\ \A i \in 1..(L + 1) : q[i].id <= op.cmd.id
        /\ \A i, j \in 1..(L + 1) : i < j => q[i].id < q[j].id
    <3> HIDE DEF q
    <3>1. \A i \in 1..L : q[i].id \in Nat /\ q[i].id < op.cmd.id
      BY <2>3, <2>4 DEF q
    <3>2. q[L + 1].id = op.cmd.id
      BY <2>2, <2>4 DEF q
    <3>3. \A i, j \in 1..L : i < j => q[i].id < q[j].id
      BY <2>3, <2>4 DEF q
    <3>4. \A i \in 1..(L + 1) : q[i].id <= op.cmd.id
      BY <2>1, <2>5, <3>1, <3>2
    <3>5. ASSUME NEW i \in 1..(L + 1), NEW j \in 1..(L + 1), i < j PROVE q[i].id < q[j].id
      <4>1. i \in 1..L
        BY <2>4, <3>5
      <4>. QED BY <2>5, <3>1, <3>2, <3>3, <3>5, <4>1
    <3>. QED BY <3>4, <3>5
  <2>7. FoldOrder'
    BY <2>1, <2>4, <2>6 DEF FoldOrder
  <2>8. NotYet' /\ Lone' /\ ExecRan'
    BY <2>1 DEF NotYet, Lone, ExecRan
  <2>9. Once'
    BY DEF Untorn, RunParts, Once
  <2>. QED BY <2>7, <2>8, <2>9 DEF RunParts
<1>. QED BY <1>1, <1>2

\* A reply that is no value is that of a command that has not taken effect.
LEMMA NotAValue ==
  ASSUME Untorn, pc = "read", op.m # "exec", NEW o \in Reads(cmdSock), o.r.kind \notin {"lost", "value"}
  PROVE  effects = <<>>
<1>1. InCommand /\ cmdSock \in Nodes /\ link[cmdSock] \in LinkType
  BY UntornTypes DEF InCommand, OnTheWay, TypeInv, CallShape
<1>2. Replies1(link[cmdSock].wire)
  BY <1>1 DEF Untorn, RunParts, Lone
<1>3. link[cmdSock].wire # <<>> /\ link[cmdSock].wire[1].kind # "value"
  BY <1>1, ReadsSay
<1>. QED BY <1>2, <1>3 DEF Replies1

\* A redirection is followed, or not.
LEMMA FollowsRuns ==
  ASSUME Untorn, pc = "read", op.m # "exec", NEW o \in Reads(cmdSock), o.r.kind \in {"moved", "ask"},
         NEW ls, FollowMoved(o.r, ls) \/ FollowAsk(o.r, ls), UNCHANGED <<fold, op, effects>>
  PROVE  RunParts'
<1>1. InCommand /\ cmdSock \in Nodes /\ TypeInv
  BY UntornTypes DEF InCommand, OnTheWay, TypeInv, CallShape
<1>2. effects = <<>>
  BY NotAValue
<1>3. master[o.r.slot] # None
  <2>1. o.r \in Replies \cup {NoReply}
    BY <1>1, ReadsType DEF TypeInv
  <2>2. o.r.slot \in Slots
    BY <2>1, Redirects
  <2>. QED BY <1>1, <2>2, HasMaster, NoneAssumption DEF OnTheWay
<1>4. CASE FollowGoesOn(ls)
  <2>1. pc' \in {"asking", "write"}
    BY <1>4 DEF FollowGoesOn
  <2>. QED BY <1>1, <1>2, <2>1, GoesOnRuns
<1>5. CASE FollowGivesUp(ls)
  BY <1>5, FailsRuns DEF FollowGivesUp
<1>. QED BY <1>3, <1>4, <1>5, FollowEnds

LEMMA ReadRuns ==
  ASSUME Untorn, Read
  PROVE  RunParts'
<1>0. pc = "read" /\ op.m # "exec" /\ cmdSock \in Nodes /\ InCommand /\ UNCHANGED <<mode, op, effects>>
  <2>1. pc = "read" /\ op.m # "exec" /\ pc \in OnTheWay /\ UNCHANGED <<mode, op, effects>>
    BY DEF Read, OnTheWay
  <2>. QED BY <2>1, UntornTypes DEF TypeInv, CallShape, InCommand
<1>1. PICK o \in Reads(cmdSock) : ReadAs(o, [link EXCEPT ![cmdSock] = o.l])
  BY ReadCases
<1> DEFINE ls == [link EXCEPT ![cmdSock] = o.l]
<1>2. ReadAs(o, ls)
  BY <1>1
<1> HIDE DEF ls
<1>3. CASE op.m # "unwatch" /\ (SlotSucceeded(o, ls) \/ Succeeded(o, ls))
  <2>1. pc' = "idle" /\ (fold' = fold \/ fold' = Append(fold, [id |-> op.cmd.id, slot |-> op.slot]))
    BY <1>3 DEF SlotSucceeded, Succeeded, Hands, Returns
  <2>2. op.slot \in Slots
    BY <1>0, <1>3, UntornTypes DEF TypeInv, CallShape, InCommand
  <2>. QED BY <1>0, <2>1, <2>2, HandsRuns
<1>4. ASSUME NEW ACTION k, NEW ACTION type, NEW ACTION tears, Fails(k, type, tears), UNCHANGED fold PROVE RunParts'
  BY <1>0, <1>4, FailsRuns
<1>5. CASE SlotFailed(o, ls)
  BY <1>4, <1>5 DEF SlotFailed
<1>6. CASE Failed(o, ls)
  BY <1>4, <1>6 DEF Failed
<1>7. CASE WatchRefused(o, ls)
  BY <1>0, <1>7, ReturnsRuns DEF WatchRefused, Returns
<1>8. CASE o.r.kind \in {"moved", "ask"} /\ Redirected(o, ls)
  <2>1. CASE mode = "MULTI"
    BY <1>4, <1>8, <2>1 DEF Redirected
  <2>2. CASE mode # "MULTI"
    <3>1. (FollowMoved(o.r, ls) \/ FollowAsk(o.r, ls)) /\ UNCHANGED fold
      BY <1>8, <2>2 DEF Redirected
    <3>. QED BY <1>0, <1>8, <3>1, FollowsRuns
  <2>. QED BY <2>1, <2>2
<1>9. CASE o.r.kind \in {"ok", "queued"} /\ UnwatchAnswered(o, ls)
  <2>1. effects = <<>>
    BY <1>0, <1>9, NotAValue
  <2>2. pc' = "unwatch" /\ UNCHANGED fold
    BY <1>9 DEF UnwatchAnswered
  <2>. QED BY <1>0, <2>1, <2>2, AbortsRuns DEF OnTheWay
<1>. QED BY <1>2, <1>3, <1>5, <1>6, <1>7, <1>8, <1>9 DEF ReadAs

-----------------------------------------------------------------------------
(* exec(), discard() and unwatch(): what takes effect. *)

LEMMA ExecNodeRuns ==
  ASSUME Untorn, ExecNode
  PROVE  RunParts'
<1>1. /\ pc = "exec" /\ pc' \in {"exec", "asking", "write"} /\ (pos' = pos \/ pos' = pos + 1)
      /\ UNCHANGED <<op, effects, fold, master>>
  BY DEF ExecNode, Sending, table, tx, history
<1>2. op.m = "exec" /\ pos \in Nat
  BY <1>1, UntornTypes DEF TypeInv, CallTypes, CallShape
<1>3. InExec /\ InExec' /\ \A n : ~Reading(n)
  BY <1>1, <1>2 DEF InExec, OnTheWay, Reading
<1>4. \A n \in Nodes : Done(n) => Done(n)'
  BY <1>1, <1>2 DEF Done
<1>. QED BY <1>1, <1>3, <1>4, ExecRuns

LEMMA ReadExecRuns ==
  ASSUME Untorn, ReadExec
  PROVE  RunParts'
<1>1. pc = "read" /\ op.m = "exec" /\ UNCHANGED <<op, effects, fold, master, cmdSock>>
  BY DEF ReadExec, table
<1>2. \/ pc' = "exec" /\ pos' = pos + 1
      \/ \E o : Fails([link EXCEPT ![cmdSock] = o.l], redir'.type, Late(o))
  BY DEF ReadExec
<1>3. CASE pc' = "exec" /\ pos' = pos + 1
  <2>1. InExec /\ InExec' /\ pos \in Nat \ {0}
    BY <1>1, <1>3, UntornTypes DEF InExec, OnTheWay, TypeInv, CallTypes
  <2>2. cmdSock = master[fold[pos].slot]
    BY <1>1, <2>1 DEF Untorn, WatchInv, SafeInv, Agree, Aimed
  <2>3. ASSUME NEW n \in Nodes, Done(n) \/ Reading(n) PROVE Done(n)'
    <3>1. CASE Done(n)
      BY <1>1, <1>3, <2>1, <3>1 DEF Done
    <3>2. CASE Reading(n)
      <4>1. pos \in 1..(pos' - 1) /\ master'[fold'[pos].slot] = n
        BY <1>1, <1>3, <2>1, <2>2, <3>2 DEF Reading
      <4>. QED BY <4>1 DEF Done
    <3>. QED BY <2>3, <3>1, <3>2
  <2>. QED BY <1>1, <1>3, <2>1, <2>3, ExecRuns
<1>4. CASE \E o : Fails([link EXCEPT ![cmdSock] = o.l], redir'.type, Late(o))
  BY <1>1, <1>4, FailsRuns
<1>. QED BY <1>2, <1>3, <1>4

LEMMA LaterRuns ==
  ASSUME Untorn, ExecSent \/ CollectReply \/ Collected \/ DiscardNode \/ Discarded \/ UnwatchNode \/ Unwatched
  PROVE  RunParts'
<1>0. /\ pc \in {"exec", "collect"} => op.m = "exec"
      /\ pc = "unwatch" => op.m = "unwatch"
      /\ pc \in {"abort", "unwatch"} => op.m = "exec" \/ effects = <<>>
      /\ UNCHANGED <<op, effects>> /\ pc # "idle"
  <2>1. UNCHANGED <<op, effects>> /\ pc # "idle"
    BY DEF ExecSent, CollectReply, Collected, DiscardNode, Discarded, UnwatchNode, Unwatched, history
  <2>. QED BY <2>1, UntornTypes DEF RunParts, NotYet, TypeInv, CallShape, Stepped
<1>1. ASSUME NEW ACTION ls, NEW ACTION answers, NEW ACTION tears, EndsTx(ls, answers, tears) PROVE RunParts'
  BY <1>0, <1>1, ReturnsRuns DEF EndsTx, Returns
<1>2. CASE ExecSent
  BY <1>0, <1>2, AbortsRuns DEF ExecSent, tx, OnTheWay
<1>3. CASE CollectReply
  <2>1. \/ \E ls, answers, tears : EndsTx(ls, answers, tears)
        \/ UNCHANGED <<pc, fold>>
    BY <1>3 DEF CollectReply
  <2>2. pc = "collect"
    BY <1>3 DEF CollectReply
  <2>. QED BY <1>0, <1>1, <2>1, <2>2, AbortsRuns DEF OnTheWay
<1>4. CASE Collected
  BY <1>1, <1>4 DEF Collected
<1>5. CASE DiscardNode
  <2>1. \/ \E ls, answers, tears : EndsTx(ls, answers, tears)
        \/ UNCHANGED <<pc, fold>>
    BY <1>5 DEF DiscardNode
  <2>2. pc = "abort"
    BY <1>5 DEF DiscardNode
  <2>. QED BY <1>0, <1>1, <2>1, <2>2, AbortsRuns DEF OnTheWay
<1>6. CASE Discarded
  <2>1. CASE op.m = "exec"
    BY <1>1, <1>6, <2>1 DEF Discarded
  <2>2. CASE op.m # "exec"
    BY <1>0, <1>6, <2>2, ReturnsRuns DEF Discarded, Returns
  <2>. QED BY <2>1, <2>2
<1>7. CASE UnwatchNode
  <2>1. pc = "unwatch" /\ pc' \in {"asking", "write"} /\ UNCHANGED fold
    BY <1>7 DEF UnwatchNode, tx, Sending
  <2>2. op.m = "unwatch" /\ fold = <<>>
    BY <1>0, <2>1, UntornTypes DEF Stepped
  <2>3. effects = <<>>
    BY <1>0, <2>1, <2>2
  <2>. QED BY <1>0, <2>1, <2>2, <2>3, GoesOnRuns
<1>8. CASE Unwatched
  BY <1>0, <1>8, ReturnsRuns DEF Unwatched, Returns, tx
<1>. QED BY <1>2, <1>3, <1>4, <1>5, <1>6, <1>7, <1>8

\* What has gone wrong is not forgotten.
LEMMA TearsStay ==
  ASSUME [Next]_vars
  PROVE  torn \subseteq torn'
<1>1. ASSUME NEW ACTION ls, NEW ACTION type, NEW ACTION tears, Fails(ls, type, tears) PROVE torn \subseteq torn'
  BY <1>1 DEF Fails
<1>2. ASSUME NEW ACTION ls, NEW ACTION answers, NEW ACTION tears, EndsTx(ls, answers, tears) PROVE torn \subseteq torn'
  BY <1>2 DEF EndsTx
<1>3. CASE Begin
  BY <1>3 DEF Begin, CallCommand, CallRead, CallDirected, CallWatch, Send, CallMulti, CallExec, CallDiscard,
              CallUnwatch, CallClose, CallReconnect
<1>4. CASE Environment
  BY <1>4 DEF Environment, KeyWritten, MigrationEnds, SlotMoves, KeyMoves, ServerCloses, NodeDies, history
<1>5. CASE UNCHANGED vars
  BY <1>5 DEF vars, history
<1>6. CASE SendMulti \/ SendAsking
  BY <1>1, <1>6 DEF SendMulti, SendAsking, GoesOn
<1>7. CASE Write
  <2>1. CASE NobodyToWriteTo
    BY <1>1, <2>1 DEF NobodyToWriteTo
  <2>2. CASE ~NobodyToWriteTo
    BY <1>7, <2>2 DEF Write, WriteTo, Miss
  <2>. QED BY <2>1, <2>2
<1>8. CASE Read
  <2>1. PICK o \in Reads(cmdSock) : ReadAs(o, [link EXCEPT ![cmdSock] = o.l])
    BY <1>8, ReadCases
  <2> DEFINE ls == [link EXCEPT ![cmdSock] = o.l]
  <2>2. ReadAs(o, ls)
    BY <2>1
  <2> HIDE DEF ls
  <2>3. ASSUME FollowMoved(o.r, ls) \/ FollowAsk(o.r, ls) PROVE torn \subseteq torn'
    BY <1>1, <2>3, Zenon DEF FollowMoved, FollowAsk, UpdateSlot, MappingFails, ToItsMaster, GoesRound
  <2>4. CASE Redirected(o, ls)
    BY <1>1, <2>3, <2>4 DEF Redirected
  <2>. QED BY <1>1, <2>2, <2>4 DEF ReadAs, SlotSucceeded, Succeeded, UnwatchAnswered, SlotFailed, WatchRefused,
                                   Failed
<1>9. CASE ReadExec
  BY <1>1, <1>9 DEF ReadExec
<1>10. CASE CollectReply \/ Collected \/ DiscardNode \/ Discarded
  BY <1>2, <1>10 DEF CollectReply, Collected, DiscardNode, Discarded
<1>11. CASE ExecNode \/ ExecSent \/ UnwatchNode \/ Unwatched
  BY <1>11 DEF ExecNode, ExecSent, UnwatchNode, Unwatched, history
<1>. QED BY <1>3, <1>4, <1>5, <1>6, <1>7, <1>8, <1>9, <1>10, <1>11 DEF Next, Continue

LEMMA RunInductive ==
  ASSUME RunInv, [Next]_vars
  PROVE  RunInv'
<1>1. WatchInv'
  BY WatchInductive DEF RunInv
<1> SUFFICES ASSUME torn' = {} PROVE RunParts'
  BY <1>1 DEF RunInv
<1>2. Untorn
  BY TearsStay DEF RunInv, Untorn
<1>3. CASE Begin
  BY <1>2, <1>3, BeginRuns
<1>4. CASE Continue
  BY <1>2, <1>4, SendMultiRuns, SendAskingRuns, WriteRuns, ReadRuns, ExecNodeRuns, ReadExecRuns, LaterRuns
     DEF Continue
<1>5. CASE Environment
  BY <1>2, <1>5, EnvironmentRuns
<1>6. CASE UNCHANGED vars
  <2>1. UNCHANGED <<link, master, fold, cmdSock, pc, op, pos, effects>>
    BY <1>6 DEF vars, table, tx, target, call, history
  <2>. QED BY <1>2, <2>1 DEF Untorn, RunParts, Once, Lone, Replies1, NotYet, FoldOrder, ExecRan, RunAt,
                             InExec, InCommand, Done, Reading
<1>. QED BY <1>3, <1>4, <1>5, <1>6 DEF Next

-----------------------------------------------------------------------------
(* What takes effect, and how. *)

LEMMA OnceFollows ==
  ASSUME RunInv
  PROVE  AtMostOnce
<1> SUFFICES ASSUME torn = {} PROVE AtMostOnce
  BY DEF AtMostOnce
<1>1. Untorn /\ Once
  BY DEF RunInv, Untorn, RunParts
<1>2. ASSUME pc # "idle", NEW i \in 1..Len(effects)
      PROVE  effects[i].id \in {op.cmd.id} \cup IF op.m = "exec" THEN {fold[k].id : k \in 1..Len(fold)} ELSE {}
  <2>1. CASE op.m = "exec"
    BY <1>1, <1>2, <2>1 DEF Untorn, RunParts, ExecRan
  <2>2. CASE op.m # "exec" /\ pc = "read"
    <3>1. Replies1(link[cmdSock].wire)
      BY <1>1, <2>2 DEF Untorn, RunParts, Lone, InCommand, OnTheWay
    <3>2. effects # <<>>
      BY <1>2, NoneYet
    <3>3. Len(effects) = 1 /\ effects[1].id = op.cmd.id
      BY <3>1, <3>2 DEF Replies1
    <3>4. i = 1
      BY <1>2, <3>3
    <3>. QED BY <3>3, <3>4
  <2>3. CASE op.m # "exec" /\ pc # "read"
    <3>1. pc \in {"abort", "unwatch"} \/ InCommand
      BY <1>1, <1>2, <2>3, UntornTypes DEF TypeInv, CallTypes, CallShape, InCommand, OnTheWay
    <3>2. effects = <<>>
      BY <1>1, <2>3, <3>1 DEF Untorn, RunParts, NotYet, Lone
    <3>. QED BY <1>2, <3>2, NoneYet
  <2>. QED BY <2>1, <2>2, <2>3
<1>. QED BY <1>1, <1>2 DEF AtMostOnce, Once

ByExec == mode = "MULTI" /\ torn' = {} =>
            \A i \in (Len(effects) + 1)..Len(effects') : effects'[i].by = "EXEC"

LEMMA NothingAsked ==
  ASSUME effects \in Seq(Effect), effects' = effects \/ effects' = <<>>
  PROVE  ByExec
<1>1. (Len(effects) + 1)..Len(effects') = {}
  BY EmptySeq
<1>. QED BY <1>1 DEF ByExec

\* In a transaction the server queues what it is sent.
LEMMA WriteByExec ==
  ASSUME Untorn, pc = "write", UNCHANGED <<table, redir, mode, fold, op>>, torn' = {},
         NEW k \in 1..3, NEW n \in Nodes, NEW refuse \in BOOLEAN, WriteTo(n, k, refuse)
  PROVE  ByExec
<1> DEFINE c == op.cmd
<1> SUFFICES ASSUME mode = "MULTI" PROVE ByExec
  BY DEF ByExec
<1>0. PICK l \in LinkType : Written(n, l, refuse)
  BY WriteFacts
<1> DEFINE E == Effects(n, l, c, refuse)  kind == KindOf(n, l, c, refuse)
<1>1. /\ ClusterTypes /\ c \in Command /\ effects \in Seq(Effect) /\ Aimed /\ NodeFits(n) /\ LinkTypes
  BY UntornTypes DEF Untorn, WatchInv, SafeInv, Agree
<1>2. /\ E \in Seq(Effect) /\ effects' = effects \o E
      /\ n = cmdSock /\ missed = {} /\ Live(n).open /\ SameWatch(Live(n), l)
      /\ op.m = "exec" <=> c.name = "EXEC"
  BY <1>0 DEF Written
<1>3. op.m # "exec" => l.tx # "none"
  <2> SUFFICES ASSUME op.m # "exec" PROVE l.tx # "none"
    OBVIOUS
  <2>1. InCommand /\ ~Reading(n) /\ ~InExec /\ ~Left(n) /\ pc = "write"
    BY <1>2 DEF InCommand, InExec, OnTheWay, Reading, Left
  <2>2. link[n].multi = TRUE /\ Sound(link[n]) /\ Fits(n)
    <3>1. link[n].multi = TRUE /\ Fits(n)
      BY <1>1, <1>2, <2>1 DEF Aimed, NodeFits
    <3>. QED BY <3>1 DEF Fits, Quiet
  <2>3. Live(n) = link[n] /\ Live(n).eof = FALSE
    BY <1>1, <1>2, <2>2, LiveSays
  <2>4. link[n].tx # "none"
    BY <2>2, <2>3 DEF Fits, Quiet
  <2>. QED BY <1>2, <2>3, <2>4 DEF SameWatch
<1> HIDE DEF c
<1>4. E = <<>> \/ RunsItself(l, c, kind, E) \/ RunsAll(l, c, E)
  BY <1>1, EffectsAre
<1>5. \A i \in 1..Len(E) : E[i].by = "EXEC"
  <2>1. CASE E = <<>>
    BY <2>1, NoneYet
  <2>2. CASE RunsItself(l, c, kind, E)
    BY <1>2, <1>3, <2>2 DEF RunsItself
  <2>3. CASE RunsAll(l, c, E)
    BY <2>3 DEF RunsAll
  <2>. QED BY <1>4, <2>1, <2>2, <2>3
<1> HIDE DEF E
<1>6. \A i \in (Len(effects) + 1)..Len(effects') : i - Len(effects) \in 1..Len(E) /\ effects'[i] = E[i - Len(effects)]
  BY <1>1, <1>2, Appended
<1>. QED BY <1>5, <1>6 DEF ByExec

\* Only a write adds to what has taken effect.
LEMMA OtherSteps ==
  ASSUME [Next]_vars, ~Write
  PROVE  effects' = effects \/ effects' = <<>>
<1>1. CASE Continue
  BY <1>1 DEF Continue, SendMulti, SendAsking, Read, ExecNode, ReadExec, ExecSent, CollectReply, Collected,
         DiscardNode, Discarded, UnwatchNode, Unwatched, history
<1>2. CASE Begin
  BY <1>2 DEF Begin, CallCommand, CallRead, CallDirected, CallWatch, Send, CallMulti, CallExec, CallDiscard,
         CallUnwatch, CallClose, CallReconnect, Numbered
<1>3. CASE Environment
  BY <1>3 DEF Environment, KeyWritten, MigrationEnds, SlotMoves, KeyMoves, ServerCloses, NodeDies, history
<1>4. CASE UNCHANGED vars
  BY <1>4 DEF vars, history
<1>. QED BY <1>1, <1>2, <1>3, <1>4 DEF Next

LEMMA StepsByExec ==
  ASSUME RunInv, [Next]_vars
  PROVE  ByExec
<1> SUFFICES ASSUME torn' = {} PROVE ByExec
  BY DEF ByExec
<1>0. Untorn /\ effects \in Seq(Effect)
  BY TearsStay DEF RunInv, WatchInv, Untorn
<1>1. CASE Write
  <2>1. CASE NobodyToWriteTo \/ \E k \in 1..3, n \in Nodes : Miss(n, k)
    BY <1>0, <2>1, NothingAsked DEF NobodyToWriteTo, Miss
  <2>2. CASE ~(NobodyToWriteTo \/ \E k \in 1..3, n \in Nodes : Miss(n, k))
    <3>1. pc = "write" /\ UNCHANGED <<table, redir, mode, fold, op>>
      BY <1>1 DEF Write
    <3>. QED BY <1>0, <1>1, <2>2, <3>1, WriteByExec DEF Write
  <2>. QED BY <2>1, <2>2
<1>2. CASE ~Write
  BY <1>0, <1>2, NothingAsked, OtherSteps
<1>. QED BY <1>1, <1>2

\* Everything that runs has been asked for, once: as long as none of Tears has happened, no command
\* takes effect twice, however often the loop of cluster_send_command sends it again after a
\* redirection or a lost connection; and once multi() has been called a command takes effect by the
\* EXEC of the node that queued it or not at all (cluster_send_multi before the first command for a
\* node, and cluster_sock_write, which may take it to a replica or to another node: "fellBack").
THEOREM RunsOnceAsAsked == Spec => RunsAsAsked
<1>1. Init => RunInv
  BY StartsRun
<1>2. RunInv /\ [Next]_vars => RunInv'
  BY RunInductive
<1>3. RunInv /\ RunInv' /\ [Next]_vars =>
        [/\ AtMostOnce'
         /\ mode = "MULTI" /\ torn' = {} =>
              \A i \in (Len(effects) + 1)..Len(effects') : effects'[i].by = "EXEC"]_vars
  <2>1. RunInv => AtMostOnce
    BY OnceFollows
  <2>2. RunInv' => AtMostOnce'
    BY <2>1, PTL
  <2>. QED BY <2>2, StepsByExec DEF ByExec
<1>. QED BY <1>1, <1>2, <1>3, PTL DEF Spec, RunsAsAsked
=============================================================================
