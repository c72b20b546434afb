-------------------------- MODULE RedisArrayProofs --------------------------
(***************************************************************************)
(* Four theorems about arrays, for every configuration, every number of    *)
(* processes and every interleaving of their calls, moves, lost            *)
(* connections and full servers: no connection stays in MULTI, the types,  *)
(* that a migration loses track of no key, and that a read returns what    *)
(* its key was.  RedisArrayShowProofs has the fifth.                       *)
(*                                                                         *)
(* The first one follows the connection, not the data.  A connection       *)
(* enters MULTI in two places only, RedisArray::multi() and                *)
(* ra_index_multi() of ra_move_key(), and what the servers store never     *)
(* decides whether it leaves it: so nothing is assumed of the keys, the    *)
(* indexes or the values, and OpenAsMeant says for every connection in     *)
(* MULTI which of the two it is.                                           *)
(*                                                                         *)
(* The others need the data.  CallInv: the types, what the call under way  *)
(* knows at each step, and what its connections may have queued.  MoveInv: *)
(* what each server holds of keys that live elsewhere is in its index, and *)
(* a _rehash() under way still comes to every key there is to move.        *)
(* ReadInv: what a read has taken so far is among the values its keys have *)
(* had since it began.                                                     *)
(***************************************************************************)
EXTENDS RedisArray, NaturalsInduction, FiniteSetTheorems, SequenceTheorems, TLAPS

\* The records have their fields; nothing is said of the data in them.
IsFrame(f) ==
  f = [nodes |-> f.nodes, keys |-> f.keys, key |-> f.key, from |-> f.from, to |-> f.to,
       ttl |-> f.ttl, item |-> f.item, success |-> f.success]

\* The steps, the hosts of transactions and the locals.
CallShape ==
  /\ pc \in [Clients -> Steps]
  /\ multi \in [Clients -> ToSet(Hosts) \cup {None}]
  /\ frame = [c \in Clients |-> frame[c]]
  /\ \A c \in Clients : IsFrame(frame[c])

\* A table of functions, and such a table with one entry replaced.
IsTable(D, S, g)      == g = [d \in D |-> [x \in S |-> g[d][x]]]
Replaced(g, d, x, a)  == [g EXCEPT ![d][x] = a]

\* Each process has a connection to each host.
ConnShape ==
  /\ IsTable(Clients, Connections, conn)
  /\ \A c \in Clients, cn \in Connections :
       /\ conn[c][cn] = [tx |-> conn[c][cn].tx, queue |-> conn[c][cn].queue]
       /\ conn[c][cn].tx \in BOOLEAN

Shape == CallShape /\ ConnShape

\* A connection in MULTI is that of the application's transaction or the target of a move.
OpenAsMeant ==
  torn \cap {"leftOpen", "multiTwice"} = {} =>
    \A c \in Clients, cn \in Connections :
      conn[c][cn].tx => \/ cn = Ring(multi[c])
                        \/ pc[c] \in MidMove /\ cn = frame[c].to

OpenInv == Shape /\ OpenAsMeant

-----------------------------------------------------------------------------
(* The requests. *)

\* The rings do not share connections, and no host is None.
LEMMA RingsApart ==
  /\ None \notin ToSet(Hosts)
  /\ Ring(None) \notin Connections
  /\ \A g, h : Ring(g) = Ring(h) => g = h
<1>1. None \notin ToSet(Hosts)
  BY NoneAssumption
<1>2. \A g, h : Ring(g) = Ring(h) => g = h
  BY DEF Ring
<1>3. \A h : Ring(None) # Prev(h)
  BY DEF Ring, Prev
<1>. QED BY <1>1, <1>2, <1>3 DEF Connections

\* What each step sends, MULTI, EXEC or DISCARD or neither, and where the last three go.
LEMMA Requests ==
  ASSUME NEW c
  PROVE  /\ pc[c] \in {"multi", "moveMulti"} => How(c) = "MULTI"
         /\ pc[c] \in {"exec", "delKey", "moveExec"} => How(c) = "block"
         /\ pc[c] = "discard" => How(c) = "DISCARD"
         /\ pc[c] = "write" => How(c) \in {"send", "block"}
         /\ pc[c] \in {"forward", "mget", "read", "readPrev", "list", "type", "fetch", "store"}
              => How(c) = "send"
         /\ pc[c] \in {"forward", "multi", "exec", "discard"} => Request(c)[1] = Ring(multi[c])
         /\ pc[c] \in {"moveMulti", "moveExec"} => Request(c)[1] = frame[c].to
<1>1. CASE pc[c] \in {"multi", "moveMulti", "exec", "delKey", "moveExec", "discard"}
  BY <1>1 DEF How, Request
<1>2. CASE pc[c] \in {"write", "forward", "mget", "read", "readPrev"}
  BY <1>2 DEF How, Request
<1>3. CASE pc[c] \in {"list", "type", "fetch", "store"}
  BY <1>3 DEF How, Request
<1>. QED BY <1>1, <1>2, <1>3

\* One entry of a table of tables changes.
LEMMA OneEntry ==
  ASSUME NEW D, NEW S, NEW g, NEW h, NEW c \in D, NEW r, NEW a,
         IsTable(D, S, g), h = Replaced(g, c, r, a)
  PROVE  /\ IsTable(D, S, h)
         /\ \A d \in D, x \in S : h[d][x] = IF d = c /\ x = r THEN a ELSE g[d][x]
<1>1. \A d \in D : g[d] = [x \in S |-> g[d][x]]
  BY DEF IsTable
<1>2. g = [d \in D |-> g[d]]
  BY DEF IsTable
<1>3. h = [g EXCEPT ![c] = [g[c] EXCEPT ![r] = a]]
  BY DEF Replaced
<1>4. h = [d \in D |-> h[d]] /\ \A d \in D : h[d] = IF d = c THEN [g[c] EXCEPT ![r] = a] ELSE g[d]
  BY <1>2, <1>3
<1>5. ASSUME NEW d \in D
      PROVE  /\ h[d] = [x \in S |-> h[d][x]]
             /\ \A x \in S : h[d][x] = IF d = c /\ x = r THEN a ELSE g[d][x]
  <2>1. CASE d = c
    <3>1. h[d] = [g[c] EXCEPT ![r] = a] /\ g[c] = [x \in S |-> g[c][x]]
      BY <1>1, <1>4, <2>1
    <3>. QED BY <2>1, <3>1
  <2>2. CASE d # c
    <3>1. h[d] = g[d]
      BY <1>4, <2>2
    <3>. QED BY <1>1, <2>2, <3>1
  <2>. QED BY <2>1, <2>2
<1>. QED BY <1>4, <1>5 DEF IsTable

\* One connection of one process changes.
LEMMA OneConnection ==
  ASSUME ConnShape, NEW c \in Clients, NEW STATE r, NEW STATE a, conn' = Replaced(conn, c, r, a),
         r \in Connections => a = [tx |-> a.tx, queue |-> a.queue] /\ a.tx \in BOOLEAN
  PROVE  /\ ConnShape'
         /\ \A d \in Clients, cn \in Connections :
              conn'[d][cn] = IF d = c /\ cn = r THEN a ELSE conn[d][cn]
<1>5. /\ IsTable(Clients, Connections, conn')
      /\ \A d \in Clients, cn \in Connections :
           conn'[d][cn] = IF d = c /\ cn = r THEN a ELSE conn[d][cn]
  <2>1. IsTable(Clients, Connections, conn)
    BY DEF ConnShape
  <2>. QED BY <2>1, OneEntry
<1>7. ASSUME NEW d \in Clients, NEW cn \in Connections
      PROVE  /\ conn'[d][cn] = [tx |-> conn'[d][cn].tx, queue |-> conn'[d][cn].queue]
             /\ conn'[d][cn].tx \in BOOLEAN
  <2>1. CASE d = c /\ cn = r
    <3>1. conn'[d][cn] = a
      BY <1>5, <2>1
    <3>. QED BY <2>1, <3>1
  <2>2. CASE ~(d = c /\ cn = r)
    <3>1. conn'[d][cn] = conn[d][cn]
      BY <1>5, <2>2
    <3>. QED BY <3>1 DEF ConnShape
  <2>. QED BY <2>1, <2>2
<1>8. ConnShape'
  BY <1>5, <1>7 DEF ConnShape
<1>. QED BY <1>5, <1>8

\* A request changes its own connection: MULTI opens it, EXEC and DISCARD close it.
LEMMA Asking ==
  ASSUME Shape, NEW c \in Clients, Ask(c), How(c) \in {"MULTI", "block", "DISCARD", "send"}
  PROVE  /\ ConnShape'
         /\ \A d \in Clients, cn \in Connections :
              d # c \/ cn # Request(c)[1] => conn'[d][cn] = conn[d][cn]
         /\ Request(c)[1] \in Connections =>
              conn'[c][Request(c)[1]].tx =
                IF How(c) = "MULTI" THEN TRUE
                ELSE IF How(c) = "send" THEN conn[c][Request(c)[1]].tx ELSE FALSE
<1> DEFINE r == Request(c)[1]
<1>1. conn' = Replaced(conn, c, r, Answered(c))
  BY DEF Ask, Replaced
<1>2. ASSUME r \in Connections
      PROVE  /\ Answered(c) = [tx |-> Answered(c).tx, queue |-> Answered(c).queue]
             /\ Answered(c).tx \in BOOLEAN
             /\ Answered(c).tx = IF How(c) = "MULTI" THEN TRUE
                                 ELSE IF How(c) = "send" THEN conn[c][r].tx ELSE FALSE
  <2> DEFINE old == conn[c][r]  tx == conn[c][r].tx  queue == conn[c][r].queue
  <2>1. old = [tx |-> tx, queue |-> queue] /\ tx \in BOOLEAN /\ Of(c) = old
    BY <1>2 DEF Shape, ConnShape, Of
  <2>2. CASE How(c) = "MULTI"
    <3>1. Answered(c) = [old EXCEPT !.tx = TRUE]
      BY <2>1, <2>2 DEF Answered
    <3> DEFINE open == TRUE
    <3>2. Answered(c) = [tx |-> TRUE, queue |-> queue]
      <4>1. Answered(c) = [old EXCEPT !.tx = open]
        BY <3>1
      <4> HIDE DEF tx, queue, old, open
      <4>2. Answered(c) = [tx |-> open, queue |-> queue]
        BY <2>1, <4>1
      <4>. QED BY <4>2 DEF open
    <3>. QED BY <2>2, <3>2
  <2>3. CASE How(c) \in {"block", "DISCARD"}
    BY <2>3 DEF Answered, Atomic
  <2>4. CASE How(c) = "send"
    <3>1. Answered(c) = IF tx THEN [old EXCEPT !.queue = @ \o Asked(c)] ELSE old
      BY <2>1, <2>4 DEF Answered
    <3> HIDE DEF tx, queue, old
    <3> DEFINE after == queue \o Asked(c)
    <3>2. Answered(c) = [tx |-> tx, queue |-> IF tx THEN after ELSE queue]
      <4>1. Answered(c) = IF tx THEN [old EXCEPT !.queue = after] ELSE old
        BY <2>1, <3>1
      <4> HIDE DEF after
      <4>. QED BY <2>1, <4>1
    <3>3. Answered(c).tx = tx
      BY <3>2
    <3>. QED BY <2>1, <2>4, <3>2, <3>3 DEF tx
  <2>. QED BY <2>2, <2>3, <2>4
<1> HIDE DEF r
<1>3. /\ ConnShape'
      /\ \A d \in Clients, cn \in Connections :
           conn'[d][cn] = IF d = c /\ cn = r THEN Answered(c) ELSE conn[d][cn]
  <2> DEFINE a == Answered(c)
  <2>1. r \in Connections => a = [tx |-> a.tx, queue |-> a.queue] /\ a.tx \in BOOLEAN
    BY <1>2
  <2>2. ConnShape
    BY DEF Shape
  <2> HIDE DEF a
  <2>3. conn' = Replaced(conn, c, r, a)
    BY <1>1 DEF a
  <2>. QED BY <2>1, <2>2, <2>3, OneConnection DEF a
<1>. QED BY <1>2, <1>3 DEF r

-----------------------------------------------------------------------------
(* The steps.  A step of one call touches its own connections only, so it is enough to look at *)
(* those it leaves in MULTI.                                                                 *)

\* A field of the locals is assigned; to is changed by its own assignment only.
LEMMA Assigned ==
  ASSUME NEW f, IsFrame(f), NEW x
  PROVE  /\ IsFrame([f EXCEPT !.nodes = x]) /\ [f EXCEPT !.nodes = x].to = f.to
         /\ IsFrame([f EXCEPT !.keys = x]) /\ [f EXCEPT !.keys = x].to = f.to
         /\ IsFrame([f EXCEPT !.key = x]) /\ [f EXCEPT !.key = x].to = f.to
         /\ IsFrame([f EXCEPT !.from = x]) /\ [f EXCEPT !.from = x].to = f.to
         /\ IsFrame([f EXCEPT !.to = x]) /\ [f EXCEPT !.to = x].to = x
         /\ IsFrame([f EXCEPT !.ttl = x]) /\ [f EXCEPT !.ttl = x].to = f.to
         /\ IsFrame([f EXCEPT !.item = x]) /\ [f EXCEPT !.item = x].to = f.to
         /\ IsFrame([f EXCEPT !.success = x]) /\ [f EXCEPT !.success = x].to = f.to
<1>1. IsFrame([f EXCEPT !.nodes = x]) /\ [f EXCEPT !.nodes = x].to = f.to
  BY DEF IsFrame
<1>2. IsFrame([f EXCEPT !.keys = x]) /\ [f EXCEPT !.keys = x].to = f.to
  BY DEF IsFrame
<1>3. IsFrame([f EXCEPT !.key = x]) /\ [f EXCEPT !.key = x].to = f.to
  BY DEF IsFrame
<1>4. IsFrame([f EXCEPT !.from = x]) /\ [f EXCEPT !.from = x].to = f.to
  BY DEF IsFrame
<1>5. IsFrame([f EXCEPT !.to = x]) /\ [f EXCEPT !.to = x].to = x
  BY DEF IsFrame
<1>6. IsFrame([f EXCEPT !.ttl = x]) /\ [f EXCEPT !.ttl = x].to = f.to
  BY DEF IsFrame
<1>7. IsFrame([f EXCEPT !.item = x]) /\ [f EXCEPT !.item = x].to = f.to
  BY DEF IsFrame
<1>8. IsFrame([f EXCEPT !.success = x]) /\ [f EXCEPT !.success = x].to = f.to
  BY DEF IsFrame
<1>. QED BY <1>1, <1>2, <1>3, <1>4, <1>5, <1>6, <1>7, <1>8

\* The locals the steps make have their fields.
LEMMA Frames ==
  /\ IsFrame(NoFrame)
  /\ \A f, k, from, to : IsFrame(f) => IsFrame(Moving(f, k, from, to)) /\ Moving(f, k, from, to).to = to
  /\ \A f, x, y : IsFrame(f) => IsFrame([f EXCEPT !.ttl = x, !.item = y])
  /\ \A f, x, y : IsFrame(f) => /\ IsFrame([f EXCEPT !.item = x, !.success = y])
                               /\ [f EXCEPT !.item = x, !.success = y].to = f.to
<1>1. IsFrame(NoFrame)
  BY DEF IsFrame, NoFrame
<1>2. ASSUME NEW f, NEW k, NEW from, NEW to, IsFrame(f)
      PROVE  IsFrame(Moving(f, k, from, to)) /\ Moving(f, k, from, to).to = to
  <2> DEFINE f1 == [f EXCEPT !.key = k]
             f2 == [f1 EXCEPT !.from = from]
             f3 == [f2 EXCEPT !.to = to]
             f4 == [f3 EXCEPT !.ttl = -1]
             f5 == [f4 EXCEPT !.item = Nil]
             f6 == [f5 EXCEPT !.success = FALSE]
  <2>1. IsFrame(f1)
    BY <1>2, Assigned
  <2> HIDE DEF f1
  <2>2. IsFrame(f2)
    BY <2>1, Assigned
  <2> HIDE DEF f2
  <2>3. IsFrame(f3) /\ f3.to = to
    BY <2>2, Assigned
  <2> HIDE DEF f3
  <2>4. IsFrame(f4) /\ f4.to = to
    BY <2>3, Assigned
  <2> HIDE DEF f4
  <2>5. IsFrame(f5) /\ f5.to = to
    BY <2>4, Assigned
  <2> HIDE DEF f5
  <2>6. IsFrame(f6) /\ f6.to = to
    BY <2>5, Assigned
  <2>7. Moving(f, k, from, to) = f6
    BY DEF Moving, f1, f2, f3, f4, f5
  <2> HIDE DEF f6
  <2>. QED BY <2>6, <2>7
<1>3. ASSUME NEW f, NEW x, NEW y, IsFrame(f) PROVE IsFrame([f EXCEPT !.ttl = x, !.item = y])
  <2> DEFINE g == [f EXCEPT !.ttl = x]
  <2>1. IsFrame(g)
    BY <1>3, Assigned
  <2>2. [f EXCEPT !.ttl = x, !.item = y] = [g EXCEPT !.item = y]
    OBVIOUS
  <2> HIDE DEF g
  <2>3. IsFrame([g EXCEPT !.item = y])
    BY <2>1, Assigned
  <2>. QED BY <2>2, <2>3
<1>4. ASSUME NEW f, NEW x, NEW y, IsFrame(f)
      PROVE  /\ IsFrame([f EXCEPT !.item = x, !.success = y])
             /\ [f EXCEPT !.item = x, !.success = y].to = f.to
  <2> DEFINE g == [f EXCEPT !.item = x]
  <2>1. IsFrame(g) /\ g.to = f.to
    BY <1>4, Assigned
  <2>2. [f EXCEPT !.item = x, !.success = y] = [g EXCEPT !.success = y]
    OBVIOUS
  <2> HIDE DEF g
  <2>3. IsFrame([g EXCEPT !.success = y]) /\ [g EXCEPT !.success = y].to = g.to
    BY <2>1, Assigned
  <2>. QED BY <2>1, <2>2, <2>3
<1>. QED BY <1>1, <1>2, <1>3, <1>4

\* The locals with what the move has read.
WithItem(f, x, y) == [f EXCEPT !.item = x, !.success = y]

\* They are a frame, with the same target.
LEMMA FetchedFrame ==
  ASSUME NEW f, IsFrame(f), NEW x, NEW y
  PROVE  IsFrame(WithItem(f, x, y)) /\ WithItem(f, x, y).to = f.to
BY Frames DEF WithItem

\* A step of one process leaves the others as meant.
LEMMA OneMoves ==
  ASSUME OpenInv, NEW c \in Clients, NEW where \in Steps, NEW f, IsFrame(f), Go(c, where, f),
         ConnShape', multi' \in [Clients -> ToSet(Hosts) \cup {None}], torn \subseteq torn',
         \A d \in Clients, cn \in Connections : d # c => conn'[d][cn] = conn[d][cn],
         \A d \in Clients : d # c => multi'[d] = multi[d],
         torn' \cap {"leftOpen", "multiTwice"} = {} =>
           \A cn \in Connections :
             conn'[c][cn].tx => cn = Ring(multi'[c]) \/ (where \in MidMove /\ cn = f.to)
  PROVE  OpenInv'
<1>1. pc' = [pc EXCEPT ![c] = where] /\ frame' = [frame EXCEPT ![c] = f]
  BY DEF Go
<1>2. /\ \A d \in Clients : pc'[d] = IF d = c THEN where ELSE pc[d]
      /\ \A d \in Clients : frame'[d] = IF d = c THEN f ELSE frame[d]
      /\ pc' \in [Clients -> Steps] /\ frame' = [d \in Clients |-> frame'[d]]
  BY <1>1 DEF OpenInv, Shape, CallShape
<1>3. CallShape'
  <2>1. \A d \in Clients : IsFrame(frame'[d])
    BY <1>2 DEF OpenInv, Shape, CallShape
  <2>. QED BY <1>2, <2>1 DEF CallShape
<1>4. OpenAsMeant'
  <2> SUFFICES ASSUME torn' \cap {"leftOpen", "multiTwice"} = {},
                      NEW d \in Clients, NEW cn \in Connections, conn'[d][cn].tx
               PROVE  \/ cn = Ring(multi'[d])
                      \/ pc'[d] \in MidMove /\ cn = frame'[d].to
    BY DEF OpenAsMeant, Ring
  <2>1. CASE d = c
    BY <1>2, <2>1
  <2>2. CASE d # c
    <3>1. torn \cap {"leftOpen", "multiTwice"} = {}
      OBVIOUS
    <3>2. cn = Ring(multi[d]) \/ (pc[d] \in MidMove /\ cn = frame[d].to)
      BY <2>2, <3>1 DEF OpenInv, OpenAsMeant
    <3>. QED BY <1>2, <2>2, <3>2
  <2>. QED BY <2>1, <2>2
<1>. QED BY <1>3, <1>4 DEF OpenInv, Shape

\* A step that sends and receives.
LEMMA Asks ==
  ASSUME OpenInv, NEW c \in Clients, Ask(c), How(c) \in {"MULTI", "block", "DISCARD", "send"},
         NEW where \in Steps, NEW f, IsFrame(f), Go(c, where, f),
         UNCHANGED multi, torn \subseteq torn',
         How(c) = "MULTI" => \/ Request(c)[1] = Ring(multi[c])
                             \/ where \in MidMove /\ Request(c)[1] = f.to,
         pc[c] \in MidMove => \/ where \in MidMove /\ f.to = frame[c].to
                              \/ How(c) = "block" /\ Request(c)[1] = frame[c].to
  PROVE  OpenInv'
<1> DEFINE r == Request(c)[1]
<1>1. Shape
  BY DEF OpenInv
<1>2. /\ ConnShape'
      /\ \A d \in Clients, cn \in Connections :
           d # c \/ cn # r => conn'[d][cn] = conn[d][cn]
      /\ r \in Connections =>
           conn'[c][r].tx = IF How(c) = "MULTI" THEN TRUE
                            ELSE IF How(c) = "send" THEN conn[c][r].tx ELSE FALSE
  BY <1>1, Asking
<1>3. multi' \in [Clients -> ToSet(Hosts) \cup {None}]
  BY <1>1 DEF Shape, CallShape
<1>4. ASSUME torn' \cap {"leftOpen", "multiTwice"} = {}, NEW cn \in Connections, conn'[c][cn].tx
      PROVE  cn = Ring(multi'[c]) \/ (where \in MidMove /\ cn = f.to)
  <2>1. CASE cn = r /\ How(c) = "MULTI"
    BY <2>1
  <2>2. CASE ~(cn = r /\ How(c) = "MULTI")
    <3> HIDE DEF r
    <3>1. conn[c][cn].tx /\ ~(cn = r /\ How(c) = "block")
      BY <1>2, <1>4, <2>2
    <3>2. cn = Ring(multi[c]) \/ (pc[c] \in MidMove /\ cn = frame[c].to)
      BY <1>4, <3>1 DEF OpenInv, OpenAsMeant
    <3>. QED BY <3>1, <3>2 DEF r
  <2>. QED BY <2>1, <2>2
<1>5. \A d \in Clients, cn \in Connections : d # c => conn'[d][cn] = conn[d][cn]
  BY <1>2
<1>6. \A d \in Clients : d # c => multi'[d] = multi[d]
  OBVIOUS
<1> HIDE DEF r
<1>7. torn' \cap {"leftOpen", "multiTwice"} = {} =>
        \A cn \in Connections :
          conn'[c][cn].tx => cn = Ring(multi'[c]) \/ (where \in MidMove /\ cn = f.to)
  BY <1>4
<1>8. ConnShape'
  BY <1>2
<1>. QED BY <1>3, <1>5, <1>6, <1>7, <1>8, OneMoves

\* A step that sends nothing, of a call that does not move a key at that moment.
LEMMA Thinks ==
  ASSUME OpenInv, NEW c \in Clients, pc[c] \notin MidMove, UNCHANGED <<conn, multi>>,
         torn \subseteq torn', NEW where \in Steps, NEW f, IsFrame(f), Go(c, where, f)
  PROVE  OpenInv'
<1>1. ConnShape' /\ multi' \in [Clients -> ToSet(Hosts) \cup {None}]
  <2>1. ConnShape /\ multi \in [Clients -> ToSet(Hosts) \cup {None}]
    BY DEF OpenInv, Shape, CallShape
  <2>. QED BY <2>1 DEF ConnShape
<1>2. ASSUME torn' \cap {"leftOpen", "multiTwice"} = {}, NEW cn \in Connections, conn'[c][cn].tx
      PROVE  cn = Ring(multi'[c]) \/ (where \in MidMove /\ cn = f.to)
  BY <1>2 DEF OpenInv, OpenAsMeant
<1>. QED BY <1>1, <1>2, OneMoves

-----------------------------------------------------------------------------
(* The invariant is inductive. *)

\* At first no connection is in MULTI.
LEMMA StartsClosed == Init => OpenInv
<1> SUFFICES ASSUME Init PROVE OpenInv
  OBVIOUS
<1>1. /\ pc = [c \in Clients |-> "idle"] /\ multi = [c \in Clients |-> None]
      /\ frame = [c \in Clients |-> NoFrame]
      /\ conn = [c \in Clients |-> [cn \in Connections |-> Atomic]]
  BY DEF Init
<1>2. CallShape
  BY <1>1, Frames DEF CallShape, Steps
<1>3. ConnShape
  BY <1>1 DEF ConnShape, IsTable, Atomic
<1>4. OpenAsMeant
  BY <1>1 DEF OpenAsMeant, Atomic
<1>. QED BY <1>2, <1>3, <1>4 DEF OpenInv, Shape

\* Between calls nothing is sent.
LEMMA Idle ==
  ASSUME OpenInv, NEW c \in Clients
  PROVE  /\ IsFrame(frame[c]) /\ multi[c] \in ToSet(Hosts) \cup {None}
         /\ \A h \in ToSet(Hosts) : Ring(h) \in Connections
         /\ Ring(multi[c]) \in Connections <=> multi[c] # None
<1>1. IsFrame(frame[c]) /\ multi[c] \in ToSet(Hosts) \cup {None}
  BY DEF OpenInv, Shape, CallShape
<1>2. \A h \in ToSet(Hosts) : Ring(h) \in Connections
  BY DEF Connections
<1>. QED BY <1>1, <1>2, RingsApart

\* The calls of the application.
LEMMA CallsKeep ==
  ASSUME OpenInv, NEW c \in Clients, CallKeys(c) \/ CallRehash(c) \/ CallMulti(c) \/ CallEnd(c)
  PROVE  OpenInv'
<1>1. CASE CallKeys(c)
  <2>1. pc[c] \notin MidMove /\ torn \subseteq torn'
    BY <1>1 DEF CallKeys, CanCall, MidMove, Tear
  <2>2. UNCHANGED <<conn, multi>>
    BY <1>1 DEF CallKeys, Enter
  <2>3. PICK o \in KeyCalls :
          IF multi[c] # None THEN Go(c, "forward", NoFrame)
          ELSE Go(c, CASE o.m \in Writes -> "write"
                       [] o.m = "mget"   -> "mget"
                       [] OTHER          -> "read",
                  [NoFrame EXCEPT !.nodes = NodesOf(o.keys)])
    BY <1>1 DEF CallKeys
  <2>4. IsFrame(NoFrame) /\ \A x : IsFrame([NoFrame EXCEPT !.nodes = x])
    BY Frames, Assigned
  <2>5. CASE multi[c] # None
    BY <2>1, <2>2, <2>3, <2>4, <2>5, Thinks DEF Steps
  <2>6. CASE multi[c] = None
    <3> DEFINE where == CASE o.m \in Writes -> "write"
                          [] o.m = "mget"   -> "mget"
                          [] OTHER          -> "read"
               f == [NoFrame EXCEPT !.nodes = NodesOf(o.keys)]
    <3>1. where \in Steps /\ IsFrame(f) /\ Go(c, where, f)
      BY <2>3, <2>4, <2>6 DEF Steps
    <3> HIDE DEF where, f
    <3>. QED BY <2>1, <2>2, <3>1, Thinks
  <2>. QED BY <2>5, <2>6
<1>2. CASE CallRehash(c)
  <2>1. pc[c] \notin MidMove /\ torn \subseteq torn'
    BY <1>2 DEF CallRehash, Enter, CanCall, MidMove, Tear
  <2>2. UNCHANGED <<conn, multi>>
    BY <1>2 DEF CallRehash, Enter
  <2>3. \/ Go(c, "return", NoFrame)
        \/ Go(c, "list", [NoFrame EXCEPT !.nodes = PrevHosts])
    BY <1>2 DEF CallRehash
  <2>4. IsFrame(NoFrame) /\ IsFrame([NoFrame EXCEPT !.nodes = PrevHosts])
    BY Frames, Assigned
  <2>. QED BY <2>1, <2>2, <2>3, <2>4, Thinks DEF Steps
<1>3. CASE CallMulti(c)
  <2>1. PICK h \in ToSet(Hosts) :
          /\ pc[c] = "idle" /\ UNCHANGED conn
          /\ multi' = [multi EXCEPT ![c] = h]
          /\ Tear(IF multi[c] \notin {None, h} THEN {"multiTwice"} ELSE {})
          /\ Go(c, "multi", NoFrame)
    BY <1>3 DEF CallMulti, Enter, CanCall
  <2>2. ConnShape' /\ multi' \in [Clients -> ToSet(Hosts) \cup {None}]
    <3>1. ConnShape /\ multi \in [Clients -> ToSet(Hosts) \cup {None}]
      BY DEF OpenInv, Shape, CallShape
    <3>. QED BY <2>1, <3>1 DEF ConnShape
  <2>3. /\ multi'[c] = h /\ \A d \in Clients : d # c => multi'[d] = multi[d]
        /\ torn \subseteq torn'
    BY <2>1 DEF Tear, OpenInv, Shape, CallShape
  <2>4. ASSUME torn' \cap {"leftOpen", "multiTwice"} = {},
               NEW cn \in Connections, conn'[c][cn].tx
        PROVE  cn = Ring(multi'[c])
    <3>1. torn \cap {"leftOpen", "multiTwice"} = {}
      BY <2>3, <2>4
    <3>2. multi[c] \in {None, h}
      BY <2>1, <2>4 DEF Tear
    <3>3. cn = Ring(multi[c])
      BY <2>1, <2>4, <3>1 DEF OpenInv, OpenAsMeant, MidMove
    <3>. QED BY <2>3, <3>2, <3>3, RingsApart
  <2>5. IsFrame(NoFrame) /\ "multi" \in Steps
    BY Frames DEF Steps
  <2>. QED BY <2>1, <2>2, <2>3, <2>4, <2>5, OneMoves
<1>4. CASE CallEnd(c)
  <2>1. pc[c] \notin MidMove /\ torn \subseteq torn'
    BY <1>4 DEF CallEnd, Enter, CanCall, MidMove, Tear
  <2>2. UNCHANGED <<conn, multi>>
    BY <1>4 DEF CallEnd, Enter
  <2>3. \E where \in {"return", "exec", "discard"} : Go(c, where, NoFrame)
    BY <1>4 DEF CallEnd
  <2>4. IsFrame(NoFrame) /\ {"return", "exec", "discard"} \subseteq Steps
    BY Frames DEF Steps
  <2>. QED BY <2>1, <2>2, <2>3, <2>4, Thinks
<1>. QED BY <1>1, <1>2, <1>3, <1>4

\* What goes to the connection of the application's transaction.
LEMMA ForwardKeeps ==
  ASSUME OpenInv, NEW c \in Clients, Forward(c)
  PROVE  OpenInv'
<1> DEFINE r == Request(c)[1]
<1>1. /\ pc[c] \in {"forward", "multi", "exec", "discard"} /\ pc[c] \notin MidMove
      /\ Ask(c) /\ torn \subseteq torn' /\ Go(c, "return", NoFrame)
  BY DEF Forward, Tear, MidMove
<1>2. IsFrame(NoFrame) /\ "return" \in Steps
  BY Frames DEF Steps
<1>3. CASE pc[c] \in {"forward", "multi"}
  <2>1. UNCHANGED multi
    BY <1>3 DEF Forward
  <2>2. How(c) \in {"MULTI", "send"} /\ Request(c)[1] = Ring(multi[c])
    BY <1>3, Requests
  <2>. QED BY <1>1, <1>2, <2>1, <2>2, Asks
<1>4. CASE pc[c] \in {"exec", "discard"}
  <2>1. multi' = [multi EXCEPT ![c] = None]
    BY <1>4 DEF Forward
  <2>2. How(c) \in {"block", "DISCARD"} /\ r = Ring(multi[c])
    BY <1>4, Requests
  <2> HIDE DEF r
  <2>3. /\ ConnShape'
        /\ \A d \in Clients, cn \in Connections :
             d # c \/ cn # r => conn'[d][cn] = conn[d][cn]
        /\ r \in Connections => conn'[c][r].tx = FALSE
    <3>1. Shape /\ How(c) \in {"MULTI", "block", "DISCARD", "send"}
      BY <2>2 DEF OpenInv
    <3>. QED BY <1>1, <2>2, <3>1, Asking DEF r
  <2>4. /\ multi' \in [Clients -> ToSet(Hosts) \cup {None}]
        /\ \A d \in Clients : d # c => multi'[d] = multi[d]
    BY <2>1 DEF OpenInv, Shape, CallShape
  <2>5. ASSUME torn' \cap {"leftOpen", "multiTwice"} = {},
               NEW cn \in Connections, conn'[c][cn].tx
        PROVE  FALSE
    <3>1. torn \cap {"leftOpen", "multiTwice"} = {}
      BY <1>1, <2>5
    <3>2. cn # r /\ conn[c][cn].tx
      BY <2>3, <2>5
    <3>. QED BY <1>1, <2>2, <3>1, <3>2 DEF OpenInv, OpenAsMeant
  <2>6. \A d \in Clients, cn \in Connections : d # c => conn'[d][cn] = conn[d][cn]
    BY <2>3
  <2>. QED BY <1>1, <1>2, <2>3, <2>4, <2>5, <2>6, OneMoves
<1>. QED BY <1>1, <1>3, <1>4

\* Writes and reads, and the loops that look for keys to move.
LEMMA NextNodeGoes ==
  ASSUME OpenInv, NEW c \in Clients, NEW where \in Steps, NextNode(c, where)
  PROVE  \E f : \E w \in Steps : IsFrame(f) /\ Go(c, w, f)
<1>1. IsFrame(NoFrame) /\ "return" \in Steps /\ IsFrame([frame[c] EXCEPT !.nodes = Tail(@)])
  <2>1. IsFrame(frame[c])
    BY Idle
  <2>2. IsFrame([frame[c] EXCEPT !.nodes = Tail(frame[c].nodes)])
    BY <2>1, Assigned
  <2>. QED BY <2>2, Frames DEF Steps
<1>. QED BY <1>1 DEF NextNode

\* Steps of a call that only looks at the servers.
LEMMA LooksKeep ==
  ASSUME OpenInv, NEW c \in Clients,
         Write(c) \/ Read(c) \/ ReadPrev(c) \/ Mget(c) \/ List(c)
  PROVE  OpenInv'
<1>1. /\ Ask(c) /\ torn \subseteq torn' /\ UNCHANGED multi
      /\ pc[c] \in {"write", "mget", "read", "readPrev", "list"} /\ pc[c] \notin MidMove
  <2>1. CASE Write(c)
    BY <2>1 DEF Write, Tear, Quiet, MidMove
  <2>2. CASE Read(c) \/ ReadPrev(c)
    BY <2>2 DEF Read, ReadPrev, Tear, Quiet, MidMove
  <2>3. CASE Mget(c) \/ List(c)
    BY <2>3 DEF Mget, List, Tear, Quiet, MidMove
  <2>. QED BY <2>1, <2>2, <2>3
<1>2. \E f : \E w \in Steps : IsFrame(f) /\ Go(c, w, f)
  <2>1. {"return", "write", "mget", "readPrev", "type", "scan"} \subseteq Steps
        /\ IsFrame(NoFrame) /\ IsFrame(frame[c])
    BY Frames, Idle DEF Steps
  <2>2. CASE Write(c)
    <3>1. Go(c, "return", NoFrame) \/ NextNode(c, "write")
      BY <2>2 DEF Write
    <3>. QED BY <2>1, <3>1, NextNodeGoes
  <2>3. CASE Read(c)
    <3>1. Go(c, "return", NoFrame) \/ Go(c, "readPrev", frame[c])
      BY <2>3 DEF Read
    <3>. QED BY <2>1, <3>1
  <2>4. CASE ReadPrev(c)
    <3>1. \/ Go(c, "return", NoFrame)
          \/ \E k, from, to : Go(c, "type", Moving(frame[c], k, from, to))
      BY <2>4 DEF ReadPrev
    <3>. QED BY <2>1, <3>1, Frames
  <2>5. CASE Mget(c)
    <3>1. Go(c, "return", NoFrame) \/ NextNode(c, "mget")
      BY <2>5 DEF Mget
    <3>. QED BY <2>1, <3>1, NextNodeGoes
  <2>6. CASE List(c)
    <3>1. PICK x : Go(c, "scan", [frame[c] EXCEPT !.keys = x])
      BY <2>6 DEF List
    <3>2. IsFrame([frame[c] EXCEPT !.keys = x])
      BY <2>1, Assigned
    <3>. QED BY <2>1, <3>1, <3>2
  <2>. QED BY <2>2, <2>3, <2>4, <2>5, <2>6
<1>3. PICK f, w : w \in Steps /\ IsFrame(f) /\ Go(c, w, f)
  BY <1>2
<1>4. How(c) \in {"send", "block"}
  BY <1>1, Requests
<1>. QED BY <1>1, <1>3, <1>4, Asks

\* A step of _rehash() that sends nothing.
LEMMA ScanKeeps ==
  ASSUME OpenInv, NEW c \in Clients, Scan(c)
  PROVE  OpenInv'
<1>1. pc[c] \notin MidMove /\ torn \subseteq torn' /\ UNCHANGED <<conn, multi>>
  BY DEF Scan, MidMove, Tear, Quiet
<1>2. IsFrame(frame[c]) /\ {"scan", "type", "list"} \subseteq Steps
  BY Idle DEF Steps
<1>3. \/ \E x : Go(c, "scan", [frame[c] EXCEPT !.keys = x])
      \/ \E k, from, to, x : Go(c, "type", [Moving(frame[c], k, from, to) EXCEPT !.keys = x])
      \/ NextNode(c, "list")
  BY DEF Scan
<1>4. \E f : \E w \in Steps : IsFrame(f) /\ Go(c, w, f)
  <2>1. ASSUME NEW x, Go(c, "scan", [frame[c] EXCEPT !.keys = x])
        PROVE  \E f : \E w \in Steps : IsFrame(f) /\ Go(c, w, f)
    <3>1. IsFrame([frame[c] EXCEPT !.keys = x])
      BY <1>2, Assigned
    <3>. QED BY <1>2, <2>1, <3>1
  <2>2. ASSUME NEW k, NEW from, NEW to, NEW x,
               Go(c, "type", [Moving(frame[c], k, from, to) EXCEPT !.keys = x])
        PROVE  \E f : \E w \in Steps : IsFrame(f) /\ Go(c, w, f)
    <3>1. IsFrame(Moving(frame[c], k, from, to))
      BY <1>2, Frames
    <3>2. IsFrame([Moving(frame[c], k, from, to) EXCEPT !.keys = x])
      BY <3>1, Assigned
    <3>. QED BY <1>2, <2>2, <3>2
  <2>. QED BY <1>2, <1>3, <2>1, <2>2, NextNodeGoes
<1>. QED BY <1>1, <1>4, Thinks

\* The method returns.
LEMMA ReturnKeeps ==
  ASSUME OpenInv, NEW c \in Clients, Return(c)
  PROVE  OpenInv'
<1>1. /\ pc[c] \notin MidMove /\ torn \subseteq torn' /\ UNCHANGED <<conn, multi>>
      /\ Go(c, "idle", NoFrame)
  BY DEF Return, MidMove, Tear
<1>2. IsFrame(NoFrame) /\ "idle" \in Steps
  BY Frames DEF Steps
<1>. QED BY <1>1, <1>2, Thinks

\* ra_move_key: MULTI at the target, and EXEC there at the end of every path but the one of
\* an exception.
LEMMA MoveKeeps ==
  ASSUME OpenInv, NEW c \in Clients, Move(c), ~Throw(c)
  PROVE  OpenInv'
<1> DEFINE fr == frame[c]
<1>1. IsFrame(frame[c])
  BY Idle
<1>2. {"type", "moveMulti", "fetch", "store", "delKey", "moveExec", "scan", "return"} \subseteq Steps
  BY DEF Steps
<1>3. CASE MoveType(c)
  <2>1. /\ pc[c] = "type" /\ Ask(c) /\ torn \subseteq torn' /\ UNCHANGED multi
        /\ \E x, y : Go(c, "moveMulti", [frame[c] EXCEPT !.ttl = x, !.item = y])
    BY <1>3 DEF MoveType, MoveStep, Tear, Quiet
  <2>2. How(c) = "send" /\ pc[c] \notin MidMove
    BY <2>1, Requests DEF MidMove
  <2>3. PICK x, y : Go(c, "moveMulti", [frame[c] EXCEPT !.ttl = x, !.item = y])
    BY <2>1
  <2>4. IsFrame([frame[c] EXCEPT !.ttl = x, !.item = y])
    BY <1>1, Frames
  <2>. QED BY <1>2, <2>1, <2>2, <2>3, <2>4, Asks
<1>4. CASE MoveMulti(c)
  <2>1. /\ pc[c] = "moveMulti" /\ Ask(c) /\ torn \subseteq torn' /\ UNCHANGED multi
        /\ \E w \in {"moveExec", "fetch"} : Go(c, w, [frame[c] EXCEPT !.item = Nil])
    BY <1>4 DEF MoveMulti, MoveStep, Tear, Quiet
  <2>2. How(c) = "MULTI" /\ pc[c] \notin MidMove /\ Request(c)[1] = frame[c].to
    BY <2>1, Requests DEF MidMove
  <2>3. PICK w \in {"moveExec", "fetch"} : Go(c, w, [frame[c] EXCEPT !.item = Nil])
    BY <2>1
  <2>4. /\ IsFrame([frame[c] EXCEPT !.item = Nil]) /\ [frame[c] EXCEPT !.item = Nil].to = frame[c].to
        /\ w \in MidMove /\ w \in Steps
    BY <1>1, <1>2, Assigned DEF MidMove
  <2>. QED BY <2>1, <2>2, <2>3, <2>4, Asks
<1>5. CASE MoveFetch(c)
  <2>1. /\ pc[c] = "fetch" /\ Ask(c) /\ torn \subseteq torn' /\ UNCHANGED multi
        /\ \E x, y : \E w \in {"moveExec", "store"} :
             Go(c, w, [frame[c] EXCEPT !.item = x, !.success = y])
    BY <1>5 DEF MoveFetch, MoveStep, Tear, Quiet
  <2>2. How(c) = "send"
    BY <2>1, Requests
  <2>3. PICK x, y, w :
               w \in {"moveExec", "store"} /\ Go(c, w, [frame[c] EXCEPT !.item = x, !.success = y])
    BY <2>1
  <2> DEFINE g == WithItem(frame[c], x, y)
  <2>5. w \in MidMove /\ w \in Steps /\ Go(c, w, g)
    BY <1>2, <2>3 DEF MidMove, WithItem
  <2>6. IsFrame(g) /\ g.to = frame[c].to
    BY <1>1, FetchedFrame
  <2> HIDE DEF g
  <2>. QED BY <2>1, <2>2, <2>5, <2>6, Asks
<1>6. CASE MoveStore(c) \/ MoveDelete(c)
  <2>1. /\ pc[c] \in {"store", "delKey"} /\ Ask(c) /\ torn \subseteq torn' /\ UNCHANGED multi
        /\ \E w \in {"delKey", "moveExec"} : Go(c, w, frame[c])
    BY <1>6 DEF MoveStore, MoveDelete, MoveStep, Tear, Quiet
  <2>2. How(c) \in {"send", "block"} /\ {"delKey", "moveExec"} \subseteq MidMove
    BY <2>1, Requests DEF MidMove
  <2>. QED BY <1>1, <1>2, <2>1, <2>2, Asks
<1>7. CASE MoveExec(c)
  <2>1. /\ pc[c] = "moveExec" /\ Ask(c) /\ torn \subseteq torn' /\ UNCHANGED multi
        /\ \E w \in {"scan", "return"} : Go(c, w, Moving(frame[c], None, None, None))
    BY <1>7 DEF MoveExec, MoveStep, Tear, Quiet
  <2>2. How(c) = "block" /\ Request(c)[1] = frame[c].to
    BY <2>1, Requests
  <2>3. IsFrame(Moving(frame[c], None, None, None))
    BY <1>1, Frames
  <2>. QED BY <1>2, <2>1, <2>2, <2>3, Asks
<1>. QED BY <1>3, <1>4, <1>5, <1>6, <1>7 DEF Move

\* The method returns with the exception pending: what it leaves open is in torn.
LEMMA ThrowKeeps ==
  ASSUME OpenInv, NEW c \in Clients, Throw(c)
  PROVE  OpenInv'
<1>1. /\ Ask(c) /\ pc[c] = "fetch" /\ "leftOpen" \in torn' /\ torn \subseteq torn'
      /\ UNCHANGED multi /\ Go(c, "idle", NoFrame)
  BY DEF Throw, Tear
<1>2. How(c) = "send"
  BY <1>1, Requests
<1>3. /\ ConnShape'
      /\ \A d \in Clients, cn \in Connections :
           d # c \/ cn # Request(c)[1] => conn'[d][cn] = conn[d][cn]
  <2>1. Shape
    BY DEF OpenInv
  <2>. QED BY <1>1, <1>2, <2>1, Asking
<1>4. \A d \in Clients, cn \in Connections : d # c => conn'[d][cn] = conn[d][cn]
  BY <1>3
<1>5. multi' \in [Clients -> ToSet(Hosts) \cup {None}] /\ \A d \in Clients : multi'[d] = multi[d]
  BY <1>1 DEF OpenInv, Shape, CallShape
<1>6. IsFrame(NoFrame) /\ "idle" \in Steps
  BY Frames DEF Steps
<1>7. torn' \cap {"leftOpen", "multiTwice"} # {}
  BY <1>1
<1>. QED BY <1>1, <1>3, <1>4, <1>5, <1>6, <1>7, OneMoves

\* A connection is lost.
LEMMA LoseKeeps ==
  ASSUME OpenInv, NEW c \in Clients, Lose(c)
  PROVE  OpenInv'
<1> DEFINE r == Request(c)[1]
<1>1. /\ multi' = IF pc[c] \in {"exec", "discard"} THEN [multi EXCEPT ![c] = None] ELSE multi
      /\ conn' = [conn EXCEPT ![c][r] = Atomic]
      /\ Go(c, "idle", NoFrame) /\ torn \subseteq torn'
      /\ (\E cn \in Connections : conn'[c][cn].tx /\ cn # Ring(multi'[c])) => "leftOpen" \in torn'
  BY DEF Lose, Tear
<1> HIDE DEF r
<1>2. /\ ConnShape'
      /\ \A d \in Clients, cn \in Connections : d # c => conn'[d][cn] = conn[d][cn]
  <2>1. conn' = Replaced(conn, c, r, Atomic) /\ ConnShape
    BY <1>1 DEF Replaced, OpenInv, Shape
  <2>2. Atomic = [tx |-> Atomic.tx, queue |-> Atomic.queue] /\ Atomic.tx \in BOOLEAN
    BY DEF Atomic
  <2>. QED BY <2>1, <2>2, OneConnection
<1>3. /\ multi' \in [Clients -> ToSet(Hosts) \cup {None}]
      /\ \A d \in Clients : d # c => multi'[d] = multi[d]
  BY <1>1 DEF OpenInv, Shape, CallShape
<1>4. IsFrame(NoFrame) /\ "idle" \in Steps
  BY Frames DEF Steps
<1>5. ASSUME torn' \cap {"leftOpen", "multiTwice"} = {},
             NEW cn \in Connections, conn'[c][cn].tx
      PROVE  cn = Ring(multi'[c])
  BY <1>1, <1>5
<1>. QED BY <1>1, <1>2, <1>3, <1>4, <1>5, OneMoves

\* Every step keeps the connections in MULTI as meant.
LEMMA OpenInductive ==
  ASSUME OpenInv, [Next]_vars
  PROVE  OpenInv'
<1>1. ASSUME NEW c \in Clients, Step(c) PROVE OpenInv'
  <2>1. CASE Forward(c)
    BY <2>1, ForwardKeeps
  <2>2. CASE Write(c) \/ Read(c) \/ ReadPrev(c) \/ Mget(c) \/ List(c)
    BY <2>2, LooksKeep
  <2>3. CASE Scan(c)
    BY <2>3, ScanKeeps
  <2>4. CASE Move(c)
    BY <2>4, MoveKeeps, ThrowKeeps
  <2>5. CASE Return(c)
    BY <2>5, ReturnKeeps
  <2>. QED BY <1>1, <2>1, <2>2, <2>3, <2>4, <2>5 DEF Step
<1>2. ASSUME NEW h \in Servers, Fill(h) PROVE OpenInv'
  BY <1>2 DEF Fill, OpenInv, Shape, CallShape, ConnShape, OpenAsMeant
<1>3. ASSUME UNCHANGED vars PROVE OpenInv'
  BY <1>3 DEF vars, OpenInv, Shape, CallShape, ConnShape, OpenAsMeant
<1>. QED BY <1>1, <1>2, <1>3, CallsKeep, LoseKeeps DEF Next

-----------------------------------------------------------------------------
\* Between calls only the connection of the application's own transaction is in MULTI: every
\* path through ra_move_key() sends EXEC to the target it sent MULTI to, whatever it found at
\* the source, and every path through exec() and discard() forgets the host it was meant for.
THEOREM ClosesWhatItOpens == Spec => []NothingLeftOpen
<1>1. Init => OpenInv
  BY StartsClosed
<1>2. OpenInv /\ [Next]_vars => OpenInv'
  BY OpenInductive
<1>3. OpenInv => NothingLeftOpen
  BY DEF OpenInv, OpenAsMeant, NothingLeftOpen, MidMove
<1>. QED BY <1>1, <1>2, <1>3, PTL DEF Spec

-----------------------------------------------------------------------------
(* Recursion over a sequence. *)

\* Induction, over a set of numbers.
LEMMA Climb ==
  ASSUME NEW P, 0 \in P, \A n \in Nat : n \in P => n + 1 \in P
  PROVE  Nat \subseteq P
<1> DEFINE Bad == Nat \ P
<1> SUFFICES ASSUME Bad # {} PROVE FALSE
  OBVIOUS
<1>1. PICK n \in Bad : \A k \in Bad : ~(k < n)
  <2>1. PICK n \in Bad : \A k \in Bad : <<k, n>> \notin OpToRel(<, Nat)
    <3>1. Bad \subseteq Nat
      OBVIOUS
    <3> HIDE DEF Bad
    <3>. QED BY <3>1, NatLessThanWellFounded, WFMin
  <2>2. \A k \in Nat : k < n => <<k, n>> \in OpToRel(<, Nat)
    BY DEF OpToRel
  <2>. QED BY <2>1, <2>2
<1>2. n # 0 /\ n - 1 \in Nat /\ n - 1 \notin Bad
  BY <1>1
<1>. QED BY <1>1, <1>2

\* m[i] is what the steps make of the first i elements of s.
Iterates(m, S, base, g, s, n) ==
  /\ m \in [0..n -> S] /\ m[0] = base
  /\ \A i \in 1..n : m[i] = g[<<m[i - 1], s[i]>>]

\* A recursive definition over the positions of a sequence exists.
LEMMA IterationExists ==
  ASSUME NEW S, NEW E, NEW base \in S, NEW g \in [S \X E -> S], NEW s \in Seq(E)
  PROVE  \E m : Iterates(m, S, base, g, s, Len(s))
<1> DEFINE P == {n \in Nat : n <= Len(s) => \E m : Iterates(m, S, base, g, s, n)}
<1>1. 0 \in P
  <2>1. Iterates([i \in 0..0 |-> base], S, base, g, s, 0)
    BY DEF Iterates
  <2>. QED BY <2>1
<1>2. ASSUME NEW n \in Nat, n \in P PROVE n + 1 \in P
  <2>1. CASE n + 1 <= Len(s)
    <3>1. PICK m : Iterates(m, S, base, g, s, n)
      BY <1>2, <2>1
    <3> DEFINE e == [i \in 0..n + 1 |-> IF i = n + 1 THEN g[<<m[n], s[i]>>] ELSE m[i]]
    <3>2. s[n + 1] \in E /\ m[n] \in S /\ m \in [0..n -> S]
      BY <2>1, <3>1 DEF Iterates
    <3>3. g[<<m[n], s[n + 1]>>] \in S
      BY <3>2
    <3>4. e \in [0..n + 1 -> S] /\ e[0] = base
      BY <3>1, <3>2, <3>3 DEF Iterates
    <3>5. ASSUME NEW i \in 1..n + 1 PROVE e[i] = g[<<e[i - 1], s[i]>>]
      <4>1. CASE i = n + 1
        <5>1. e[i - 1] = m[n] /\ e[i] = g[<<m[n], s[i]>>]
          BY <4>1
        <5>. QED BY <5>1
      <4>2. CASE i # n + 1
        <5>1. i \in 1..n /\ e[i] = m[i] /\ e[i - 1] = m[i - 1]
          BY <4>2
        <5>. QED BY <3>1, <5>1 DEF Iterates
      <4>. QED BY <4>1, <4>2
    <3>6. Iterates(e, S, base, g, s, n + 1)
      BY <3>4, <3>5 DEF Iterates
    <3>. QED BY <2>1, <3>6
  <2>2. CASE ~(n + 1 <= Len(s))
    BY <2>2
  <2>. QED BY <2>1, <2>2
<1> HIDE DEF P
<1>3. Nat \subseteq P
  BY <1>1, <1>2, Climb
<1>. QED BY <1>3 DEF P

Follows(d, m, base, g, s, n) ==
  d[0] = base /\ \A i \in 1..n : d[i - 1] = m[i - 1] => d[i] = g[<<d[i - 1], s[i]>>]

\* A function with the same recursion is the same function.
LEMMA IterationIsUnique ==
  ASSUME NEW S, NEW base, NEW g, NEW s, NEW n \in Nat, NEW m, NEW d,
         Iterates(m, S, base, g, s, n), Follows(d, m, base, g, s, n)
  PROVE  d[n] = m[n]
<1> DEFINE P == {k \in Nat : k <= n => d[k] = m[k]}
<1>1. 0 \in P
  BY DEF Iterates, Follows
<1>2. ASSUME NEW k \in Nat, k \in P PROVE k + 1 \in P
  <2>1. CASE k + 1 <= n
    <3>1. k + 1 \in 1..n /\ (k + 1) - 1 = k /\ d[k] = m[k]
      BY <1>2, <2>1
    <3>2. m[k + 1] = g[<<m[k], s[k + 1]>>] /\ d[k + 1] = g[<<d[k], s[k + 1]>>]
      BY <3>1 DEF Iterates, Follows
    <3>. QED BY <3>1, <3>2
  <2>2. CASE ~(k + 1 <= n)
    BY <2>2
  <2>. QED BY <2>1, <2>2
<1> HIDE DEF P
<1>3. Nat \subseteq P
  BY <1>1, <1>2, Climb
<1>. QED BY <1>3 DEF P

-----------------------------------------------------------------------------
(* What Only takes from a sequence. *)

\* m[i] is what is taken of the first i elements.
Taken(m, s, S, T, n) ==
  /\ m \in [0..n -> Seq(S)] /\ m[0] = <<>>
  /\ \A i \in 1..n : m[i] = IF s[i] \in T THEN Append(m[i - 1], s[i]) ELSE m[i - 1]

\* Only() takes the elements one by one.
LEMMA OnlyTakes ==
  ASSUME NEW S, NEW T, NEW s \in Seq(S)
  PROVE  \E m : Taken(m, s, S, T, Len(s)) /\ Only(s, T) = m[Len(s)]
<1> DEFINE g == [p \in Seq(S) \X S |-> IF p[2] \in T THEN Append(p[1], p[2]) ELSE p[1]]
<1>1. g \in [Seq(S) \X S -> Seq(S)] /\ <<>> \in Seq(S) /\ Len(s) \in Nat
  OBVIOUS
<1>2. PICK m : Iterates(m, Seq(S), <<>>, g, s, Len(s))
  <2> HIDE DEF g
  <2>. QED BY <1>1, IterationExists
<1>3. \A i \in 1..Len(s) : m[i - 1] \in Seq(S) /\ s[i] \in S
  BY <1>1, <1>2 DEF Iterates
<1>4. Taken(m, s, S, T, Len(s))
  <2>1. ASSUME NEW i \in 1..Len(s)
        PROVE  m[i] = IF s[i] \in T THEN Append(m[i - 1], s[i]) ELSE m[i - 1]
    <3>1. m[i] = g[<<m[i - 1], s[i]>>] /\ <<m[i - 1], s[i]>> \in Seq(S) \X S
      BY <1>2, <1>3 DEF Iterates
    <3>. QED BY <3>1
  <2>. QED BY <1>2, <2>1 DEF Taken, Iterates
<1> DEFINE Def(f) == [i \in 0..Len(s) |->
                        IF i = 0 THEN <<>>
                        ELSE IF s[i] \in T THEN Append(f[i - 1], s[i]) ELSE f[i - 1]]
           d == CHOOSE f : f = Def(f)
<1>5. m = Def(m)
  <2>1. m \in [0..Len(s) -> Seq(S)]
    BY <1>4 DEF Taken
  <2>2. ASSUME NEW i \in 0..Len(s) PROVE m[i] = Def(m)[i]
    <3>1. CASE i = 0
      BY <1>4, <3>1 DEF Taken
    <3>2. CASE i # 0
      <4>1. i \in 1..Len(s)
        BY <1>1, <3>2
      <4>2. m[i] = IF s[i] \in T THEN Append(m[i - 1], s[i]) ELSE m[i - 1]
        BY <1>4, <4>1 DEF Taken
      <4>. QED BY <3>2, <4>2
    <3>. QED BY <3>1, <3>2
  <2>. QED BY <2>1, <2>2
<1>6. d = Def(d)
  BY <1>5
<1>7. Only(s, T) = d[Len(s)]
  BY DEF Only
<1>8. d[0] = <<>> /\ \A i \in 1..Len(s) :
        d[i] = IF s[i] \in T THEN Append(d[i - 1], s[i]) ELSE d[i - 1]
  <2> HIDE DEF d
  <2>1. d[0] = <<>>
    <3>1. 0 \in 0..Len(s)
      BY <1>1
    <3>. QED BY <1>6, <3>1, Zenon
  <2>2. ASSUME NEW i \in 1..Len(s)
        PROVE  d[i] = IF s[i] \in T THEN Append(d[i - 1], s[i]) ELSE d[i - 1]
    <3>1. i \in 0..Len(s) /\ i # 0
      BY <1>1
    <3>. QED BY <1>6, <3>1, Zenon
  <2>. QED BY <2>1, <2>2
<1> HIDE DEF d, Def
<1>9. \A i \in 1..Len(s) : d[i - 1] = m[i - 1] => d[i] = g[<<d[i - 1], s[i]>>]
  <2> SUFFICES ASSUME NEW i \in 1..Len(s), d[i - 1] = m[i - 1] PROVE d[i] = g[<<d[i - 1], s[i]>>]
    OBVIOUS
  <2>1. <<d[i - 1], s[i]>> \in Seq(S) \X S
    BY <1>3
  <2>. QED BY <1>8, <2>1
<1> HIDE DEF g
<1>10. d[Len(s)] = m[Len(s)]
  <2> DEFINE n == Len(s)  Q == Seq(S)  none == <<>>
  <2>1. n \in Nat /\ Iterates(m, Q, none, g, s, n) /\ d[0] = none
    BY <1>1, <1>2, <1>8
  <2>2. Follows(d, m, none, g, s, n)
    BY <1>8, <1>9 DEF Follows
  <2> HIDE DEF n, Q, none
  <2>3. d[n] = m[n]
    BY <2>1, <2>2, IterationIsUnique
  <2>. QED BY <2>3 DEF n
<1>. QED BY <1>4, <1>7, <1>10

\* How many of the first i elements are taken.
Among(s, T, i) == Cardinality({j \in 1..i : s[j] \in T})

\* How many of the first elements are in a set.
LEMMA AmongSteps ==
  ASSUME NEW s, NEW T, NEW n \in Nat
  PROVE  /\ Among(s, T, 0) = 0 /\ Among(s, T, n) \in Nat
         /\ Among(s, T, n + 1) = IF s[n + 1] \in T THEN Among(s, T, n) + 1 ELSE Among(s, T, n)
<1> DEFINE A == {j \in 1..n : s[j] \in T}
<1>1. IsFiniteSet(A) /\ Cardinality(A) \in Nat
  <2>1. IsFiniteSet(1..n)
    BY FS_Interval
  <2>2. IsFiniteSet(A)
    BY <2>1, FS_Subset
  <2>. QED BY <2>2, FS_CardinalityType
<1>2. Among(s, T, 0) = 0
  <2>1. {j \in 1..0 : s[j] \in T} = {}
    OBVIOUS
  <2>. QED BY <2>1, FS_EmptySet DEF Among
<1>3. n + 1 \notin A
  OBVIOUS
<1>4. CASE s[n + 1] \in T
  <2>1. {j \in 1..n + 1 : s[j] \in T} = A \cup {n + 1}
    BY <1>4
  <2>2. Cardinality(A \cup {n + 1}) = Cardinality(A) + 1
    <3> HIDE DEF A
    <3>. QED BY <1>1, <1>3, FS_AddElement
  <2>. QED BY <1>1, <1>2, <1>4, <2>1, <2>2 DEF Among
<1>5. CASE s[n + 1] \notin T
  <2>1. {j \in 1..n + 1 : s[j] \in T} = A
    BY <1>5
  <2>. QED BY <1>1, <1>2, <1>5, <2>1 DEF Among
<1>. QED BY <1>4, <1>5

\* Where the elements go and where they come from.
Placing(r, s, S, T, n) ==
  /\ r \in Seq(S) /\ Len(r) = Among(s, T, n)
  /\ \A i \in 1..n : s[i] \in T => Among(s, T, i) \in 1..Len(r) /\ r[Among(s, T, i)] = s[i]
  /\ \A p \in 1..Len(r) : \E i \in 1..n : s[i] \in T /\ p = Among(s, T, i)

\* The places of the elements taken grow with them.
LEMMA PlacingAdds ==
  ASSUME NEW S, NEW s, NEW T, NEW n \in Nat, NEW r, Placing(r, s, S, T, n), s[n + 1] \in S
  PROVE  Placing(IF s[n + 1] \in T THEN Append(r, s[n + 1]) ELSE r, s, S, T, n + 1)
<1>1. /\ Among(s, T, n) \in Nat
      /\ Among(s, T, n + 1) = IF s[n + 1] \in T THEN Among(s, T, n) + 1 ELSE Among(s, T, n)
  BY AmongSteps
<1>2. r \in Seq(S) /\ Len(r) = Among(s, T, n)
  BY DEF Placing
<1>3. CASE s[n + 1] \in T
  <2> DEFINE q == Append(r, s[n + 1])
  <2>1. /\ q \in Seq(S) /\ Len(q) = Len(r) + 1 /\ q[Len(r) + 1] = s[n + 1]
        /\ \A p \in 1..Len(r) : q[p] = r[p]
    BY <1>2
  <2> HIDE DEF q
  <2>2. ASSUME NEW i \in 1..n + 1, s[i] \in T
        PROVE  Among(s, T, i) \in 1..Len(q) /\ q[Among(s, T, i)] = s[i]
    <3>1. CASE i = n + 1
      BY <1>1, <1>2, <1>3, <2>1, <3>1
    <3>2. CASE i # n + 1
      <4>1. i \in 1..n
        BY <3>2
      <4>2. Among(s, T, i) \in 1..Len(r) /\ r[Among(s, T, i)] = s[i]
        BY <2>2, <4>1 DEF Placing
      <4>. QED BY <1>2, <2>1, <4>2
    <3>. QED BY <3>1, <3>2
  <2>3. ASSUME NEW p \in 1..Len(q)
        PROVE  \E i \in 1..n + 1 : s[i] \in T /\ p = Among(s, T, i)
    <3>1. CASE p = Len(r) + 1
      <4>1. n + 1 \in 1..n + 1 /\ p = Among(s, T, n + 1)
        BY <1>1, <1>2, <1>3, <3>1
      <4>. QED BY <1>3, <4>1
    <3>2. CASE p # Len(r) + 1
      <4>1. p \in 1..Len(r)
        BY <1>2, <2>1, <3>2
      <4>2. PICK i \in 1..n : s[i] \in T /\ p = Among(s, T, i)
        BY <4>1 DEF Placing
      <4>3. i \in 1..n + 1
        OBVIOUS
      <4>. QED BY <4>2, <4>3
    <3>. QED BY <3>1, <3>2
  <2>4. Len(q) = Among(s, T, n + 1)
    BY <1>1, <1>2, <1>3, <2>1
  <2>5. Placing(q, s, S, T, n + 1)
    BY <2>1, <2>2, <2>3, <2>4 DEF Placing
  <2>. QED BY <1>3, <2>5 DEF q
<1>4. CASE s[n + 1] \notin T
  <2>1. ASSUME NEW i \in 1..n + 1, s[i] \in T PROVE i \in 1..n
    BY <1>4, <2>1
  <2>2. Placing(r, s, S, T, n + 1)
    <3>1. \A i \in 1..n + 1 : s[i] \in T => Among(s, T, i) \in 1..Len(r) /\ r[Among(s, T, i)] = s[i]
      BY <2>1 DEF Placing
    <3>2. ASSUME NEW p \in 1..Len(r)
          PROVE  \E i \in 1..n + 1 : s[i] \in T /\ p = Among(s, T, i)
      <4>1. PICK i \in 1..n : s[i] \in T /\ p = Among(s, T, i)
        BY DEF Placing
      <4>2. i \in 1..n + 1
        OBVIOUS
      <4>. QED BY <4>1, <4>2
    <3>3. Len(r) = Among(s, T, n + 1)
      BY <1>1, <1>2, <1>4
    <3>. QED BY <1>2, <3>1, <3>2, <3>3 DEF Placing
  <2>. QED BY <1>4, <2>2
<1>. QED BY <1>3, <1>4

\* Each element Only() takes has a place in the sequence.
LEMMA OnlyPlaces ==
  ASSUME NEW S, NEW T, NEW s \in Seq(S)
  PROVE  Placing(Only(s, T), s, S, T, Len(s))
<1>1. PICK m : Taken(m, s, S, T, Len(s)) /\ Only(s, T) = m[Len(s)]
  BY OnlyTakes
<1> DEFINE P == {n \in Nat : n <= Len(s) => Placing(m[n], s, S, T, n)}
<1>2. 0 \in P
  <2>1. m[0] = <<>> /\ Among(s, T, 0) = 0
    BY <1>1, AmongSteps DEF Taken
  <2>2. Placing(<<>>, s, S, T, 0)
    <3>1. Among(s, T, 0) = Len(<<>>) /\ <<>> \in Seq(S)
      BY <2>1
    <3>. QED BY <3>1 DEF Placing
  <2>. QED BY <2>1, <2>2
<1>3. ASSUME NEW n \in Nat, n \in P PROVE n + 1 \in P
  <2>1. CASE n + 1 <= Len(s)
    <3>1. Placing(m[n], s, S, T, n)
      BY <1>3, <2>1
    <3>2. n + 1 \in 1..Len(s) /\ s[n + 1] \in S /\ (n + 1) - 1 = n
      BY <2>1
    <3>3. m[n + 1] = IF s[n + 1] \in T THEN Append(m[n], s[n + 1]) ELSE m[n]
      BY <1>1, <3>2 DEF Taken
    <3> DEFINE r == m[n]
    <3>4. Placing(IF s[n + 1] \in T THEN Append(r, s[n + 1]) ELSE r, s, S, T, n + 1)
      BY <3>1, <3>2, PlacingAdds
    <3>. QED BY <3>3, <3>4
  <2>2. CASE ~(n + 1 <= Len(s))
    BY <2>2
  <2>. QED BY <2>1, <2>2
<1> HIDE DEF P
<1>4. Nat \subseteq P
  BY <1>2, <1>3, Climb
<1>. QED BY <1>1, <1>4 DEF P

\* The elements that are in the set, and no others; as many times as before.
LEMMA OnlyElements ==
  ASSUME NEW S, NEW T, NEW s \in Seq(S)
  PROVE  /\ Only(s, T) \in Seq(S) /\ ToSet(Only(s, T)) = ToSet(s) \cap T
         /\ (\E i \in 1..Len(s) : s[i] \in T) => Only(s, T) # <<>>
         /\ (\A i \in 1..Len(s) : s[i] \notin T) => Only(s, T) = <<>>
<1> DEFINE r == Only(s, T)
<1>1. Placing(r, s, S, T, Len(s))
  BY OnlyPlaces
<1> HIDE DEF r
<1>2. r \in Seq(S)
  BY <1>1 DEF Placing
<1>3. ASSUME NEW x \in ToSet(r) PROVE x \in ToSet(s) \cap T
  <2>1. PICK p \in 1..Len(r) : r[p] = x
    BY <1>2 DEF ToSet
  <2>2. PICK i \in 1..Len(s) : s[i] \in T /\ p = Among(s, T, i)
    BY <1>1 DEF Placing
  <2>3. r[p] = s[i]
    BY <1>1, <2>2 DEF Placing
  <2>. QED BY <2>1, <2>2, <2>3 DEF ToSet
<1>4. ASSUME NEW i \in 1..Len(s), s[i] \in T PROVE s[i] \in ToSet(r)
  <2>1. Among(s, T, i) \in 1..Len(r) /\ r[Among(s, T, i)] = s[i]
    BY <1>1, <1>4 DEF Placing
  <2>2. Among(s, T, i) \in DOMAIN r
    BY <1>2, <2>1
  <2>. QED BY <2>1, <2>2 DEF ToSet
<1>5. ToSet(s) \cap T \subseteq ToSet(r)
  BY <1>4 DEF ToSet
<1>6. ASSUME NEW i \in 1..Len(s), s[i] \in T PROVE r # <<>>
  <2>1. Among(s, T, i) \in 1..Len(r)
    BY <1>1, <1>6 DEF Placing
  <2>2. Among(s, T, i) \in Nat
    BY AmongSteps
  <2>. QED BY <2>1, <2>2
<1>7. ASSUME \A i \in 1..Len(s) : s[i] \notin T PROVE r = <<>>
  <2>1. \A p \in 1..Len(r) : FALSE
    BY <1>1, <1>7 DEF Placing
  <2>. QED BY <1>2, <2>1
<1>. QED BY <1>2, <1>3, <1>5, <1>6, <1>7 DEF r

\* A server.
Server == [data : [Keys -> Value], index : SUBSET Keys]

\* Values and their fields.
LEMMA ValueFields ==
  /\ Nil \in Value
  /\ \A v \in Value : v.items \in Seq(Keys \X Nat) /\ v.ttl \in {-1, 0, 1}
  /\ \A i \in Seq(Keys \X Nat), t \in {-1, 0, 1} : [items |-> i, ttl |-> t] \in Value
  /\ \A v \in Value, i \in Seq(Keys \X Nat) : [v EXCEPT !.items = i] \in Value
  /\ \A v \in Value, t \in {-1, 0, 1} : [v EXCEPT !.ttl = t] \in Value
<1>1. <<>> \in Seq(Keys \X Nat)
  OBVIOUS
<1> DEFINE S == Seq(Keys \X Nat)
<1> HIDE DEF S
<1>2. Value = [items : S, ttl : {-1, 0, 1}] /\ Nil = [items |-> <<>>, ttl |-> -1] /\ <<>> \in S
  BY <1>1 DEF Value, Nil, S
<1>3. /\ \A v \in Value : v.items \in S /\ v.ttl \in {-1, 0, 1}
      /\ \A i \in S, t \in {-1, 0, 1} : [items |-> i, ttl |-> t] \in Value
      /\ \A v \in Value, i \in S : [v EXCEPT !.items = i] \in Value
      /\ \A v \in Value, t \in {-1, 0, 1} : [v EXCEPT !.ttl = t] \in Value
  BY <1>2
<1>4. Nil \in Value
  <2> DEFINE none == <<>>  minus == -1
  <2>1. none \in S /\ minus \in {-1, 0, 1} /\ Nil = [items |-> none, ttl |-> minus]
    BY <1>2
  <2> HIDE DEF none, minus
  <2>. QED BY <1>3, <2>1
<1>. QED BY <1>3, <1>4 DEF S

\* Adding elements to a value gives a value.
LEMMA AddedType ==
  ASSUME NEW k \in Keys, NEW old \in Value, NEW val \in Value
  PROVE  Added(k, old, val) \in Value
<1> DEFINE more == IF TypeOf[k] # "list"
                   THEN Only(val.items, ToSet(val.items) \ ToSet(old.items)) ELSE val.items
           E == Keys \X Nat
           items == old.items \o more
<1>1. old.items \in Seq(E) /\ val.items \in Seq(E)
  BY ValueFields
<1>2. Only(val.items, ToSet(val.items) \ ToSet(old.items)) \in Seq(E)
  <2> HIDE DEF E
  <2>. QED BY <1>1, OnlyElements
<1>3. more \in Seq(E)
  BY <1>1, <1>2
<1> HIDE DEF E
<1>4. items \in Seq(E)
  <2> HIDE DEF more
  <2>. QED BY <1>1, <1>3
<1>5. Added(k, old, val) = [old EXCEPT !.items = items]
  BY DEF Added
<1> HIDE DEF items
<1>6. [old EXCEPT !.items = items] \in Value
  BY <1>4, ValueFields DEF E
<1>. QED BY <1>5, <1>6

\* Commands and their fields.
LEMMA CommandFields ==
  ASSUME NEW cmd \in Command
  PROVE  /\ cmd.keys \in Seq(Keys) /\ cmd.val \in Value /\ cmd.user \in BOOLEAN
         /\ cmd.name \in {"GET", "COUNT", "MGET", "TYPE", "LIST",
                          "SET", "ADD", "EXPIRE", "DEL", "SADD", "SREM"}
         /\ ToSet(cmd.keys) \subseteq Keys
<1> DEFINE S == Seq(Keys)
<1>1. cmd.keys \in S /\ cmd.val \in Value /\ cmd.user \in BOOLEAN
      /\ cmd.name \in {"GET", "COUNT", "MGET", "TYPE", "LIST",
                       "SET", "ADD", "EXPIRE", "DEL", "SADD", "SREM"}
  <2> HIDE DEF S
  <2>1. Command = [name : {"GET", "COUNT", "MGET", "TYPE", "LIST",
                           "SET", "ADD", "EXPIRE", "DEL", "SADD", "SREM"},
                   keys : S, val : Value, user : BOOLEAN]
    BY DEF Command, S
  <2>. QED BY <2>1
<1>2. ToSet(cmd.keys) \subseteq Keys
  BY <1>1 DEF ToSet
<1>. QED BY <1>1, <1>2

\* What each command does to one key, its keys being a set.
Changing(data, after, name, ks, some) ==
  /\ after \in [Keys -> Value]
  /\ \A k \in Keys :
       /\ name \notin {"SET", "ADD", "EXPIRE", "DEL"} => after[k] = data[k]
       /\ k \notin ks => after[k] = data[k] \/ (name \in {"ADD", "EXPIRE"} /\ ~some)
       /\ name = "DEL" => after[k] \in {data[k], Nil}
       /\ name = "DEL" /\ k \in ks => after[k] = Nil
       /\ name = "EXPIRE" /\ data[k] = Nil => after[k] = Nil

\* What a command makes of each key.
LEMMA ChangedAt ==
  ASSUME NEW data \in [Keys -> Value], NEW cmd \in Command
  PROVE  Changing(data, Changed(data, cmd), cmd.name, ToSet(cmd.keys), cmd.keys # <<>>)
<1>1. /\ cmd.keys \in Seq(Keys) /\ cmd.val \in Value
      /\ cmd.name \in {"GET", "COUNT", "MGET", "TYPE", "LIST",
                       "SET", "ADD", "EXPIRE", "DEL", "SADD", "SREM"}
  BY CommandFields
<1>2. \A k : Contains(cmd.keys, k) <=> k \in ToSet(cmd.keys)
  BY <1>1 DEF Contains, ToSet
<1>3. cmd.keys # <<>> => cmd.keys[1] \in ToSet(cmd.keys)
  BY <1>1 DEF ToSet
<1> DEFINE x == cmd.keys[1]  ks == ToSet(cmd.keys)  after == Changed(data, cmd)
           some == cmd.keys # <<>>  name == cmd.name
<1> SUFFICES Changing(data, after, name, ks, some)
  OBVIOUS
<1>4. CASE cmd.name = "SET"
  <2>1. after = [k \in Keys |-> IF k \in ks
                   THEN [cmd.val EXCEPT !.items = Only(cmd.val.items, {k} \X Nat)]
                   ELSE data[k]]
    BY <1>2, <1>4 DEF Changed
  <2>2. ASSUME NEW k \in Keys
        PROVE  [cmd.val EXCEPT !.items = Only(cmd.val.items, {k} \X Nat)] \in Value
    <3> DEFINE E == Keys \X Nat  T == {k} \X Nat  items == Only(cmd.val.items, T)
    <3>1. cmd.val.items \in Seq(E)
      BY <1>1, ValueFields
    <3> HIDE DEF E, T
    <3>2. items \in Seq(E)
      BY <3>1, OnlyElements
    <3> HIDE DEF items
    <3>3. [cmd.val EXCEPT !.items = items] \in Value
      BY <1>1, <3>2, ValueFields DEF E
    <3>. QED BY <3>3 DEF items, T
  <2>3. name = "SET"
    BY <1>4
  <2> HIDE DEF ks, after, some, name
  <2>4. after \in [Keys -> Value] /\ \A k \in Keys : k \notin ks => after[k] = data[k]
    BY <2>1, <2>2
  <2>. QED BY <2>3, <2>4 DEF Changing
<1>5. CASE cmd.name = "ADD"
  <2> DEFINE v == Added(x, data[x], cmd.val)
  <2>1. after = [data EXCEPT ![x] = v]
    BY <1>5 DEF Changed
  <2>2. x \in Keys => v \in Value
    BY <1>1, AddedType
  <2>4. name = "ADD" /\ (some => x \in ks)
    BY <1>3, <1>5
  <2> HIDE DEF v, x, ks, after, some, name
  <2>3. after \in [Keys -> Value] /\ \A k \in Keys : k # x => after[k] = data[k]
    BY <2>1, <2>2
  <2>. QED BY <2>3, <2>4 DEF Changing
<1>6. CASE cmd.name = "EXPIRE"
  <2> DEFINE v == IF data[x] = Nil THEN Nil ELSE [data[x] EXCEPT !.ttl = cmd.val.ttl]
  <2>1. after = [data EXCEPT ![x] = v]
    BY <1>6 DEF Changed
  <2>2. x \in Keys => v \in Value
    BY <1>1, ValueFields
  <2>3. data[x] = Nil => v = Nil
    OBVIOUS
  <2>5. name = "EXPIRE" /\ (some => x \in ks)
    BY <1>3, <1>6
  <2> HIDE DEF v, x, ks, after, some, name
  <2>4. /\ after \in [Keys -> Value] /\ \A k \in Keys : k # x => after[k] = data[k]
        /\ \A k \in Keys : data[k] = Nil => after[k] = Nil
    BY <2>1, <2>2, <2>3
  <2>. QED BY <2>4, <2>5 DEF Changing
<1>7. CASE cmd.name = "DEL"
  <2>1. after = [k \in Keys |-> IF k \in ks THEN Nil ELSE data[k]]
    BY <1>2, <1>7 DEF Changed
  <2>2. name = "DEL"
    BY <1>7
  <2> HIDE DEF ks, after, some, name
  <2>. QED BY <2>1, <2>2, ValueFields DEF Changing
<1>8. CASE cmd.name \notin {"SET", "ADD", "EXPIRE", "DEL"}
  <2>1. after = data
    BY <1>8 DEF Changed
  <2>2. name \notin {"SET", "ADD", "EXPIRE", "DEL"}
    BY <1>8
  <2> HIDE DEF ks, after, some, name
  <2>. QED BY <2>1, <2>2 DEF Changing
<1>. QED BY <1>4, <1>5, <1>6, <1>7, <1>8

\* A command leaves a server a server.
LEMMA RunType ==
  ASSUME NEW s \in Server, NEW cmd \in Command
  PROVE  /\ Run(s, cmd) \in Server
         /\ Run(s, cmd).data = Changed(s.data, cmd)
         /\ Run(s, cmd).index = IF cmd.name = "SADD" THEN s.index \cup ToSet(cmd.keys)
                                ELSE IF cmd.name = "SREM" THEN s.index \ ToSet(cmd.keys)
                                ELSE s.index
<1> DEFINE d == Changed(s.data, cmd)
           i == IF cmd.name = "SADD" THEN s.index \cup ToSet(cmd.keys)
                ELSE IF cmd.name = "SREM" THEN s.index \ ToSet(cmd.keys)
                ELSE s.index
<1>1. Run(s, cmd) = [data |-> d, index |-> i]
  BY DEF Run
<1>2. s.data \in [Keys -> Value] /\ s.index \subseteq Keys
  BY DEF Server
<1>3. d \in [Keys -> Value]
  BY <1>2, ChangedAt DEF Changing
<1>4. i \in SUBSET Keys
  BY <1>2, CommandFields
<1> HIDE DEF d, i
<1>5. Run(s, cmd) \in Server /\ Run(s, cmd).data = d /\ Run(s, cmd).index = i
  <2> DEFINE D == [Keys -> Value]
  <2>1. d \in D
    BY <1>3
  <2> HIDE DEF D
  <2>2. [data |-> d, index |-> i] \in [data : D, index : SUBSET Keys]
    BY <1>4, <2>1
  <2>. QED BY <1>1, <2>2 DEF Server, D
<1>. QED BY <1>5 DEF d, i

\* m[i] is the server after the first i commands.
Serving(m, s, cmds) ==
  /\ m \in [0..Len(cmds) -> Server] /\ m[0] = s
  /\ \A i \in 1..Len(cmds) : m[i] = Run(m[i - 1], cmds[i])

\* The states of a server while it carries out commands exist.
LEMMA ServingExists ==
  ASSUME NEW s \in Server, NEW cmds \in Seq(Command)
  PROVE  \E m : Serving(m, s, cmds)
<1> DEFINE g == [p \in Server \X Command |-> Run(p[1], p[2])]
<1>1. g \in [Server \X Command -> Server] /\ Len(cmds) \in Nat
  <2>1. \A p \in Server \X Command : Run(p[1], p[2]) \in Server
    BY RunType
  <2>. QED BY <2>1
<1>2. \A p \in Server \X Command : g[p] = Run(p[1], p[2])
  OBVIOUS
<1> HIDE DEF g
<1>3. PICK m : Iterates(m, Server, s, g, cmds, Len(cmds))
  BY <1>1, IterationExists
<1>4. ASSUME NEW i \in 1..Len(cmds) PROVE m[i] = Run(m[i - 1], cmds[i])
  <2>1. m[i - 1] \in Server /\ m[i] = g[<<m[i - 1], cmds[i]>>]
    <3> DEFINE n == Len(cmds)
    <3>1. n \in Nat /\ i \in 1..n /\ Iterates(m, Server, s, g, cmds, n)
      BY <1>1, <1>3
    <3> HIDE DEF n
    <3>2. m \in [0..n -> Server] /\ i - 1 \in 0..n
      BY <3>1 DEF Iterates
    <3>. QED BY <3>1, <3>2 DEF Iterates
  <2>2. cmds[i] \in Command
    <3> DEFINE C == Command
    <3>1. cmds \in Seq(C) /\ i \in 1..Len(cmds)
      OBVIOUS
    <3> HIDE DEF C
    <3>2. cmds[i] \in C
      BY <3>1
    <3>. QED BY <3>2 DEF C
  <2>3. <<m[i - 1], cmds[i]>> \in Server \X Command
    BY <2>1, <2>2
  <2>. QED BY <1>2, <2>1, <2>3
<1>5. Serving(m, s, cmds)
  BY <1>3, <1>4 DEF Serving, Iterates
<1>. QED BY <1>5

\* RunAll() is the last of them.
LEMMA ServingIsRunAll ==
  ASSUME NEW s \in Server, NEW cmds \in Seq(Command), NEW m, Serving(m, s, cmds)
  PROVE  RunAll(s, cmds) = m[Len(cmds)]
<1> DEFINE Def(f) == [i \in 0..Len(cmds) |-> IF i = 0 THEN s ELSE Run(f[i - 1], cmds[i])]
           d == CHOOSE f : f = Def(f)
<1>1. m = Def(m)
  <2>1. m \in [0..Len(cmds) -> Server] /\ Len(cmds) \in Nat
    BY DEF Serving
  <2>2. ASSUME NEW i \in 0..Len(cmds) PROVE m[i] = Def(m)[i]
    <3>1. CASE i = 0
      BY <3>1 DEF Serving
    <3>2. CASE i # 0
      <4>1. i \in 1..Len(cmds)
        BY <2>1, <3>2
      <4>2. m[i] = Run(m[i - 1], cmds[i])
        BY <4>1 DEF Serving
      <4>. QED BY <3>2, <4>2
    <3>. QED BY <3>1, <3>2
  <2>. QED BY <2>1, <2>2
<1>2. d = Def(d)
  BY <1>1
<1>3. RunAll(s, cmds) = d[Len(cmds)]
  BY DEF RunAll
<1>4. d[0] = s /\ \A i \in 1..Len(cmds) : d[i] = Run(d[i - 1], cmds[i])
  <2> HIDE DEF d
  <2>1. d[0] = s
    <3>1. 0 \in 0..Len(cmds)
      OBVIOUS
    <3>. QED BY <1>2, <3>1, Zenon
  <2>2. ASSUME NEW i \in 1..Len(cmds) PROVE d[i] = Run(d[i - 1], cmds[i])
    <3>1. i \in 0..Len(cmds) /\ i # 0
      OBVIOUS
    <3>. QED BY <1>2, <3>1, Zenon
  <2>. QED BY <2>1, <2>2
<1> HIDE DEF d, Def
<1> DEFINE P == {k \in Nat : k <= Len(cmds) => d[k] = m[k]}
<1>5. 0 \in P
  BY <1>4 DEF Serving
<1>6. ASSUME NEW k \in Nat, k \in P PROVE k + 1 \in P
  <2>1. CASE k + 1 <= Len(cmds)
    <3>1. k + 1 \in 1..Len(cmds) /\ (k + 1) - 1 = k /\ d[k] = m[k]
      BY <1>6, <2>1
    <3>. QED BY <1>4, <3>1 DEF Serving
  <2>2. CASE ~(k + 1 <= Len(cmds))
    BY <2>2
  <2>. QED BY <2>1, <2>2
<1> HIDE DEF P
<1>7. Nat \subseteq P
  BY <1>5, <1>6, Climb
<1>. QED BY <1>3, <1>7 DEF P

\* What every command keeps, all of them keep.
LEMMA RunAllKeeps ==
  ASSUME NEW I, I \subseteq Server, NEW s \in I, NEW cmds \in Seq(Command),
         \A t \in I, i \in 1..Len(cmds) : Run(t, cmds[i]) \in I
  PROVE  RunAll(s, cmds) \in I
<1>1. PICK m : Serving(m, s, cmds)
  BY ServingExists
<1> DEFINE P == {k \in Nat : k <= Len(cmds) => m[k] \in I}
<1>2. 0 \in P
  BY <1>1 DEF Serving
<1>3. ASSUME NEW k \in Nat, k \in P PROVE k + 1 \in P
  <2>1. CASE k + 1 <= Len(cmds)
    <3>1. k + 1 \in 1..Len(cmds) /\ (k + 1) - 1 = k /\ m[k] \in I
      BY <1>3, <2>1
    <3>. QED BY <1>1, <3>1 DEF Serving
  <2>2. CASE ~(k + 1 <= Len(cmds))
    BY <2>2
  <2>. QED BY <2>1, <2>2
<1> HIDE DEF P
<1>4. Nat \subseteq P
  BY <1>2, <1>3, Climb
<1>5. RunAll(s, cmds) = m[Len(cmds)]
  BY <1>1, ServingIsRunAll
<1>. QED BY <1>4, <1>5 DEF P

\* Commands leave a server a server.
LEMMA RunAllType ==
  ASSUME NEW s \in Server, NEW cmds \in Seq(Command)
  PROVE  RunAll(s, cmds) \in Server
<1>1. ASSUME NEW t \in Server, NEW i \in 1..Len(cmds) PROVE Run(t, cmds[i]) \in Server
  <2>1. cmds[i] \in Command
    OBVIOUS
  <2>. QED BY <2>1, RunType
<1>. QED BY <1>1, RunAllKeeps

\* No command changes nothing.
LEMMA RunAllNone ==
  ASSUME NEW s \in Server
  PROVE  RunAll(s, <<>>) = s
<1>1. <<>> \in Seq(Command) /\ Len(<<>>) = 0
  OBVIOUS
<1>2. PICK m : Serving(m, s, <<>>)
  BY <1>1, ServingExists
<1>. QED BY <1>1, <1>2, ServingIsRunAll DEF Serving

\* The last command is carried out after those before it.
LEMMA RunAllLast ==
  ASSUME NEW s \in Server, NEW q \in Seq(Command), NEW x \in Command
  PROVE  RunAll(s, Append(q, x)) = Run(RunAll(s, q), x)
<1> DEFINE u == Append(q, x)
<1>1. /\ u \in Seq(Command) /\ Len(u) = Len(q) + 1 /\ Len(q) \in Nat /\ u[Len(q) + 1] = x
      /\ \A i \in 1..Len(q) : u[i] = q[i]
  OBVIOUS
<1> HIDE DEF u
<1>2. PICK m : Serving(m, s, u)
  BY <1>1, ServingExists
<1> DEFINE e == [i \in 0..Len(q) |-> m[i]]
<1>3. Serving(e, s, q)
  <2>1. e \in [0..Len(q) -> Server] /\ e[0] = s
    BY <1>1, <1>2 DEF Serving
  <2>2. ASSUME NEW i \in 1..Len(q) PROVE e[i] = Run(e[i - 1], q[i])
    <3>1. i \in 1..Len(u) /\ e[i] = m[i] /\ e[i - 1] = m[i - 1] /\ u[i] = q[i]
      BY <1>1
    <3>. QED BY <1>2, <3>1 DEF Serving
  <2>. QED BY <2>1, <2>2 DEF Serving
<1>4. RunAll(s, u) = m[Len(q) + 1] /\ RunAll(s, q) = e[Len(q)]
  BY <1>1, <1>2, <1>3, ServingIsRunAll
<1>5. m[Len(q) + 1] = Run(m[Len(q)], x)
  <2>1. Len(q) + 1 \in 1..Len(u) /\ (Len(q) + 1) - 1 = Len(q)
    BY <1>1
  <2>. QED BY <1>1, <1>2, <2>1 DEF Serving
<1>. QED BY <1>1, <1>4, <1>5 DEF u

\* One command, two and three.
LEMMA RunAllFew ==
  ASSUME NEW s \in Server, NEW x \in Command, NEW y \in Command
  PROVE  /\ RunAll(s, <<x>>) = Run(s, x)
         /\ RunAll(s, <<x, y>>) = Run(Run(s, x), y)
<1>1. /\ <<>> \in Seq(Command) /\ <<x>> \in Seq(Command)
      /\ <<x>> = Append(<<>>, x) /\ <<x, y>> = Append(<<x>>, y)
  OBVIOUS
<1>2. RunAll(s, <<x>>) = Run(s, x)
  BY <1>1, RunAllNone, RunAllLast
<1>. QED BY <1>1, <1>2, RunAllLast

-----------------------------------------------------------------------------
(* The ring and the requests. *)

\* A hash below the top, scaled to the ring, is a place of the ring.
LEMMA Scaled ==
  ASSUME NEW x \in Nat, NEW t \in Nat \ {0}, NEW l \in Nat \ {0}, x < t
  PROVE  1 + ((x * l) \div t) \in 1 .. l
<1> DEFINE p == x * l  q == p \div t
<1>1. p \in Nat /\ p < t * l
  <2>1. p \in Nat
    OBVIOUS
  <2>2. x <= t - 1 /\ t - 1 \in Nat
    OBVIOUS
  <2>3. x * l <= (t - 1) * l
    BY <2>2
  <2>4. (t - 1) * l = t * l - l
    OBVIOUS
  <2>. QED BY <2>1, <2>3, <2>4
<1> HIDE DEF p
<1>2. q \in Nat /\ t * q <= p
  BY <1>1
<1> HIDE DEF q
<1>3. q < l
  <2> SUFFICES ASSUME l <= q PROVE FALSE
    BY <1>2
  <2>1. t * l <= t * q
    BY <1>2
  <2>. QED BY <1>1, <1>2, <2>1
<1>. QED BY <1>2, <1>3 DEF p, q

\* ra_find_node finds a host of the ring.
LEMMA FoundOnRing ==
  ASSUME NEW hosts, hosts \in Seq(ToSet(hosts)), hosts # <<>>, NEW k \in Keys
  PROVE  ra_find_node(hosts, k) \in ToSet(hosts)
<1>1. Top \in Nat \ {0} /\ Hash[k] \in 1 .. Top /\ Len(hosts) \in Nat \ {0}
  BY RingAssumption
<1>2. Top - Hash[k] \in Nat /\ Top - Hash[k] < Top
  BY <1>1
<1> DEFINE i == 1 + (((Top - Hash[k]) * Len(hosts)) \div Top)
<1>3. i \in 1 .. Len(hosts)
  BY <1>1, <1>2, Scaled
<1> HIDE DEF i
<1>4. hosts[i] \in ToSet(hosts)
  BY <1>3 DEF ToSet
<1>. QED BY <1>4 DEF ra_find_node, i

\* Every key has its host in each ring.
LEMMA Homes ==
  ASSUME NEW k \in Keys
  PROVE  /\ HomeOf(k) \in ToSet(Hosts) /\ HomeOf(k) \in Servers
         /\ PrevHosts # <<>> => PrevOf(k) \in ToSet(PrevHosts) /\ PrevOf(k) \in Servers
<1>1. HomeOf(k) \in ToSet(Hosts)
  BY RingAssumption, FoundOnRing DEF HomeOf
<1>2. PrevHosts # <<>> => PrevOf(k) \in ToSet(PrevHosts)
  BY RingAssumption, FoundOnRing DEF PrevOf
<1>. QED BY <1>1, <1>2 DEF Servers

\* Each connection belongs to one host of one ring.
LEMMA ConnectionsApart ==
  /\ \A g, h : Ring(g) # Prev(h) /\ (Prev(g) = Prev(h) => g = h) /\ Ring(h)[2] = h /\ Prev(h)[2] = h
  /\ \A g, h : Ring(g) = Ring(h) => g = h
  /\ \A h : Ring(h) \in Connections <=> h \in ToSet(Hosts)
  /\ \A h : Prev(h) \in Connections <=> h \in ToSet(PrevHosts)
  /\ \A cn \in Connections : cn[2] \in Servers
<1>1. \A g, h : /\ Ring(g) # Prev(h) /\ (Prev(g) = Prev(h) => g = h)
                /\ Ring(h)[2] = h /\ Prev(h)[2] = h /\ (Ring(g) = Ring(h) => g = h)
  BY DEF Ring, Prev
<1>. QED BY <1>1 DEF Connections, Servers

\* The commands of an array.
Names == {"GET", "COUNT", "MGET", "TYPE", "LIST", "SET", "ADD", "EXPIRE", "DEL", "SADD", "SREM"}

\* What the requests are made of.
Op == [m : AllMethods \cup {"none"}, keys : Seq(Keys), host : ToSet(Hosts) \cup {None},
       n : Nat, ttl : {-1, 0, 1}]
Locals == [nodes : Seq(Servers), keys : SUBSET Keys, key : Keys \cup {None},
           from : Connections \cup {None}, to : Connections \cup {None},
           ttl : {-1, 0, 1}, item : Value, success : BOOLEAN]

\* What a command is made of.
LEMMA MakesCommand ==
  ASSUME NEW name \in Names, NEW ks \in Seq(Keys), NEW v \in Value, NEW u \in BOOLEAN,
         NEW cmd, cmd = [name |-> name, keys |-> ks, val |-> v, user |-> u]
  PROVE  cmd \in Command /\ cmd.name = name /\ cmd.keys = ks /\ cmd.val = v /\ cmd.user = u
<1> DEFINE S == Seq(Keys)
<1>1. Command = [name : Names, keys : S, val : Value, user : BOOLEAN] /\ ks \in S
  BY DEF Command, Names
<1> HIDE DEF S
<1>. QED BY <1>1

\* Commands of the array itself.
LEMMA ArrayCommands ==
  ASSUME NEW name \in Names, NEW ks \in Seq(Keys)
  PROVE  /\ OnKeys(name, ks) \in Command /\ OnKeys(name, ks).name = name
         /\ OnKeys(name, ks).keys = ks /\ OnKeys(name, ks).user = FALSE
<1> DEFINE cmd == OnKeys(name, ks)  no == FALSE
<1>1. cmd = [name |-> name, keys |-> ks, val |-> Nil, user |-> no] /\ Nil \in Value /\ no \in BOOLEAN
  BY ValueFields DEF OnKeys
<1> HIDE DEF cmd, no
<1>2. cmd \in Command /\ cmd.name = name /\ cmd.keys = ks /\ cmd.user = no
  BY <1>1, MakesCommand
<1>. QED BY <1>2 DEF cmd, no

\* Commands that write a value.
LEMMA StoringCommands ==
  ASSUME NEW name \in Names, NEW k \in Keys, NEW v \in Value
  PROVE  /\ Storing(name, k, v) \in Command /\ Storing(name, k, v).name = name
         /\ Storing(name, k, v).keys = <<k>> /\ Storing(name, k, v).user = FALSE
<1> DEFINE cmd == Storing(name, k, v)  no == FALSE  ks == <<k>>
<1>1. cmd = [name |-> name, keys |-> ks, val |-> v, user |-> no] /\ ks \in Seq(Keys) /\ no \in BOOLEAN
  BY DEF Storing
<1> HIDE DEF cmd, no, ks
<1>2. cmd \in Command /\ cmd.name = name /\ cmd.keys = ks /\ cmd.user = no
  BY <1>1, MakesCommand
<1>. QED BY <1>2 DEF cmd, no, ks

\* Commands of the application.
LEMMA UserCommands ==
  ASSUME NEW o \in Op, o.m \in Writes \cup Reads, NEW ks \in Seq(Keys)
  PROVE  /\ UserCommand(o, ks) \in Command /\ UserCommand(o, ks).keys = ks
         /\ UserCommand(o, ks).user = TRUE
         /\ UserCommand(o, ks).name \in {"SET", "ADD", "DEL", "GET", "COUNT", "MGET"}
         /\ o.m \in Reads => UserCommand(o, ks).name \in {"GET", "COUNT", "MGET"}
         /\ o.m = "del" => UserCommand(o, ks).name = "DEL"
         /\ o.m \in Writes /\ o.m # "del" => UserCommand(o, ks).name \in {"SET", "ADD"}
<1> DEFINE cmd  == UserCommand(o, ks)
           name == CASE o.m \in {"set", "setex", "mset"} -> "SET"
                     [] o.m = "push" -> "ADD" [] o.m = "del" -> "DEL"
                     [] o.m = "get" -> "GET"  [] o.m = "exists" -> "COUNT" [] o.m = "mget" -> "MGET"
           items == [i \in DOMAIN ks |-> <<ks[i], o.n>>]
           v == IF o.m \in {"get", "exists", "mget", "del"} THEN Nil
                ELSE [items |-> items, ttl |-> o.ttl]
           yes == TRUE
<1>1. o.n \in Nat /\ o.ttl \in {-1, 0, 1}
  <2> DEFINE S == Seq(Keys)
  <2>1. Op = [m : AllMethods \cup {"none"}, keys : S, host : ToSet(Hosts) \cup {None},
              n : Nat, ttl : {-1, 0, 1}]
    BY DEF Op
  <2> HIDE DEF S
  <2>. QED BY <2>1
<1>2. items \in Seq(Keys \X Nat)
  <2>1. DOMAIN ks = 1 .. Len(ks) /\ Len(ks) \in Nat /\ \A i \in 1 .. Len(ks) : ks[i] \in Keys
    OBVIOUS
  <2>2. items \in [1 .. Len(ks) -> Keys \X Nat]
    BY <1>1, <2>1
  <2> HIDE DEF items
  <2>3. \A n \in Nat : \A S : [1 .. n -> S] \subseteq Seq(S)
    OBVIOUS
  <2>. QED BY <2>1, <2>2, <2>3
<1>3. v \in Value
  <2> HIDE DEF items
  <2>. QED BY <1>1, <1>2, ValueFields
<1>4. /\ name \in Names /\ name \in {"SET", "ADD", "DEL", "GET", "COUNT", "MGET"}
      /\ o.m \in Reads => name \in {"GET", "COUNT", "MGET"}
      /\ o.m = "del" => name = "DEL"
      /\ o.m \in Writes /\ o.m # "del" => name \in {"SET", "ADD"}
  BY DEF Writes, Reads, Names
<1>5. cmd = [name |-> name, keys |-> ks, val |-> v, user |-> yes] /\ yes \in BOOLEAN
  BY DEF UserCommand
<1> HIDE DEF cmd, name, items, v, yes
<1>6. cmd \in Command /\ cmd.name = name /\ cmd.keys = ks /\ cmd.user = yes
  BY <1>3, <1>4, <1>5, MakesCommand
<1>. QED BY <1>4, <1>6 DEF cmd, yes

\* Commands on the index.
LEMMA IndexCommands ==
  ASSUME NEW o, NEW ks \in Seq(Keys)
  PROVE  /\ IndexCommand(o, ks) \in Command /\ IndexCommand(o, ks).keys = ks
         /\ IndexCommand(o, ks).user = FALSE
         /\ IndexCommand(o, ks).name = IF o.m = "del" THEN "SREM" ELSE "SADD"
<1> DEFINE name == IF o.m = "del" THEN "SREM" ELSE "SADD"
<1>1. name \in Names
  BY DEF Names
<1>2. IndexCommand(o, ks) = OnKeys(name, ks)
  BY DEF IndexCommand
<1>3. name = IF o.m = "del" THEN "SREM" ELSE "SADD"
  OBVIOUS
<1> HIDE DEF name
<1>4. /\ OnKeys(name, ks) \in Command /\ OnKeys(name, ks).name = name
      /\ OnKeys(name, ks).keys = ks /\ OnKeys(name, ks).user = FALSE
  BY <1>1, ArrayCommands
<1>. QED BY <1>2, <1>3, <1>4

\* What a move writes: its key only.
StoringOf(cmds, k) ==
  /\ cmds \in Seq(Command)
  /\ \A i \in 1 .. Len(cmds) : /\ cmds[i].name \in {"SET", "ADD", "EXPIRE"}
                               /\ cmds[i].keys = <<k>> /\ cmds[i].user = FALSE

\* The locals of a call and their types.
LEMMA LocalFields ==
  ASSUME NEW f \in Locals
  PROVE  /\ f.nodes \in Seq(Servers) /\ f.keys \subseteq Keys /\ f.key \in Keys \cup {None}
         /\ f.from \in Connections \cup {None} /\ f.to \in Connections \cup {None}
         /\ f.ttl \in {-1, 0, 1} /\ f.item \in Value /\ f.success \in BOOLEAN
<1> DEFINE S == Seq(Servers)
<1>1. Locals = [nodes : S, keys : SUBSET Keys, key : Keys \cup {None},
           from : Connections \cup {None}, to : Connections \cup {None},
           ttl : {-1, 0, 1}, item : Value, success : BOOLEAN]
  BY DEF Locals
<1> HIDE DEF S
<1>2. /\ f.nodes \in S /\ f.keys \subseteq Keys /\ f.key \in Keys \cup {None}
         /\ f.from \in Connections \cup {None} /\ f.to \in Connections \cup {None}
         /\ f.ttl \in {-1, 0, 1} /\ f.item \in Value /\ f.success \in BOOLEAN
  BY <1>1
<1>. QED BY <1>2 DEF S

\* What a move writes at its target are commands on its key.
LEMMA StoreCommandsType ==
  ASSUME NEW f \in Locals, f.key \in Keys
  PROVE  StoringOf(StoreCommands(f), f.key)
<1>1. f.item \in Value /\ f.ttl \in {-1, 0, 1}
  BY LocalFields
<1> DEFINE t == IF f.ttl > 0 THEN f.ttl ELSE -1
           vs == [f.item EXCEPT !.ttl = t]
           va == [f.item EXCEPT !.ttl = -1]
           ve == [Nil EXCEPT !.ttl = f.ttl]
           s == Storing("SET", f.key, vs)
           a == Storing("ADD", f.key, va)
           e == Storing("EXPIRE", f.key, ve)
<1>2. {"SET", "ADD", "EXPIRE"} \subseteq Names /\ t \in {-1, 0, 1} /\ -1 \in {-1, 0, 1}
  BY <1>1 DEF Names
<1>3. vs \in Value /\ va \in Value /\ ve \in Value
  <2> HIDE DEF t
  <2> DEFINE minus == -1
  <2>1. minus \in {-1, 0, 1}
    OBVIOUS
  <2> HIDE DEF minus
  <2>2. [f.item EXCEPT !.ttl = minus] \in Value
    BY <1>1, <2>1, ValueFields
  <2>. QED BY <1>1, <1>2, <2>2, ValueFields DEF minus
<1>5. StoreCommands(f) \in {<<s>>, <<>> \o <<e>>, <<>> \o <<>>, <<a>> \o <<e>>, <<a>> \o <<>>}
  BY DEF StoreCommands
<1> HIDE DEF vs, va, ve
<1>4. ASSUME NEW x \in {s, a, e}
      PROVE  /\ x \in Command /\ x.keys = <<f.key>> /\ x.user = FALSE
             /\ x.name \in {"SET", "ADD", "EXPIRE"}
  <2>1. /\ s \in Command /\ s.keys = <<f.key>> /\ s.user = FALSE /\ s.name = "SET"
        /\ a \in Command /\ a.keys = <<f.key>> /\ a.user = FALSE /\ a.name = "ADD"
        /\ e \in Command /\ e.keys = <<f.key>> /\ e.user = FALSE /\ e.name = "EXPIRE"
    <3> DEFINE k == f.key
    <3>0. k \in Keys
      OBVIOUS
    <3> HIDE DEF k
    <3>4. ASSUME NEW name \in Names, NEW v \in Value
          PROVE  /\ Storing(name, k, v) \in Command /\ Storing(name, k, v).name = name
                 /\ Storing(name, k, v).keys = <<k>> /\ Storing(name, k, v).user = FALSE
      BY <3>0, StoringCommands
    <3>1. s \in Command /\ s.keys = <<f.key>> /\ s.user = FALSE /\ s.name = "SET"
      <4>1. "SET" \in Names
        BY <1>2
      <4>. QED BY <1>3, <3>4, <4>1 DEF k
    <3>2. a \in Command /\ a.keys = <<f.key>> /\ a.user = FALSE /\ a.name = "ADD"
      <4>1. "ADD" \in Names
        BY <1>2
      <4>. QED BY <1>3, <3>4, <4>1 DEF k
    <3>3. e \in Command /\ e.keys = <<f.key>> /\ e.user = FALSE /\ e.name = "EXPIRE"
      <4>1. "EXPIRE" \in Names
        BY <1>2
      <4>. QED BY <1>3, <3>4, <4>1 DEF k
    <3>. QED BY <3>1, <3>2, <3>3
  <2> HIDE DEF s, a, e
  <2>. QED BY <2>1
<1> HIDE DEF s, a, e
<1>6. <<>> \o <<e>> = <<e>> /\ <<>> \o <<>> = <<>> /\ <<a>> \o <<e>> = <<a, e>> /\ <<a>> \o <<>> = <<a>>
  <2>1. <<>> \in Seq(Command) /\ <<a>> \in Seq(Command) /\ <<e>> \in Seq(Command)
    BY <1>4
  <2>2. <<>> \o <<e>> = <<e>> /\ <<>> \o <<>> = <<>> /\ <<a>> \o <<>> = <<a>>
    BY <2>1, ConcatEmptySeq
  <2>3. <<a>> \o <<e>> = <<a, e>>
    <3>1. Append(<<a>>, e) = <<a>> \o <<e>> /\ e \in Command
      BY <1>4, <2>1, AppendIsConcat
    <3>2. <<a>> \in Seq(Command) /\ <<a, e>> = Append(<<a>>, e)
      <4>1. a \in Command /\ e \in Command
        BY <1>4
      <4>. QED BY <4>1
    <3>. QED BY <3>1, <3>2
  <2>. QED BY <2>2, <2>3
<1>7. StoringOf(<<>>, f.key)
  BY DEF StoringOf
<1>8. ASSUME NEW x \in {s, a, e} PROVE StoringOf(<<x>>, f.key)
  <2> DEFINE q == <<x>>
  <2>1. q \in Seq(Command) /\ Len(q) = 1 /\ q[1] = x
    BY <1>4
  <2>2. /\ x.keys = <<f.key>> /\ x.user = FALSE /\ x.name \in {"SET", "ADD", "EXPIRE"}
    BY <1>4
  <2> HIDE DEF q
  <2>3. StoringOf(q, f.key)
    <3>1. ASSUME NEW i \in 1 .. Len(q) PROVE q[i] = x
      BY <2>1
    <3>. QED BY <2>1, <2>2, <3>1 DEF StoringOf
  <2>. QED BY <2>3 DEF q
<1>9. StoringOf(<<a, e>>, f.key)
  <2> DEFINE q == <<a, e>>
  <2>1. q \in Seq(Command) /\ Len(q) = 2 /\ q[1] = a /\ q[2] = e
    BY <1>4
  <2> HIDE DEF q
  <2>2. ASSUME NEW i \in 1 .. Len(q) PROVE q[i] \in {s, a, e}
    BY <2>1
  <2>3. StoringOf(q, f.key)
    BY <1>4, <2>1, <2>2 DEF StoringOf
  <2>. QED BY <2>3 DEF q
<1>. QED BY <1>5, <1>6, <1>7, <1>8, <1>9

-----------------------------------------------------------------------------
(* The invariants. *)

\* The steps of ra_move_key().
Moves == {"type", "moveMulti", "fetch", "store", "delKey", "moveExec"}

\* The variables of the program have their types.
Typed ==
  /\ db \in [Servers -> Server] /\ full \subseteq Servers
  /\ conn \in [Clients -> [Connections -> Connection]]
  /\ multi \in [Clients -> ToSet(Hosts) \cup {None}]
  /\ pc \in [Clients -> Steps]
  /\ op \in [Clients -> Op] /\ frame \in [Clients -> Locals]
  /\ got \in [Clients -> Seq(Value)] /\ calls \in Nat

\* What is under way in a process at step p, with a method o, the locals f and z_multi_exec h.
CallIs(p, o, f, h) ==
  /\ p # "idle" /\ o.m \in Writes \cup Reads => o.keys # <<>>
  /\ p \in {"forward", "multi", "exec", "discard"} => h # None
  /\ p = "forward" => o.m \in Writes \cup Reads /\ \A k \in ToSet(o.keys) : HomeOf(k) = h
  /\ p \in {"write", "mget"} =>
       /\ h = None /\ f.nodes # <<>> /\ ToSet(f.nodes) \subseteq {HomeOf(k) : k \in ToSet(o.keys)}
       /\ o.m \in IF p = "write" THEN Writes ELSE {"mget"}
  /\ p = "read" => o.m \in {"get", "exists"} /\ h = None
  /\ p = "readPrev" => o.m = "get" /\ h = None /\ PrevHosts # <<>>
  /\ p \in {"list", "scan"} => o.m = "_rehash"
  /\ p \in {"list", "scan"} \cup Moves /\ o.m = "_rehash" =>
       f.nodes # <<>> /\ ToSet(f.nodes) \subseteq ToSet(PrevHosts)
  /\ p \in Moves =>
       /\ f.key \in Keys /\ f.to = Ring(HomeOf(f.key)) /\ PrevHosts # <<>>
       /\ \/ o.m = "get" /\ f.key = o.keys[1] /\ f.from = Prev(PrevOf(f.key))
          \/ o.m = "_rehash" /\ f.from = Prev(Head(f.nodes)) /\ HomeOf(f.key) # Head(f.nodes)
  /\ p \in {"store", "delKey"} => f.success

\* A process that makes no more calls: an exception or a second multi() has torn its array.
Ends(t, p) == t # {} /\ p \in {"multi", "return", "idle"}

\* What a connection may have been sent in MULTI: a command on keys that live there, and nothing
\* of a move but what the move under way has stored.
Fits(e, p, f, cn, cmd) ==
  /\ cmd.name \notin {"SADD", "SREM"}
  /\ cmd.name \in {"ADD", "EXPIRE"} => cmd.keys # <<>>
  /\ \A k \in ToSet(cmd.keys) : cn = Ring(HomeOf(k))
  /\ cmd.name \in {"SET", "ADD"} /\ ~cmd.user =>
       e \/ /\ p \in {"delKey", "moveExec"} /\ f.success
            /\ cn = f.to /\ cmd.keys = <<f.key>>
Queued(e, p, f, cn, q) == \A i \in 1 .. Len(q) : Fits(e, p, f, cn, q[i])

\* The connections of a process at step p, with the locals f and z_multi_exec h.
Links(e, p, f, h, cs) ==
  /\ \A cn \in Connections :
       /\ ~cs[cn].tx => cs[cn].queue = <<>>
       /\ cs[cn].tx => \E g \in ToSet(Hosts) : cn = Ring(g)
       /\ cs[cn].tx /\ ~e => cn = Ring(h) \/ (p \in MidMove /\ cn = f.to)
       /\ Queued(e, p, f, cn, cs[cn].queue)
  /\ p \in MidMove => cs[f.to].tx
Linked(c) == Links(Ends(torn, pc[c]), pc[c], frame[c], multi[c], conn[c])

\* A process at any step of any call.
CallInv == Typed /\ \A c \in Clients : CallIs(pc[c], op[c], frame[c], multi[c]) /\ Linked(c)

\* What a server holds of keys that live elsewhere is in its index.
OffHomeIndexed ==
  Index => \A h \in Servers, k \in Keys : h # HomeOf(k) /\ At(h, k) # Nil => k \in db[h].index

\* The keys that _rehash() has to move.
ToMove(k) == TypeOf[k] # "stream" /\ PrevHosts # <<>> /\ PrevOf(k) # HomeOf(k) /\ Before(k) # Nil

\* A _rehash() at step p with the locals f will still come to the key.
Comes(p, f, k) ==
  \/ \E i \in 2 .. Len(f.nodes) : f.nodes[i] = PrevOf(k)
  \/ /\ Head(f.nodes) = PrevOf(k)
     /\ \/ p = "list" \/ k \in f.keys
        \/ k = f.key /\ (\/ p \in {"type", "fetch", "store", "delKey"}
                         \/ p = "moveMulti" /\ f.item # Nil)

\* What is left to move is ahead of it, and at its end there is none.
Rehashes(p, f) ==
  /\ p \in {"list", "scan", "return"} \cup Moves
  /\ \A k \in Keys : ToMove(k) => p # "return" /\ Comes(p, f, k)
Rehashing(c) == op[c].m = "_rehash" => Rehashes(pc[c], frame[c])

\* The indexes cover what is to be moved, wherever a _rehash() is.
MoveInv == /\ CallInv /\ IndexCovers /\ OffHomeIndexed
           /\ RehashedHome /\ rehashed \in BOOLEAN /\ (rehashed => PrevHosts # <<>>)
           /\ \A c \in Clients : Rehashing(c)

\* The values of a read so far, and what is known of those it has still to take.
Known(c, i) == i \in DOMAIN got[c] /\ got[c][i] \in seen[c][op[c].keys[i]]

\* A read at any step: got is empty before its first answer; mget() has the values of the hosts
\* it is through with; a read that falls back has seen its key at the previous host.
Reading(c) ==
  LET o == op[c] IN
  /\ \/ o.m \notin Reads
     \/ pc[c] \in {"idle", "forward", "multi", "exec", "discard", "read", "readPrev"}
     => got[c] = <<>>
  /\ Len(got[c]) <= Len(o.keys)
  /\ pc[c] \in {"return"} \cup Moves => \A i \in DOMAIN got[c] : Known(c, i)
  /\ pc[c] = "mget" =>
       \A i \in DOMAIN o.keys : HomeOf(o.keys[i]) \notin ToSet(frame[c].nodes) => Known(c, i)
  /\ pc[c] = "readPrev" /\ PrevOf(o.keys[1]) # HomeOf(o.keys[1]) =>
       Before(o.keys[1]) \in seen[c][o.keys[1]]

\* Reads return values that were.
ReadInv == MoveInv /\ \A c \in Clients : Reading(c)

-----------------------------------------------------------------------------
(* Types of requests. *)

\* A call and its arguments.
LEMMA OpFields ==
  ASSUME NEW o \in Op
  PROVE  /\ o.m \in AllMethods \cup {"none"} /\ o.keys \in Seq(Keys) /\ o.host \in ToSet(Hosts) \cup {None}
         /\ o.n \in Nat /\ o.ttl \in {-1, 0, 1}
<1> DEFINE S == Seq(Keys)
<1>1. Op = [m : AllMethods \cup {"none"}, keys : S, host : ToSet(Hosts) \cup {None},
            n : Nat, ttl : {-1, 0, 1}]
  BY DEF Op
<1> HIDE DEF S
<1>2. /\ o.m \in AllMethods \cup {"none"} /\ o.keys \in S /\ o.host \in ToSet(Hosts) \cup {None}
      /\ o.n \in Nat /\ o.ttl \in {-1, 0, 1}
  BY <1>1
<1>. QED BY <1>2 DEF S

\* A connection and what is queued on it.
LEMMA ConnectionFields ==
  /\ Atomic \in Connection
  /\ \A x \in Connection : x.tx \in BOOLEAN /\ x.queue \in Seq(Command)
  /\ \A t \in BOOLEAN, q \in Seq(Command) : [tx |-> t, queue |-> q] \in Connection
  /\ \A x \in Connection, t \in BOOLEAN : /\ [x EXCEPT !.tx = t] \in Connection
                                          /\ [x EXCEPT !.tx = t].tx = t
                                          /\ [x EXCEPT !.tx = t].queue = x.queue
  /\ \A x \in Connection, q \in Seq(Command) : /\ [x EXCEPT !.queue = q] \in Connection
                                               /\ [x EXCEPT !.queue = q].tx = x.tx
                                               /\ [x EXCEPT !.queue = q].queue = q
<1> DEFINE S == Seq(Command)
<1>1. Connection = [tx : BOOLEAN, queue : S] /\ <<>> \in S
  BY DEF Connection
<1> HIDE DEF S
<1>2. Atomic \in Connection
  <2> DEFINE no == FALSE  none == <<>>
  <2>1. Atomic = [tx |-> no, queue |-> none] /\ no \in BOOLEAN /\ none \in S
    BY <1>1 DEF Atomic
  <2> HIDE DEF no, none
  <2>. QED BY <1>1, <2>1
<1>3. /\ \A x \in Connection : x.tx \in BOOLEAN /\ x.queue \in S
      /\ \A t \in BOOLEAN, q \in S : [tx |-> t, queue |-> q] \in Connection
      /\ \A x \in Connection, t \in BOOLEAN : /\ [x EXCEPT !.tx = t] \in Connection
                                              /\ [x EXCEPT !.tx = t].tx = t
                                              /\ [x EXCEPT !.tx = t].queue = x.queue
      /\ \A x \in Connection, q \in S : /\ [x EXCEPT !.queue = q] \in Connection
                                        /\ [x EXCEPT !.queue = q].tx = x.tx
                                        /\ [x EXCEPT !.queue = q].queue = q
  BY <1>1
<1>. QED BY <1>2, <1>3 DEF S

\* The keys of a call that live at a host.
LEMMA KeysAtHost ==
  ASSUME NEW h, NEW ks \in Seq(Keys)
  PROVE  /\ KeysAt(h, ks) \in Seq(Keys)
         /\ ToSet(KeysAt(h, ks)) = {k \in ToSet(ks) : HomeOf(k) = h}
         /\ (\E k \in ToSet(ks) : HomeOf(k) = h) => KeysAt(h, ks) # <<>>
<1> DEFINE T == {k \in Keys : HomeOf(k) = h}
<1>1. /\ Only(ks, T) \in Seq(Keys) /\ ToSet(Only(ks, T)) = ToSet(ks) \cap T
      /\ (\E i \in 1..Len(ks) : ks[i] \in T) => Only(ks, T) # <<>>
  BY OnlyElements
<1>2. KeysAt(h, ks) = Only(ks, T)
  BY DEF KeysAt
<1>3. ToSet(ks) \subseteq Keys /\ \A k \in ToSet(ks) : \E i \in 1..Len(ks) : ks[i] = k
  BY DEF ToSet
<1>4. ToSet(ks) \cap T = {k \in ToSet(ks) : HomeOf(k) = h}
  BY <1>3
<1>5. ASSUME NEW k \in ToSet(ks), HomeOf(k) = h PROVE KeysAt(h, ks) # <<>>
  BY <1>1, <1>2, <1>3, <1>5
<1>. QED BY <1>1, <1>2, <1>4, <1>5

\* The hosts of a call are those of its keys.
LEMMA NodesOfKeys ==
  ASSUME NEW ks \in Seq(Keys), ks # <<>>
  PROVE  /\ NodesOf(ks) \in Seq(Servers) /\ NodesOf(ks) # <<>>
         /\ ToSet(NodesOf(ks)) = {HomeOf(k) : k \in ToSet(ks)}
<1> DEFINE T == {HomeOf(k) : k \in ToSet(ks)}
<1>1. ToSet(ks) \subseteq Keys /\ ks[1] \in ToSet(ks)
  BY DEF ToSet
<1>2. T \subseteq ToSet(Hosts) /\ HomeOf(ks[1]) \in T
  BY <1>1, Homes
<1>3. Hosts \in Seq(ToSet(Hosts)) /\ \A h \in ToSet(Hosts) : \E i \in 1..Len(Hosts) : Hosts[i] = h
  BY RingAssumption DEF ToSet
<1> HIDE DEF T
<1>4. /\ Only(Hosts, T) \in Seq(ToSet(Hosts)) /\ ToSet(Only(Hosts, T)) = ToSet(Hosts) \cap T
      /\ (\E i \in 1..Len(Hosts) : Hosts[i] \in T) => Only(Hosts, T) # <<>>
  BY <1>3, OnlyElements
<1>5. Only(Hosts, T) # <<>> /\ ToSet(Hosts) \cap T = T
  BY <1>2, <1>3, <1>4
<1>6. Only(Hosts, T) \in Seq(Servers)
  <2>1. ToSet(Hosts) \subseteq Servers
    BY DEF Servers
  <2>. QED BY <1>4, <2>1
<1>7. NodesOf(ks) = Only(Hosts, T)
  BY DEF NodesOf, T
<1>. QED BY <1>4, <1>5, <1>6, <1>7 DEF T

\* The types of what belongs to one process.
LEMMA TypedFields ==
  ASSUME Typed, NEW c \in Clients
  PROVE  /\ multi[c] \in ToSet(Hosts) \cup {None} /\ pc[c] \in Steps /\ op[c] \in Op
         /\ frame[c] \in Locals /\ got[c] \in Seq(Value)
         /\ conn[c] \in [Connections -> Connection]
         /\ \A cn \in Connections : conn[c][cn] \in Connection
         /\ \A h \in Servers : db[h] \in Server
<1> USE DEF Typed
<1>1. multi[c] \in ToSet(Hosts) \cup {None} /\ pc[c] \in Steps /\ op[c] \in Op
  OBVIOUS
<1>2. frame[c] \in Locals /\ got[c] \in Seq(Value)
  OBVIOUS
<1>3. conn[c] \in [Connections -> Connection] /\ \A h \in Servers : db[h] \in Server
  OBVIOUS
<1>4. \A cn \in Connections : conn[c][cn] \in Connection
  BY <1>3
<1>. QED BY <1>1, <1>2, <1>3, <1>4

\* The first of the hosts still to be called.
LEMMA FirstNode ==
  ASSUME NEW S, NEW s \in Seq(S), s # <<>>
  PROVE  Head(s) \in ToSet(s) /\ Head(s) \in S /\ Head(s) = s[1] /\ Tail(s) \in Seq(S)
         /\ ToSet(Tail(s)) \subseteq ToSet(s) /\ ToSet(s) = {Head(s)} \cup ToSet(Tail(s))
<1>1. /\ Len(s) \in Nat \ {0} /\ Head(s) = s[1] /\ DOMAIN s = 1..Len(s) /\ Tail(s) \in Seq(S)
      /\ DOMAIN Tail(s) = 1..(Len(s) - 1) /\ \A i \in 1..(Len(s) - 1) : Tail(s)[i] = s[i + 1]
  OBVIOUS
<1>2. Head(s) \in ToSet(s) /\ Head(s) \in S
  BY <1>1 DEF ToSet
<1>3. ToSet(Tail(s)) \subseteq ToSet(s)
  BY <1>1 DEF ToSet
<1>4. ASSUME NEW x \in ToSet(s) PROVE x = Head(s) \/ x \in ToSet(Tail(s))
  <2>1. PICK i \in 1..Len(s) : s[i] = x
    BY <1>1 DEF ToSet
  <2>2. CASE i = 1
    BY <1>1, <2>1, <2>2
  <2>3. CASE i # 1
    <3>1. i - 1 \in 1..(Len(s) - 1) /\ Tail(s)[i - 1] = x
      BY <1>1, <2>1, <2>3
    <3>. QED BY <1>1, <3>1 DEF ToSet
  <2>. QED BY <2>2, <2>3
<1>. QED BY <1>1, <1>2, <1>3, <1>4

\* The steps that send a request.
Busy == Steps \ {"idle", "return", "scan"}

\* Where a request goes.
Goes(c) ==
  /\ pc[c] \in {"forward", "multi", "exec", "discard"} =>
       multi[c] \in ToSet(Hosts) /\ Request(c)[1] = Ring(multi[c])
  /\ pc[c] \in {"write", "mget"} =>
       Head(frame[c].nodes) \in ToSet(Hosts) /\ Request(c)[1] = Ring(Head(frame[c].nodes))
  /\ pc[c] = "read" => Request(c)[1] = Ring(HomeOf(op[c].keys[1]))
  /\ pc[c] = "readPrev" => Request(c)[1] = Prev(PrevOf(op[c].keys[1]))
  /\ pc[c] = "list" =>
       Head(frame[c].nodes) \in ToSet(PrevHosts) /\ Request(c)[1] = Prev(Head(frame[c].nodes))
  /\ pc[c] \in {"type", "fetch", "delKey"} =>
       /\ Request(c)[1] = frame[c].from
       /\ \E g \in ToSet(PrevHosts) : frame[c].from = Prev(g)
  /\ pc[c] \in {"moveMulti", "store", "moveExec"} =>
       Request(c)[1] = frame[c].to /\ frame[c].to = Ring(HomeOf(frame[c].key))
  /\ pc[c] \in Busy => Request(c)[1] \in Connections
  /\ pc[c] \in {"forward", "read", "readPrev", "write", "mget"} =>
       op[c].keys # <<>> /\ op[c].keys[1] \in Keys /\ op[c].m \in Writes \cup Reads

\* Where a request goes and what it asks, at each step.
LEMMA RequestParts ==
  ASSUME NEW c
  PROVE  /\ pc[c] \in {"forward", "multi", "exec", "discard"} => Request(c)[1] = Ring(multi[c])
         /\ pc[c] \in {"write", "mget"} => Request(c)[1] = Ring(Head(frame[c].nodes))
         /\ pc[c] = "read" => Request(c)[1] = Ring(HomeOf(op[c].keys[1]))
         /\ pc[c] = "readPrev" => Request(c)[1] = Prev(PrevOf(op[c].keys[1]))
         /\ pc[c] = "list" => Request(c)[1] = Prev(Head(frame[c].nodes))
         /\ pc[c] \in {"type", "fetch", "delKey"} => Request(c)[1] = frame[c].from
         /\ pc[c] \in {"moveMulti", "store", "moveExec"} => Request(c)[1] = frame[c].to
         /\ pc[c] \in {"idle", "return", "scan"} => Request(c)[1] = None
         /\ pc[c] \in {"forward", "read", "readPrev"} => Asked(c) = <<UserCommand(op[c], op[c].keys)>>
         /\ pc[c] \in {"multi", "exec", "discard", "moveMulti", "idle", "return", "scan"} =>
              Asked(c) = <<>>
         /\ pc[c] = "mget" \/ (pc[c] = "write" /\ ~Index) =>
              Asked(c) = <<UserCommand(op[c], KeysAt(Head(frame[c].nodes), op[c].keys))>>
         /\ pc[c] = "write" /\ Index =>
              Asked(c) = <<UserCommand(op[c], KeysAt(Head(frame[c].nodes), op[c].keys)),
                           IndexCommand(op[c], KeysAt(Head(frame[c].nodes), op[c].keys))>>
         /\ pc[c] = "write" => How(c) = IF Index THEN "block" ELSE "send"
         /\ pc[c] = "list" => Asked(c) = <<OnKeys("LIST", <<>>)>>
         /\ pc[c] = "type" => Asked(c) = <<OnKeys("TYPE", <<frame[c].key>>)>>
         /\ pc[c] = "fetch" => Asked(c) = <<OnKeys("GET", <<frame[c].key>>)>>
         /\ pc[c] = "store" => Asked(c) = StoreCommands(frame[c])
         /\ pc[c] = "delKey" =>
              Asked(c) = <<OnKeys("DEL", <<frame[c].key>>), OnKeys("SREM", <<frame[c].key>>)>>
         /\ pc[c] = "moveExec" =>
              Asked(c) = IF frame[c].success THEN <<OnKeys("SADD", <<frame[c].key>>)>> ELSE <<>>
<1>1. CASE pc[c] \in {"forward", "multi", "exec", "discard"}
  BY <1>1 DEF Asked, How, Request
<1>2. CASE pc[c] = "write"
  BY <1>2 DEF Asked, How, Request
<1>3. CASE pc[c] \in {"mget", "read", "readPrev"}
  BY <1>3 DEF Asked, How, Request
<1>4. CASE pc[c] \in {"list", "type", "fetch"}
  BY <1>4 DEF Asked, How, Request
<1>5. CASE pc[c] \in {"moveMulti", "store"}
  BY <1>5 DEF Asked, How, Request
<1>6. CASE pc[c] \in {"delKey", "moveExec"}
  BY <1>6 DEF Asked, How, Request
<1>7. CASE pc[c] \in {"idle", "return", "scan"}
  BY <1>7 DEF Asked, How, Request
<1>. QED BY <1>1, <1>2, <1>3, <1>4, <1>5, <1>6, <1>7

\* Each request goes to a connection of its ring.
LEMMA RequestGoes ==
  ASSUME Typed, NEW c \in Clients, CallIs(pc[c], op[c], frame[c], multi[c])
  PROVE  Goes(c)
<1> DEFINE p == pc[c]  o == op[c]  f == frame[c]  h == multi[c]
<1>1. /\ h \in ToSet(Hosts) \cup {None} /\ p \in Steps /\ o \in Op /\ f \in Locals
      /\ CallIs(p, o, f, h)
  BY TypedFields
<1>2. o.keys \in Seq(Keys) /\ f.nodes \in Seq(Servers)
  BY <1>1, OpFields, LocalFields
<1>3. o.keys # <<>> => o.keys[1] \in Keys
  BY <1>2
<1>4. f.nodes # <<>> => Head(f.nodes) \in ToSet(f.nodes)
  BY <1>2, FirstNode
<1>5. /\ p \in {"forward", "multi", "exec", "discard"} => Request(c)[1] = Ring(h)
      /\ p \in {"write", "mget"} => Request(c)[1] = Ring(Head(f.nodes))
      /\ p = "read" => Request(c)[1] = Ring(HomeOf(o.keys[1]))
      /\ p = "readPrev" => Request(c)[1] = Prev(PrevOf(o.keys[1]))
      /\ p = "list" => Request(c)[1] = Prev(Head(f.nodes))
      /\ p \in {"type", "fetch", "delKey"} => Request(c)[1] = f.from
      /\ p \in {"moveMulti", "store", "moveExec"} => Request(c)[1] = f.to
  <2>1. CASE p \in {"forward", "multi", "exec", "discard", "write", "mget"}
    BY <2>1, RequestParts
  <2>2. CASE p \in {"read", "readPrev", "list"}
    BY <2>2, RequestParts
  <2>3. CASE p \in {"type", "fetch", "delKey", "moveMulti", "store", "moveExec"}
    BY <2>3, RequestParts
  <2>4. CASE p \in {"idle", "return", "scan"}
    BY <2>4
  <2>. QED BY <1>1, <2>1, <2>2, <2>3, <2>4 DEF Steps
<1>6. \A k \in ToSet(o.keys) : k \in Keys
  BY <1>2 DEF ToSet
<1> HIDE DEF p, o, f, h
<1>7. p \in {"forward", "multi", "exec", "discard"} => h \in ToSet(Hosts)
  BY <1>1 DEF CallIs
<1>8. p \in {"write", "mget"} => Head(f.nodes) \in ToSet(Hosts)
  <2>1. p \in {"write", "mget"} =>
          f.nodes # <<>> /\ ToSet(f.nodes) \subseteq {HomeOf(k) : k \in ToSet(o.keys)}
    BY <1>1 DEF CallIs
  <2>. QED BY <1>4, <1>6, <2>1, Homes
<1>9. p \in {"forward", "read", "readPrev", "write", "mget"} =>
        o.keys # <<>> /\ o.keys[1] \in Keys /\ o.m \in Writes \cup Reads
  <2>1. p \in {"forward", "read", "readPrev", "write", "mget"} => o.m \in Writes \cup Reads
    BY <1>1 DEF CallIs, Writes, Reads
  <2>2. p \in {"forward", "read", "readPrev", "write", "mget"} => o.keys # <<>>
    BY <1>1, <2>1 DEF CallIs
  <2>. QED BY <1>3, <2>1, <2>2
<1>10. p = "list" => Head(f.nodes) \in ToSet(PrevHosts)
  <2>1. p = "list" => f.nodes # <<>> /\ ToSet(f.nodes) \subseteq ToSet(PrevHosts)
    BY <1>1 DEF CallIs
  <2>. QED BY <1>4, <2>1
<1>11. p \in Moves => \E g \in ToSet(PrevHosts) : f.from = Prev(g)
  <2> SUFFICES ASSUME p \in Moves PROVE \E g \in ToSet(PrevHosts) : f.from = Prev(g)
    OBVIOUS
  <2>1. /\ PrevHosts # <<>> /\ f.key \in Keys
        /\ f.from = Prev(PrevOf(f.key)) \/ (o.m = "_rehash" /\ f.from = Prev(Head(f.nodes)))
    BY <1>1 DEF CallIs
  <2>2. CASE o.m = "_rehash" /\ f.from = Prev(Head(f.nodes))
    <3>1. f.nodes # <<>> /\ ToSet(f.nodes) \subseteq ToSet(PrevHosts)
      BY <1>1, <2>2 DEF CallIs
    <3>. QED BY <1>4, <2>2, <3>1
  <2>3. CASE f.from = Prev(PrevOf(f.key))
    BY <2>1, <2>3, Homes
  <2>. QED BY <2>1, <2>2, <2>3
<1>12. p \in Moves => f.key \in Keys /\ f.to = Ring(HomeOf(f.key))
  BY <1>1 DEF CallIs
<1>13. p = "readPrev" => PrevHosts # <<>>
  BY <1>1 DEF CallIs
<1>14. p \in Busy => Request(c)[1] \in Connections
  <2>1. \A g \in ToSet(Hosts) : Ring(g) \in Connections
    BY ConnectionsApart
  <2>2. \A g \in ToSet(PrevHosts) : Prev(g) \in Connections
    BY ConnectionsApart
  <2>3. CASE p \in {"forward", "multi", "exec", "discard", "write", "mget"}
    BY <1>5, <1>7, <1>8, <2>1, <2>3
  <2>4. CASE p \in {"read", "readPrev", "list"}
    BY <1>5, <1>9, <1>10, <1>13, <2>1, <2>2, <2>4, Homes
  <2>5. CASE p \in {"type", "fetch", "delKey"}
    BY <1>5, <1>11, <2>2, <2>5 DEF Moves
  <2>6. CASE p \in {"moveMulti", "store", "moveExec"}
    BY <1>5, <1>12, <2>1, <2>6, Homes DEF Moves
  <2>. QED BY <1>1, <2>3, <2>4, <2>5, <2>6 DEF Busy, Steps
<1>15. {"type", "fetch", "delKey", "moveMulti", "store", "moveExec"} \subseteq Moves
  BY DEF Moves
<1> USE DEF p, o, f, h
<1>. QED BY <1>5, <1>7, <1>8, <1>9, <1>10, <1>11, <1>12, <1>14, <1>15 DEF Goes

\* Sequences of one and two elements.
LEMMA Pairs ==
  ASSUME NEW S, NEW x \in S
  PROVE  /\ <<>> \in Seq(S) /\ Len(<<>>) = 0
         /\ <<x>> \in Seq(S) /\ Len(<<x>>) = 1 /\ <<x>>[1] = x /\ <<x>> # <<>> /\ ToSet(<<x>>) = {x}
         /\ \A y \in S : <<x, y>> \in Seq(S) /\ Len(<<x, y>>) = 2 /\ <<x, y>>[1] = x /\ <<x, y>>[2] = y
<1>1. <<x>> \in Seq(S) /\ Len(<<x>>) = 1 /\ <<x>>[1] = x /\ <<x>> # <<>> /\ DOMAIN <<x>> = 1 .. 1
  OBVIOUS
<1>2. ToSet(<<x>>) = {x}
  BY <1>1 DEF ToSet
<1>. QED BY <1>1, <1>2

\* What is asked.
LEMMA AskedTyped ==
  ASSUME Typed, NEW c \in Clients, CallIs(pc[c], op[c], frame[c], multi[c])
  PROVE  Asked(c) \in Seq(Command)
<1> DEFINE p == pc[c]  o == op[c]  f == frame[c]  here == KeysAt(Head(f.nodes), o.keys)
           x == UserCommand(o, o.keys)  y == UserCommand(o, here)  z == IndexCommand(o, here)
           k == f.key  C == Command  Q == Seq(C)
<1>0. /\ <<>> \in Q
      /\ \A u \in C : <<u>> \in Q /\ \A w \in C : <<u, w>> \in Q
  <2>1. ASSUME NEW u \in C PROVE <<u>> \in Q
    <3> HIDE DEF C
    <3>. QED BY <2>1, Pairs
  <2>2. ASSUME NEW u \in C, NEW w \in C PROVE <<u, w>> \in Q
    <3> HIDE DEF C
    <3>. QED BY <2>2, Pairs
  <2>. QED BY <2>1, <2>2
<1>1. /\ p \in Steps /\ o \in Op /\ f \in Locals /\ Goes(c) /\ CallIs(p, o, f, multi[c])
  BY TypedFields, RequestGoes
<1>2. o.keys \in Seq(Keys) /\ here \in Seq(Keys)
  BY <1>1, OpFields, KeysAtHost
<1>3. p \in {"forward", "read", "readPrev", "write", "mget"} =>
        x \in Command /\ y \in Command /\ z \in Command
  BY <1>1, <1>2, UserCommands, IndexCommands DEF Goes
<1>4. /\ {"LIST", "TYPE", "GET", "DEL", "SREM", "SADD"} \subseteq Names
      /\ <<>> \in Seq(Keys) /\ (k \in Keys => <<k>> \in Seq(Keys))
  BY DEF Names
<1>5. p \in Moves => k \in Keys
  BY <1>1 DEF CallIs
<1>6. CASE p \in {"forward", "multi", "exec", "discard", "read", "readPrev", "idle", "return", "scan"}
  <2>1. Asked(c) \in {<<x>>, <<>>} /\ (Asked(c) # <<>> => p \in {"forward", "read", "readPrev"})
    BY <1>6, RequestParts
  <2>2. CASE p \in {"forward", "read", "readPrev"}
    <3>1. x \in C
      BY <1>3, <2>2
    <3> HIDE DEF x, C, Q
    <3>2. Asked(c) \in Q
      BY <1>0, <2>1, <3>1
    <3>. QED BY <3>2 DEF Q, C
  <2>3. CASE p \notin {"forward", "read", "readPrev"}
    BY <1>0, <2>1, <2>3
  <2>. QED BY <2>2, <2>3
<1>7. CASE p \in {"write", "mget"}
  <2>1. Asked(c) \in {<<y>>, <<y, z>>}
    BY <1>7, RequestParts
  <2>2. y \in C /\ z \in C
    BY <1>3, <1>7
  <2> HIDE DEF y, z, C, Q
  <2>3. Asked(c) \in Q
    BY <1>0, <2>1, <2>2
  <2>. QED BY <2>3 DEF Q, C
<1>8. CASE p = "list"
  <2>1. Asked(c) = <<OnKeys("LIST", <<>>)>>
    BY <1>8, RequestParts
  <2>2. OnKeys("LIST", <<>>) \in C
    BY <1>4, ArrayCommands
  <2> HIDE DEF C, Q
  <2>3. Asked(c) \in Q
    BY <1>0, <2>1, <2>2
  <2>. QED BY <2>3 DEF Q, C
<1>9. CASE p \in {"type", "moveMulti", "fetch"}
  <2>1. Asked(c) \in {<<OnKeys("TYPE", <<k>>)>>, <<>>, <<OnKeys("GET", <<k>>)>>}
    BY <1>9, RequestParts
  <2>2. OnKeys("TYPE", <<k>>) \in C /\ OnKeys("GET", <<k>>) \in C
    <3>1. k \in Keys
      BY <1>5, <1>9 DEF Moves
    <3> HIDE DEF k
    <3>. QED BY <1>4, <3>1, ArrayCommands
  <2> DEFINE t1 == OnKeys("TYPE", <<k>>)  t2 == OnKeys("GET", <<k>>)  t3 == OnKeys("DEL", <<k>>)
             t4 == OnKeys("SREM", <<k>>)  t5 == OnKeys("SADD", <<k>>)
  <2> HIDE DEF C, Q, t1, t2, t3, t4, t5
  <2>3. Asked(c) \in Q
    BY <1>0, <2>1, <2>2 DEF t1, t2, t3, t4, t5
  <2>. QED BY <2>3 DEF Q, C
<1>10. CASE p = "store"
  <2>1. Asked(c) = StoreCommands(f) /\ k \in Keys
    BY <1>5, <1>10, RequestParts DEF Moves
  <2>. QED BY <1>1, <2>1, StoreCommandsType DEF StoringOf
<1>11. CASE p \in {"delKey", "moveExec"}
  <2>1. Asked(c) \in {<<OnKeys("DEL", <<k>>), OnKeys("SREM", <<k>>)>>, <<OnKeys("SADD", <<k>>)>>, <<>>}
    BY <1>11, RequestParts
  <2>2. /\ OnKeys("DEL", <<k>>) \in C /\ OnKeys("SREM", <<k>>) \in C
        /\ OnKeys("SADD", <<k>>) \in C
    <3>1. k \in Keys
      BY <1>5, <1>11 DEF Moves
    <3> HIDE DEF k
    <3>. QED BY <1>4, <3>1, ArrayCommands
  <2> DEFINE t1 == OnKeys("TYPE", <<k>>)  t2 == OnKeys("GET", <<k>>)  t3 == OnKeys("DEL", <<k>>)
             t4 == OnKeys("SREM", <<k>>)  t5 == OnKeys("SADD", <<k>>)
  <2> HIDE DEF C, Q, t1, t2, t3, t4, t5
  <2>3. Asked(c) \in Q
    BY <1>0, <2>1, <2>2 DEF t1, t2, t3, t4, t5
  <2>. QED BY <2>3 DEF Q, C
<1>. QED BY <1>1, <1>6, <1>7, <1>8, <1>9, <1>10, <1>11 DEF Steps

\* What the server does with it.
LEMMA ServedTyped ==
  ASSUME Typed, NEW c \in Clients, CallIs(pc[c], op[c], frame[c], multi[c]), pc[c] \in Busy
  PROVE  /\ Request(c)[1] \in Connections /\ HostOf(c) \in Servers
         /\ Of(c) = conn[c][Request(c)[1]] /\ Of(c) \in Connection
         /\ Asked(c) \in Seq(Command) /\ Executes(c) \in Seq(Command)
         /\ Answered(c) \in Connection
<1>1. Request(c)[1] \in Connections /\ HostOf(c) \in Servers
  BY RequestGoes, ConnectionsApart DEF Goes, HostOf
<1>2. Of(c) = conn[c][Request(c)[1]] /\ Of(c) \in Connection
  BY <1>1, TypedFields DEF Of
<1>3. Asked(c) \in Seq(Command)
  BY AskedTyped
<1> DEFINE x == Of(c)  q == x.queue  a == Asked(c)  more == q \o a  tx == x.tx
<1>4. x \in Connection /\ q \in Seq(Command) /\ tx \in BOOLEAN
  BY <1>2, ConnectionFields
<1>5. more \in Seq(Command) /\ <<>> \o a = a
  <2> DEFINE C == Command
  <2>1. q \in Seq(C) /\ a \in Seq(C)
    BY <1>3, <1>4
  <2> HIDE DEF q, a, C
  <2>. QED BY <2>1 DEF C
<1>6. Executes(c) \in {<<>>, more, a}
  <2>1. Executes(c) \in {<<>>, (IF How(c) = "block" THEN q ELSE <<>>) \o a}
    BY DEF Executes
  <2>. QED BY <1>5, <2>1
<1>7. Executes(c) \in Seq(Command)
  <2> DEFINE Q == Seq(Command)
  <2>1. <<>> \in Q /\ more \in Q /\ a \in Q
    BY <1>3, <1>5
  <2> HIDE DEF Q, more, a
  <2>2. Executes(c) \in Q
    BY <1>6, <2>1
  <2>. QED BY <2>2 DEF Q
<1>8. Answered(c) \in {[x EXCEPT !.tx = TRUE], Atomic, [x EXCEPT !.queue = more], x}
  <2>1. How(c) \in {"MULTI", "block", "DISCARD", "send"}
    BY Requests DEF Busy, Steps
  <2>. QED BY <2>1 DEF Answered
<1>9. [x EXCEPT !.tx = TRUE] \in Connection /\ [x EXCEPT !.queue = more] \in Connection
  <2> HIDE DEF x, more
  <2> DEFINE yes == TRUE
  <2>1. yes \in BOOLEAN
    OBVIOUS
  <2> HIDE DEF yes
  <2>2. [x EXCEPT !.tx = yes] \in Connection
    BY <1>4, <2>1, ConnectionFields
  <2>3. [x EXCEPT !.queue = more] \in Connection
    BY <1>4, <1>5, ConnectionFields
  <2>. QED BY <2>2, <2>3 DEF yes
<1>10. Answered(c) \in Connection
  <2> HIDE DEF x, more
  <2>. QED BY <1>4, <1>8, <1>9, ConnectionFields
<1>. QED BY <1>1, <1>2, <1>3, <1>7, <1>10

\* The locals, field by field.
Fields(f, n, ks, k, from, to, t, i, s) ==
  /\ f \in Locals /\ f.nodes = n /\ f.keys = ks /\ f.key = k /\ f.from = from /\ f.to = to
  /\ f.ttl = t /\ f.item = i /\ f.success = s

\* Locals put together from their fields.
LocalsFrom(n, ks, k, from, to, t, i, s) ==
  [nodes |-> n, keys |-> ks, key |-> k, from |-> from, to |-> to,
   ttl |-> t, item |-> i, success |-> s]

\* The types of the fields.
FieldTypes(n, ks, k, from, to, t, i, s) ==
  /\ n \in Seq(Servers) /\ ks \subseteq Keys /\ k \in Keys \cup {None}
  /\ from \in Connections \cup {None} /\ to \in Connections \cup {None}
  /\ t \in {-1, 0, 1} /\ i \in Value /\ s \in BOOLEAN

\* Such locals are locals, with those fields.
LEMMA LocalsOf ==
  ASSUME NEW n, NEW ks, NEW k, NEW from, NEW to, NEW t, NEW i, NEW s,
         FieldTypes(n, ks, k, from, to, t, i, s), NEW f,
         f = LocalsFrom(n, ks, k, from, to, t, i, s)
  PROVE  Fields(f, n, ks, k, from, to, t, i, s)
<1> DEFINE S == Seq(Servers)
<1>1. Locals = [nodes : S, keys : SUBSET Keys, key : Keys \cup {None},
           from : Connections \cup {None}, to : Connections \cup {None},
           ttl : {-1, 0, 1}, item : Value, success : BOOLEAN]
      /\ n \in S /\ ks \subseteq Keys /\ k \in Keys \cup {None}
      /\ from \in Connections \cup {None} /\ to \in Connections \cup {None}
      /\ t \in {-1, 0, 1} /\ i \in Value /\ s \in BOOLEAN
  BY DEF Locals, FieldTypes
<1> HIDE DEF S
<1>. QED BY <1>1 DEF Fields, LocalsFrom

\* The locals the steps make.
LEMMA LocalSteps ==
  ASSUME NEW f \in Locals
  PROVE  /\ Fields(NoFrame, <<>>, {}, None, None, None, -1, Nil, FALSE)
         /\ \A x \in Seq(Servers) :
              Fields([f EXCEPT !.nodes = x], x, f.keys, f.key, f.from, f.to, f.ttl, f.item, f.success)
         /\ \A x \in Seq(Servers) :
              Fields([NoFrame EXCEPT !.nodes = x], x, {}, None, None, None, -1, Nil, FALSE)
         /\ \A x \in SUBSET Keys :
              Fields([f EXCEPT !.keys = x], f.nodes, x, f.key, f.from, f.to, f.ttl, f.item, f.success)
         /\ \A x \in Value :
              Fields([f EXCEPT !.item = x], f.nodes, f.keys, f.key, f.from, f.to, f.ttl, x, f.success)
         /\ \A t \in {-1, 0, 1}, x \in Value :
              Fields([f EXCEPT !.ttl = t, !.item = x],
                     f.nodes, f.keys, f.key, f.from, f.to, t, x, f.success)
         /\ \A x \in Value, s \in BOOLEAN :
              Fields([f EXCEPT !.item = x, !.success = s],
                     f.nodes, f.keys, f.key, f.from, f.to, f.ttl, x, s)
         /\ \A k \in Keys \cup {None}, from, to \in Connections \cup {None} :
              Fields(Moving(f, k, from, to), f.nodes, f.keys, k, from, to, -1, Nil, FALSE)
         /\ \A k \in Keys \cup {None}, from, to \in Connections \cup {None}, x \in SUBSET Keys :
              Fields([Moving(f, k, from, to) EXCEPT !.keys = x],
                     f.nodes, x, k, from, to, -1, Nil, FALSE)
<1> DEFINE minus == -1  no == FALSE  empty == {}  none == <<>>
<1>0. /\ minus \in {-1, 0, 1} /\ no \in BOOLEAN /\ empty \subseteq Keys /\ none \in Seq(Servers)
      /\ Nil \in Value /\ None \in Keys \cup {None} /\ None \in Connections \cup {None}
  BY ValueFields
<1>1. NoFrame = [nodes |-> none, keys |-> empty, key |-> None, from |-> None, to |-> None,
                 ttl |-> minus, item |-> Nil, success |-> no]
  BY DEF NoFrame
<1> DEFINE a1 == f.nodes  a2 == f.keys  a3 == f.key  a4 == f.from  a5 == f.to  a6 == f.ttl
           a7 == f.item  a8 == f.success
<1>2. /\ a1 \in Seq(Servers) /\ a2 \subseteq Keys /\ a3 \in Keys \cup {None}
      /\ a4 \in Connections \cup {None} /\ a5 \in Connections \cup {None}
      /\ a6 \in {-1, 0, 1} /\ a7 \in Value /\ a8 \in BOOLEAN
  BY LocalFields
<1>3. f = [nodes |-> a1, keys |-> a2, key |-> a3, from |-> a4, to |-> a5,
           ttl |-> a6, item |-> a7, success |-> a8]
  <2> DEFINE S == Seq(Servers)
  <2>1. Locals = [nodes : S, keys : SUBSET Keys, key : Keys \cup {None},
           from : Connections \cup {None}, to : Connections \cup {None},
           ttl : {-1, 0, 1}, item : Value, success : BOOLEAN]
    BY DEF Locals
  <2> HIDE DEF S
  <2>. QED BY <2>1
<1> HIDE DEF minus, no, empty, none, a1, a2, a3, a4, a5, a6, a7, a8
<1>24. NoFrame = LocalsFrom(none, empty, None, None, None, minus, Nil, no)
  BY <1>1 DEF LocalsFrom
<1>34. FieldTypes(none, empty, None, None, None, minus, Nil, no)
  BY <1>0 DEF FieldTypes
<1>4. Fields(NoFrame, none, empty, None, None, None, minus, Nil, no)
  BY <1>24, <1>34, LocalsOf
<1>5. ASSUME NEW x \in Seq(Servers)
      PROVE  /\ Fields([f EXCEPT !.nodes = x], x, a2, a3, a4, a5, a6, a7, a8)
             /\ Fields([NoFrame EXCEPT !.nodes = x], x, empty, None, None, None, minus, Nil, no)
  <2>1. /\ [f EXCEPT !.nodes = x] = [nodes |-> x, keys |-> a2, key |-> a3, from |-> a4, to |-> a5,
           ttl |-> a6, item |-> a7, success |-> a8]
        /\ [NoFrame EXCEPT !.nodes = x] = [nodes |-> x, keys |-> empty, key |-> None,
           from |-> None, to |-> None, ttl |-> minus, item |-> Nil, success |-> no]
    BY <1>1, <1>3
  <2> DEFINE g == [f EXCEPT !.nodes = x]  h == [NoFrame EXCEPT !.nodes = x]
  <2> HIDE DEF g, h
  <2>4. /\ g = [nodes |-> x, keys |-> a2, key |-> a3, from |-> a4, to |-> a5,
           ttl |-> a6, item |-> a7, success |-> a8]
        /\ h = [nodes |-> x, keys |-> empty, key |-> None,
           from |-> None, to |-> None, ttl |-> minus, item |-> Nil, success |-> no]
    BY <2>1 DEF g, h
  <2>22. g = LocalsFrom(x, a2, a3, a4, a5, a6, a7, a8)
    BY <2>4 DEF LocalsFrom
  <2>32. FieldTypes(x, a2, a3, a4, a5, a6, a7, a8)
    BY <1>2 DEF FieldTypes
  <2>2. Fields(g, x, a2, a3, a4, a5, a6, a7, a8)
    BY <2>22, <2>32, LocalsOf
  <2>23. h = LocalsFrom(x, empty, None, None, None, minus, Nil, no)
    BY <2>4 DEF LocalsFrom
  <2>33. FieldTypes(x, empty, None, None, None, minus, Nil, no)
    BY <1>0 DEF FieldTypes
  <2>3. Fields(h, x, empty, None, None, None, minus, Nil, no)
    BY <2>23, <2>33, LocalsOf
  <2>. QED BY <2>2, <2>3 DEF g, h
<1>6. ASSUME NEW x \in SUBSET Keys
      PROVE  Fields([f EXCEPT !.keys = x], a1, x, a3, a4, a5, a6, a7, a8)
  <2> DEFINE g == [f EXCEPT !.keys = x]
  <2>1. g = [nodes |-> a1, keys |-> x, key |-> a3, from |-> a4, to |-> a5,
             ttl |-> a6, item |-> a7, success |-> a8]
    BY <1>3
  <2> HIDE DEF g
  <2>22. g = LocalsFrom(a1, x, a3, a4, a5, a6, a7, a8)
    BY <2>1 DEF LocalsFrom
  <2>32. FieldTypes(a1, x, a3, a4, a5, a6, a7, a8)
    BY <1>2 DEF FieldTypes
  <2>2. Fields(g, a1, x, a3, a4, a5, a6, a7, a8)
    BY <2>22, <2>32, LocalsOf
  <2>. QED BY <2>2 DEF g
<1>7. ASSUME NEW x \in Value, NEW t \in {-1, 0, 1}, NEW s \in BOOLEAN
      PROVE  /\ Fields([f EXCEPT !.item = x], a1, a2, a3, a4, a5, a6, x, a8)
             /\ Fields([f EXCEPT !.ttl = t, !.item = x], a1, a2, a3, a4, a5, t, x, a8)
             /\ Fields([f EXCEPT !.item = x, !.success = s], a1, a2, a3, a4, a5, a6, x, s)
  <2> DEFINE g == [f EXCEPT !.item = x]  h == [f EXCEPT !.ttl = t, !.item = x]
             j == [f EXCEPT !.item = x, !.success = s]
  <2>1. g = [nodes |-> a1, keys |-> a2, key |-> a3, from |-> a4, to |-> a5,
             ttl |-> a6, item |-> x, success |-> a8]
    BY <1>3
  <2>2. h = [nodes |-> a1, keys |-> a2, key |-> a3, from |-> a4, to |-> a5,
             ttl |-> t, item |-> x, success |-> a8]
    <3> DEFINE f1 == [f EXCEPT !.ttl = t]
    <3>1. f1 = [nodes |-> a1, keys |-> a2, key |-> a3, from |-> a4, to |-> a5,
                ttl |-> t, item |-> a7, success |-> a8]
      BY <1>3
    <3>2. h = [f1 EXCEPT !.item = x]
      OBVIOUS
    <3> HIDE DEF f1, h
    <3>. QED BY <3>1, <3>2
  <2>3. j = [nodes |-> a1, keys |-> a2, key |-> a3, from |-> a4, to |-> a5,
             ttl |-> a6, item |-> x, success |-> s]
    <3>1. j = [g EXCEPT !.success = s]
      OBVIOUS
    <3> HIDE DEF g, j
    <3>. QED BY <2>1, <3>1
  <2> HIDE DEF g, h, j
  <2>24. g = LocalsFrom(a1, a2, a3, a4, a5, a6, x, a8)
    BY <2>1 DEF LocalsFrom
  <2>34. FieldTypes(a1, a2, a3, a4, a5, a6, x, a8)
    BY <1>2 DEF FieldTypes
  <2>4. Fields(g, a1, a2, a3, a4, a5, a6, x, a8)
    BY <2>24, <2>34, LocalsOf
  <2>25. h = LocalsFrom(a1, a2, a3, a4, a5, t, x, a8)
    BY <2>2 DEF LocalsFrom
  <2>35. FieldTypes(a1, a2, a3, a4, a5, t, x, a8)
    BY <1>2 DEF FieldTypes
  <2>5. Fields(h, a1, a2, a3, a4, a5, t, x, a8)
    BY <2>25, <2>35, LocalsOf
  <2>26. j = LocalsFrom(a1, a2, a3, a4, a5, a6, x, s)
    BY <2>3 DEF LocalsFrom
  <2>36. FieldTypes(a1, a2, a3, a4, a5, a6, x, s)
    BY <1>2 DEF FieldTypes
  <2>6. Fields(j, a1, a2, a3, a4, a5, a6, x, s)
    BY <2>26, <2>36, LocalsOf
  <2>. QED BY <2>4, <2>5, <2>6 DEF g, h, j
<1>8. ASSUME NEW k \in Keys \cup {None}, NEW from \in Connections \cup {None},
             NEW to \in Connections \cup {None}, NEW x \in SUBSET Keys
      PROVE  /\ Fields(Moving(f, k, from, to), a1, a2, k, from, to, minus, Nil, no)
             /\ Fields([Moving(f, k, from, to) EXCEPT !.keys = x], a1, x, k, from, to, minus, Nil, no)
  <2> DEFINE g == Moving(f, k, from, to)  h == [Moving(f, k, from, to) EXCEPT !.keys = x]
  <2>1. g = [nodes |-> a1, keys |-> a2, key |-> k, from |-> from, to |-> to,
             ttl |-> minus, item |-> Nil, success |-> no]
    <3> DEFINE f1 == [f EXCEPT !.key = k]
               f2 == [f1 EXCEPT !.from = from]
               f3 == [f2 EXCEPT !.to = to]
               f4 == [f3 EXCEPT !.ttl = minus]
               f5 == [f4 EXCEPT !.item = Nil]
               f6 == [f5 EXCEPT !.success = no]
    <3>1. g = f6
      BY DEF Moving, minus, no
    <3> HIDE DEF g
    <3>2. f1 = [nodes |-> a1, keys |-> a2, key |-> k, from |-> a4, to |-> a5,
                ttl |-> a6, item |-> a7, success |-> a8]
      BY <1>3
    <3> HIDE DEF f1
    <3>3. f2 = [nodes |-> a1, keys |-> a2, key |-> k, from |-> from, to |-> a5,
                ttl |-> a6, item |-> a7, success |-> a8]
      BY <3>2
    <3> HIDE DEF f2
    <3>4. f3 = [nodes |-> a1, keys |-> a2, key |-> k, from |-> from, to |-> to,
                ttl |-> a6, item |-> a7, success |-> a8]
      BY <3>3
    <3> HIDE DEF f3
    <3>5. f4 = [nodes |-> a1, keys |-> a2, key |-> k, from |-> from, to |-> to,
                ttl |-> minus, item |-> a7, success |-> a8]
      BY <3>4
    <3> HIDE DEF f4
    <3>6. f5 = [nodes |-> a1, keys |-> a2, key |-> k, from |-> from, to |-> to,
                ttl |-> minus, item |-> Nil, success |-> a8]
      BY <3>5
    <3> HIDE DEF f5
    <3>7. f6 = [nodes |-> a1, keys |-> a2, key |-> k, from |-> from, to |-> to,
                ttl |-> minus, item |-> Nil, success |-> no]
      BY <3>6
    <3> HIDE DEF f6
    <3>. QED BY <3>1, <3>7
  <2> HIDE DEF g
  <2>2. h = [g EXCEPT !.keys = x]
    BY DEF g
  <2>3. h = [nodes |-> a1, keys |-> x, key |-> k, from |-> from, to |-> to,
             ttl |-> minus, item |-> Nil, success |-> no]
    BY <2>1, <2>2
  <2> HIDE DEF h
  <2>6. /\ a1 \in Seq(Servers) /\ a2 \subseteq Keys /\ x \subseteq Keys
        /\ minus \in {-1, 0, 1} /\ Nil \in Value /\ no \in BOOLEAN
    BY <1>0, <1>2
  <2>24. g = LocalsFrom(a1, a2, k, from, to, minus, Nil, no)
    BY <2>1 DEF LocalsFrom
  <2>34. FieldTypes(a1, a2, k, from, to, minus, Nil, no)
    BY <2>6 DEF FieldTypes
  <2>4. Fields(g, a1, a2, k, from, to, minus, Nil, no)
    BY <2>24, <2>34, LocalsOf
  <2>25. h = LocalsFrom(a1, x, k, from, to, minus, Nil, no)
    BY <2>3 DEF LocalsFrom
  <2>35. FieldTypes(a1, x, k, from, to, minus, Nil, no)
    BY <2>6 DEF FieldTypes
  <2>5. Fields(h, a1, x, k, from, to, minus, Nil, no)
    BY <2>25, <2>35, LocalsOf
  <2>. QED BY <2>4, <2>5 DEF g, h
<1> USE DEF minus, no, empty, none, a1, a2, a3, a4, a5, a6, a7, a8
<1>9. \A x \in Value : Fields([f EXCEPT !.item = x],
                                f.nodes, f.keys, f.key, f.from, f.to, f.ttl, x, f.success)
  <2> TAKE x \in Value
  <2>1. -1 \in {-1, 0, 1} /\ TRUE \in BOOLEAN
    OBVIOUS
  <2>. QED BY <1>7, <2>1
<1>10. \A k \in Keys \cup {None}, from, to \in Connections \cup {None} :
         Fields(Moving(f, k, from, to), f.nodes, f.keys, k, from, to, -1, Nil, FALSE)
  <2> TAKE k \in Keys \cup {None}, from, to \in Connections \cup {None}
  <2>1. {} \in SUBSET Keys
    OBVIOUS
  <2>. QED BY <1>8, <2>1
<1>11. \A t \in {-1, 0, 1}, x \in Value :
         Fields([f EXCEPT !.ttl = t, !.item = x],
                f.nodes, f.keys, f.key, f.from, f.to, t, x, f.success)
  <2> TAKE t \in {-1, 0, 1}, x \in Value
  <2>1. TRUE \in BOOLEAN
    OBVIOUS
  <2>. QED BY <1>7, <2>1
<1>12. \A x \in Value, s \in BOOLEAN :
         Fields([f EXCEPT !.item = x, !.success = s],
                f.nodes, f.keys, f.key, f.from, f.to, f.ttl, x, s)
  <2> TAKE x \in Value, s \in BOOLEAN
  <2>1. -1 \in {-1, 0, 1}
    OBVIOUS
  <2>. QED BY <1>7, <2>1
<1>. QED BY <1>4, <1>5, <1>6, <1>8, <1>9, <1>10, <1>11, <1>12, Zenon

-----------------------------------------------------------------------------
(* The connections of a process. *)

\* What the invariant says of one process.
LEMMA CallFacts ==
  ASSUME CallInv, NEW c \in Clients
  PROVE  Typed /\ CallIs(pc[c], op[c], frame[c], multi[c]) /\ Linked(c)
BY DEF CallInv

\* Nothing is sent in MULTI, but the pc and the locals change.
LEMMA LinksStay ==
  ASSUME NEW e \in BOOLEAN, NEW p, NEW f, NEW h, NEW cs, Links(e, p, f, h, cs),
         NEW e2 \in BOOLEAN, NEW p2, NEW f2, e => e2,
         p2 \in MidMove => p \in MidMove /\ f2.to = f.to,
         p \in MidMove => p2 \in MidMove \/ e2,
         p \in {"delKey", "moveExec"} =>
           \/ p2 \in {"delKey", "moveExec"} /\ f2.success = f.success /\ f2.key = f.key /\ f2.to = f.to
           \/ e2
  PROVE  Links(e2, p2, f2, h, cs)
<1>1. ASSUME NEW cn \in Connections
      PROVE  /\ ~cs[cn].tx => cs[cn].queue = <<>>
             /\ cs[cn].tx => \E g \in ToSet(Hosts) : cn = Ring(g)
             /\ cs[cn].tx /\ ~e2 => cn = Ring(h) \/ (p2 \in MidMove /\ cn = f2.to)
             /\ Queued(e2, p2, f2, cn, cs[cn].queue)
  <2>1. /\ ~cs[cn].tx => cs[cn].queue = <<>>
        /\ cs[cn].tx => \E g \in ToSet(Hosts) : cn = Ring(g)
        /\ cs[cn].tx /\ ~e => cn = Ring(h) \/ (p \in MidMove /\ cn = f.to)
        /\ Queued(e, p, f, cn, cs[cn].queue)
    BY DEF Links
  <2>2. ASSUME cs[cn].tx, ~e2 PROVE cn = Ring(h) \/ (p2 \in MidMove /\ cn = f2.to)
    BY <2>1, <2>2
  <2>3. ASSUME NEW cmd, Fits(e, p, f, cn, cmd) PROVE Fits(e2, p2, f2, cn, cmd)
    BY <2>3 DEF Fits
  <2>4. Queued(e2, p2, f2, cn, cs[cn].queue)
    BY <2>1, <2>3 DEF Queued
  <2>. QED BY <2>1, <2>2, <2>4
<1>2. p2 \in MidMove => cs[f2.to].tx
  BY DEF Links
<1>. QED BY <1>1, <1>2 DEF Links

\* Only the connections of the ring are ever in MULTI, and outside a transaction of the
\* application none, but the target of a move.
LEMMA NotOpen ==
  ASSUME CallInv, NEW c \in Clients,
         pc[c] \in {"write", "mget", "read", "readPrev", "list", "type", "fetch", "delKey"}
  PROVE  ~Of(c).tx
<1> DEFINE r == Request(c)[1]
<1>1. /\ Typed /\ CallIs(pc[c], op[c], frame[c], multi[c]) /\ Linked(c) /\ pc[c] \in Busy
      /\ Goes(c)
  BY CallFacts, RequestGoes DEF Busy, Steps
<1>2. r \in Connections /\ Of(c) = conn[c][r]
  BY <1>1, ServedTyped
<1>3. CASE pc[c] \in {"write", "mget", "read"}
  <2>1. multi[c] = None /\ pc[c] \notin MidMove /\ ~Ends(torn, pc[c])
    BY <1>1, <1>3 DEF CallIs, MidMove, Ends
  <2>2. r # Ring(None)
    BY <1>2, RingsApart
  <2>. QED BY <1>1, <1>2, <2>1, <2>2 DEF Linked, Links
<1>4. CASE pc[c] \in {"readPrev", "list", "type", "fetch", "delKey"}
  <2>1. \E g : r = Prev(g)
    BY <1>1, <1>4 DEF Goes
  <2>. QED BY <1>1, <1>2, <2>1, ConnectionsApart DEF Linked, Links
<1>. QED BY <1>3, <1>4

\* A request outside MULTI leaves the connection as it was.
LEMMA Untouched ==
  ASSUME CallInv, NEW c \in Clients, Ask(c),
         pc[c] \in {"write", "mget", "read", "readPrev", "list", "type", "fetch", "delKey"}
  PROVE  conn' = conn
<1> DEFINE r == Request(c)[1]  x == Of(c)
<1>1. /\ Typed /\ Linked(c) /\ pc[c] \in Busy /\ CallIs(pc[c], op[c], frame[c], multi[c])
      /\ ~x.tx
  BY CallFacts, NotOpen DEF Busy, Steps
<1>2. r \in Connections /\ x = conn[c][r] /\ x \in Connection
  BY <1>1, ServedTyped
<1>3. How(c) \in {"block", "send"}
  BY Requests
<1>4. x.queue = <<>>
  BY <1>1, <1>2 DEF Linked, Links
<1>5. x = Atomic
  <2> DEFINE S == Seq(Command)  no == FALSE  none == <<>>
  <2>1. Connection = [tx : BOOLEAN, queue : S] /\ Atomic = [tx |-> no, queue |-> none]
        /\ x.queue = none /\ x.tx = no
    <3>1. x.tx \in BOOLEAN
      BY <1>2, ConnectionFields
    <3>. QED BY <1>1, <1>4, <3>1 DEF Connection, Atomic
  <2> HIDE DEF S, no, none, x
  <2>. QED BY <1>2, <2>1
<1>6. Answered(c) = x
  BY <1>1, <1>3, <1>5 DEF Answered
<1>7. conn' = [conn EXCEPT ![c][r] = x]
  BY <1>6 DEF Ask
<1> HIDE DEF r
<1>8. conn[c] = [conn[c] EXCEPT ![r] = x]
  BY <1>2, <1>1, TypedFields
<1>. QED BY <1>1, <1>7, <1>8 DEF Typed

\* One process moves.
LEMMA CallMoves ==
  ASSUME CallInv, NEW c \in Clients, NEW where \in Steps, NEW f \in Locals, Go(c, where, f),
         db' \in [Servers -> Server], full' \subseteq Servers,
         conn' \in [Clients -> [Connections -> Connection]],
         \A d \in Clients : d # c => conn'[d] = conn[d],
         multi' \in [Clients -> ToSet(Hosts) \cup {None}],
         \A d \in Clients : d # c => multi'[d] = multi[d],
         op' \in [Clients -> Op], \A d \in Clients : d # c => op'[d] = op[d],
         got' \in [Clients -> Seq(Value)], calls' \in Nat, torn \subseteq torn',
         CallIs(where, op'[c], f, multi'[c]),
         Links(Ends(torn', where), where, f, multi'[c], conn'[c])
  PROVE  CallInv'
<1>1. /\ pc \in [Clients -> Steps] /\ frame \in [Clients -> Locals]
      /\ pc' = [pc EXCEPT ![c] = where] /\ frame' = [frame EXCEPT ![c] = f]
  BY DEF CallInv, Typed, Go
<1>2. /\ pc' \in [Clients -> Steps] /\ frame' \in [Clients -> Locals]
      /\ pc'[c] = where /\ frame'[c] = f
      /\ \A d \in Clients : d # c => pc'[d] = pc[d] /\ frame'[d] = frame[d]
  BY <1>1
<1>3. Typed'
  BY <1>2 DEF Typed
<1>4. ASSUME NEW d \in Clients PROVE (CallIs(pc[d], op[d], frame[d], multi[d]) /\ Linked(d))'
  <2>1. CASE d = c
    <3>1. CallIs(pc'[d], op'[d], frame'[d], multi'[d])
      BY <1>2, <2>1
    <3>2. Links(Ends(torn', pc'[d]), pc'[d], frame'[d], multi'[d], conn'[d])
      BY <1>2, <2>1
    <3>. QED BY <3>1, <3>2 DEF Linked, Links, Ends, Queued, Fits, CallIs
  <2>2. CASE d # c
    <3>1. /\ pc'[d] = pc[d] /\ frame'[d] = frame[d] /\ multi'[d] = multi[d] /\ op'[d] = op[d]
          /\ conn'[d] = conn[d]
      BY <1>2, <2>2
    <3>2. CallIs(pc[d], op[d], frame[d], multi[d])
          /\ Links(Ends(torn, pc[d]), pc[d], frame[d], multi[d], conn[d])
      BY CallFacts DEF Linked
    <3>3. Ends(torn, pc[d]) => Ends(torn', pc[d])
      BY DEF Ends
    <3>4. Links(Ends(torn', pc[d]), pc[d], frame[d], multi[d], conn[d])
      <4> DEFINE e == Ends(torn, pc[d])  e2 == Ends(torn', pc[d])
      <4>1. e \in BOOLEAN /\ e2 \in BOOLEAN /\ (e => e2)
        BY <3>3 DEF Ends
      <4> HIDE DEF e, e2
      <4>2. Links(e, pc[d], frame[d], multi[d], conn[d])
        BY <3>2 DEF e
      <4>3. Links(e2, pc[d], frame[d], multi[d], conn[d])
        BY <4>1, <4>2, LinksStay
      <4>. QED BY <4>3 DEF e2
    <3>5. CallIs(pc'[d], op'[d], frame'[d], multi'[d])
      BY <3>1, <3>2
    <3>6. Links(Ends(torn', pc'[d]), pc'[d], frame'[d], multi'[d], conn'[d])
      BY <3>1, <3>4
    <3>. QED BY <3>5, <3>6 DEF Linked
  <2>. QED BY <2>1, <2>2
<1>. QED BY <1>3, <1>4 DEF CallInv

\* The steps that neither open a transaction nor add to one.
Looking == {"write", "mget", "read", "readPrev", "list", "type", "fetch", "delKey"}

\* A request that is answered changes one server and one connection.
LEMMA AskServes ==
  ASSUME CallInv, NEW c \in Clients, pc[c] \in Busy, Ask(c)
  PROVE  /\ db' \in [Servers -> Server] /\ HostOf(c) \in Servers
         /\ db'[HostOf(c)] = RunAll(db[HostOf(c)], Executes(c))
         /\ \A h \in Servers : h # HostOf(c) => db'[h] = db[h]
         /\ conn' \in [Clients -> [Connections -> Connection]]
         /\ \A d \in Clients : d # c => conn'[d] = conn[d]
         /\ Request(c)[1] \in Connections
         /\ conn'[c] = [conn[c] EXCEPT ![Request(c)[1]] = Answered(c)]
<1> DEFINE h == HostOf(c)  r == Request(c)[1]  a == Answered(c)  s == RunAll(db[h], Executes(c))
<1>1. /\ Typed /\ CallIs(pc[c], op[c], frame[c], multi[c])
  BY CallFacts
<1>2. h \in Servers /\ r \in Connections /\ a \in Connection /\ Executes(c) \in Seq(Command)
  BY <1>1, ServedTyped
<1>3. s \in Server
  BY <1>1, <1>2, TypedFields, RunAllType
<1>4. db' = [db EXCEPT ![h] = s] /\ conn' = [conn EXCEPT ![c][r] = a]
  BY DEF Ask, Serve
<1>5. db \in [Servers -> Server] /\ conn \in [Clients -> [Connections -> Connection]]
  BY <1>1 DEF Typed
<1> HIDE DEF h, r, a, s
<1>6. db' \in [Servers -> Server] /\ db'[h] = s /\ \A g \in Servers : g # h => db'[g] = db[g]
  BY <1>2, <1>3, <1>4, <1>5
<1>7. /\ conn' \in [Clients -> [Connections -> Connection]]
      /\ \A d \in Clients : d # c => conn'[d] = conn[d]
      /\ conn'[c] = [conn[c] EXCEPT ![r] = a]
  BY <1>2, <1>4, <1>5
<1>. QED BY <1>2, <1>6, <1>7 DEF h, r, a, s

\* A read is given the value at the host it asks.
LEMMA FetchedIs ==
  ASSUME CallInv, NEW c \in Clients, pc[c] \in {"read", "readPrev", "type", "fetch"}
  PROVE  LET k == IF pc[c] \in {"read", "readPrev"} THEN op[c].keys[1] ELSE frame[c].key IN
         k \in Keys /\ Fetched(c) = At(HostOf(c), k) /\ Fetched(c) \in Value
<1> DEFINE o == op[c]  f == frame[c]  k == IF pc[c] \in {"read", "readPrev"} THEN o.keys[1] ELSE f.key
<1>1. /\ Typed /\ CallIs(pc[c], op[c], frame[c], multi[c]) /\ pc[c] \in Busy /\ Goes(c)
      /\ o \in Op
  BY CallFacts, RequestGoes, TypedFields DEF Busy, Steps
<1>2. ~Of(c).tx /\ HostOf(c) \in Servers /\ db[HostOf(c)] \in Server
  BY <1>1, NotOpen, ServedTyped, TypedFields
<1>3. k \in Keys /\ Asked(c)[1].keys[1] = k
  <2>1. CASE pc[c] \in {"read", "readPrev"}
    <3>1. Asked(c) = <<UserCommand(o, o.keys)>> /\ o.keys[1] \in Keys /\ o.m \in Writes \cup Reads
      BY <1>1, <2>1, RequestParts DEF Goes
    <3>2. UserCommand(o, o.keys).keys = o.keys
      BY <1>1, <3>1, OpFields, UserCommands
    <3>. QED BY <2>1, <3>1, <3>2
  <2>2. CASE pc[c] \in {"type", "fetch"}
    <3>1. f.key \in Keys
      BY <1>1, <2>2 DEF CallIs, Moves
    <3> DEFINE j == f.key
    <3>2. /\ Asked(c) \in {<<OnKeys("TYPE", <<j>>)>>, <<OnKeys("GET", <<j>>)>>}
          /\ {"TYPE", "GET"} \subseteq Names
      BY <2>2, RequestParts DEF Names
    <3>3. OnKeys("TYPE", <<j>>).keys = <<j>> /\ OnKeys("GET", <<j>>).keys = <<j>>
      BY DEF OnKeys
    <3>4. Asked(c)[1].keys = <<j>>
      BY <3>2, <3>3
    <3>. QED BY <2>2, <3>1, <3>4
  <2>. QED BY <2>1, <2>2
<1>4. Fetched(c) = db[HostOf(c)].data[k]
  <2> HIDE DEF k
  <2>. QED BY <1>2, <1>3 DEF Fetched
<1>5. Fetched(c) \in Value
  <2> HIDE DEF k
  <2>. QED BY <1>2, <1>3, <1>4 DEF Server
<1>. QED BY <1>3, <1>4, <1>5 DEF At

\* A step that sends to a connection outside MULTI.
LEMMA CallLooks ==
  ASSUME CallInv, NEW c \in Clients, Ask(c), pc[c] \in Looking, UNCHANGED <<full, multi, calls>>,
         op' \in [Clients -> Op], \A d \in Clients : d # c => op'[d] = op[d],
         got' \in [Clients -> Seq(Value)], torn \subseteq torn',
         NEW where \in Steps, NEW f \in Locals, Go(c, where, f),
         CallIs(where, op'[c], f, multi[c]),
         where \in MidMove => pc[c] \in MidMove /\ f.to = frame[c].to,
         pc[c] = "fetch" => where \in MidMove \/ Ends(torn', where),
         pc[c] = "delKey" => where = "moveExec" /\ f = frame[c]
  PROVE  CallInv'
<1> DEFINE e == Ends(torn, pc[c])  e2 == Ends(torn', where)
<1>1. Typed /\ Linked(c) /\ pc[c] \in Busy
  BY CallFacts DEF Looking, Busy, Steps
<1>2. db' \in [Servers -> Server] /\ conn' = conn
  BY <1>1, AskServes, Untouched DEF Looking
<1>3. e \in BOOLEAN /\ e2 \in BOOLEAN /\ ~e
  BY DEF Ends, Looking
<1>4. pc[c] \in MidMove => where \in MidMove \/ e2
  BY DEF MidMove, Looking
<1>5. /\ pc[c] \in {"delKey", "moveExec"} =>
           where \in {"delKey", "moveExec"} /\ f.success = frame[c].success
             /\ f.key = frame[c].key /\ f.to = frame[c].to
  BY DEF Looking
<1>6. Links(e, pc[c], frame[c], multi[c], conn[c])
  BY <1>1 DEF Linked
<1> HIDE DEF e, e2
<1>7. Links(e2, where, f, multi[c], conn[c])
  BY <1>3, <1>4, <1>5, <1>6, LinksStay
<1>8. Links(Ends(torn', where), where, f, multi'[c], conn'[c])
  BY <1>2, <1>7 DEF e2
<1>9. /\ full' \subseteq Servers /\ multi' \in [Clients -> ToSet(Hosts) \cup {None}]
      /\ conn' \in [Clients -> [Connections -> Connection]]
      /\ \A d \in Clients : d # c => conn'[d] = conn[d]
      /\ \A d \in Clients : d # c => multi'[d] = multi[d]
      /\ CallIs(where, op'[c], f, multi'[c])
  BY <1>1, <1>2 DEF Typed
<1>10. calls' \in Nat
  BY <1>1 DEF Typed
<1>. QED BY <1>2, <1>8, <1>9, <1>10, CallMoves

\* A step that sends nothing.
LEMMA CallThinks ==
  ASSUME CallInv, NEW c \in Clients, pc[c] \notin MidMove, UNCHANGED <<db, full, multi, conn>>,
         op' \in [Clients -> Op], \A d \in Clients : d # c => op'[d] = op[d],
         got' \in [Clients -> Seq(Value)], calls' \in Nat, torn \subseteq torn',
         NEW where \in Steps, NEW f \in Locals, Go(c, where, f),
         CallIs(where, op'[c], f, multi[c]), where \notin MidMove,
         Ends(torn, pc[c]) => Ends(torn', where)
  PROVE  CallInv'
<1> DEFINE e == Ends(torn, pc[c])  e2 == Ends(torn', where)
<1>1. Typed /\ Links(e, pc[c], frame[c], multi[c], conn[c])
  BY CallFacts DEF Linked
<1>2. e \in BOOLEAN /\ e2 \in BOOLEAN /\ (e => e2)
  BY DEF Ends
<1>3. pc[c] \notin {"delKey", "moveExec"}
  BY DEF MidMove
<1> HIDE DEF e, e2
<1>4. Links(e2, where, f, multi[c], conn[c])
  BY <1>1, <1>2, <1>3, LinksStay
<1>5. Links(Ends(torn', where), where, f, multi'[c], conn'[c])
  BY <1>4 DEF e2
<1>6. /\ full' \subseteq Servers /\ multi' \in [Clients -> ToSet(Hosts) \cup {None}]
      /\ conn' \in [Clients -> [Connections -> Connection]]
      /\ db' \in [Servers -> Server]
      /\ \A d \in Clients : d # c => conn'[d] = conn[d]
      /\ \A d \in Clients : d # c => multi'[d] = multi[d]
      /\ CallIs(where, op'[c], f, multi'[c])
  BY <1>1 DEF Typed
<1>. QED BY <1>5, <1>6, CallMoves

-----------------------------------------------------------------------------
(* mget(): the values of a host go to the places of its keys. *)

\* The values of a host, each at the place of its key.
PlacedWell(c, vs, h) ==
  /\ vs \in Seq(Value) /\ DOMAIN vs = DOMAIN op[c].keys
  /\ \A i \in DOMAIN vs :
       vs[i] = IF HomeOf(op[c].keys[i]) = h THEN At(h, op[c].keys[i])
               ELSE IF i \in DOMAIN got[c] THEN got[c][i] ELSE Nil

\* mget() puts the values of a host to the places of its keys.
LEMMA PlacedIs ==
  ASSUME CallInv, NEW c \in Clients, pc[c] = "mget", NEW ks, ks = Asked(c)[1].keys
  PROVE  PlacedWell(c, Placed(c, [i \in DOMAIN ks |-> At(HostOf(c), ks[i])]), Head(frame[c].nodes))
<1> DEFINE o == op[c]  all == o.keys  h == Head(frame[c].nodes)  T == {k \in Keys : HomeOf(k) = h}
           vs == [i \in DOMAIN ks |-> At(HostOf(c), ks[i])]
<1>1. /\ Typed /\ CallIs(pc[c], op[c], frame[c], multi[c]) /\ pc[c] \in Busy /\ Goes(c)
      /\ o \in Op /\ got[c] \in Seq(Value)
  BY CallFacts, RequestGoes, TypedFields DEF Busy, Steps
<1>2. all \in Seq(Keys) /\ KeysAt(h, all) \in Seq(Keys)
  BY <1>1, OpFields, KeysAtHost
<1>3. Asked(c) = <<UserCommand(o, KeysAt(h, all))>> /\ HostOf(c) = h /\ o.m \in Writes \cup Reads
  <2>1. Request(c)[1] = Ring(h) /\ o.m \in Writes \cup Reads
    BY <1>1 DEF Goes
  <2>2. HostOf(c) = h
    BY <2>1, ConnectionsApart DEF HostOf
  <2>. QED BY <2>1, <2>2, RequestParts
<1>4. ks = KeysAt(h, all)
  <2> DEFINE x == UserCommand(o, KeysAt(h, all))
  <2>1. x.keys = KeysAt(h, all)
    BY <1>1, <1>2, <1>3, UserCommands
  <2> HIDE DEF x
  <2>2. Asked(c)[1] = x
    BY <1>3 DEF x
  <2>. QED BY <2>1, <2>2
<1>5. Placing(ks, all, Keys, T, Len(all))
  <2>1. ks = Only(all, T)
    BY <1>4 DEF KeysAt
  <2> HIDE DEF T, all
  <2>. QED BY <1>2, <2>1, OnlyPlaces
<1>6. h \in Servers /\ db[h] \in Server /\ \A k \in Keys : At(h, k) \in Value
  <2>1. h \in Servers
    BY <1>1, <1>3, ServedTyped
  <2>2. db[h] \in Server
    BY <1>1, <2>1, TypedFields
  <2>. QED BY <2>1, <2>2 DEF At, Server
<1>7. /\ Len(all) \in Nat /\ DOMAIN all = 1 .. Len(all)
      /\ \A i \in 1 .. Len(all) : all[i] \in Keys
  BY <1>2
<1>8. ASSUME NEW i \in 1 .. Len(all), HomeOf(all[i]) = h
      PROVE  vs[Cardinality({j \in 1 .. i : HomeOf(all[j]) = h})] = At(h, all[i])
  <2>1. Among(all, T, i) \in DOMAIN ks /\ ks[Among(all, T, i)] = all[i]
    <3>1. all[i] \in T
      BY <1>7, <1>8
    <3>2. ks \in Seq(Keys) /\ DOMAIN ks = 1 .. Len(ks)
      BY <1>2, <1>4
    <3>. QED BY <1>5, <3>1, <3>2 DEF Placing
  <2>2. {j \in 1 .. i : HomeOf(all[j]) = h} = {j \in 1 .. i : all[j] \in T}
    BY <1>7
  <2>3. Cardinality({j \in 1 .. i : HomeOf(all[j]) = h}) = Among(all, T, i)
    BY <2>2 DEF Among
  <2> HIDE DEF T, all
  <2>4. vs[Among(all, T, i)] = At(HostOf(c), ks[Among(all, T, i)])
    BY <2>1
  <2>. QED BY <1>3, <2>1, <2>3, <2>4
<1> DEFINE value(i) == IF HomeOf(all[i]) # h THEN (IF i \in DOMAIN got[c] THEN got[c][i] ELSE Nil)
                       ELSE vs[Cardinality({j \in 1 .. i : HomeOf(all[j]) = h})]
           result == Placed(c, vs)
<1>9. result = [i \in 1 .. Len(all) |-> value(i)]
  BY <1>7 DEF Placed
<1>10. ASSUME NEW i \in 1 .. Len(all)
       PROVE  /\ value(i) = IF HomeOf(all[i]) = h THEN At(h, all[i])
                            ELSE IF i \in DOMAIN got[c] THEN got[c][i] ELSE Nil
              /\ value(i) \in Value
  <2>1. value(i) = IF HomeOf(all[i]) = h THEN At(h, all[i])
                   ELSE IF i \in DOMAIN got[c] THEN got[c][i] ELSE Nil
    BY <1>8
  <2>2. i \in DOMAIN got[c] => got[c][i] \in Value
    BY <1>1
  <2>3. At(h, all[i]) \in Value /\ Nil \in Value
    BY <1>6, <1>7, ValueFields
  <2> HIDE DEF value
  <2>. QED BY <2>1, <2>2, <2>3
<1> HIDE DEF value
<1>11. /\ result \in [1 .. Len(all) -> Value] /\ DOMAIN result = 1 .. Len(all)
       /\ \A i \in 1 .. Len(all) : result[i] = value(i)
  BY <1>9, <1>10
<1>12. result \in Seq(Value)
  <2>1. \A n \in Nat : \A S : [1 .. n -> S] \subseteq Seq(S)
    OBVIOUS
  <2> HIDE DEF result
  <2>. QED BY <1>7, <1>11, <2>1
<1> HIDE DEF result, vs
<1>13. PlacedWell(c, result, h)
  BY <1>7, <1>10, <1>11, <1>12 DEF PlacedWell
<1>. QED BY <1>13 DEF result, vs

-----------------------------------------------------------------------------
(* The calls of the application. *)

\* A call put together from its fields.
LEMMA OpOf ==
  ASSUME NEW m \in AllMethods \cup {"none"}, NEW ks \in Seq(Keys), NEW h \in ToSet(Hosts) \cup {None},
         NEW n \in Nat, NEW t \in {-1, 0, 1}, NEW o,
         o = [m |-> m, keys |-> ks, host |-> h, n |-> n, ttl |-> t]
  PROVE  o \in Op /\ o.m = m /\ o.keys = ks /\ o.n = n /\ o.ttl = t
<1> DEFINE S == Seq(Keys)
<1>1. Op = [m : AllMethods \cup {"none"}, keys : S, host : ToSet(Hosts) \cup {None},
            n : Nat, ttl : {-1, 0, 1}]
      /\ ks \in S
  BY DEF Op
<1> HIDE DEF S
<1>. QED BY <1>1

\* Calls without keys.
LEMMA NoOps ==
  ASSUME NEW m \in AllMethods \cup {"none"}, NEW h \in ToSet(Hosts) \cup {None}
  PROVE  /\ NoOp \in Op /\ NoOp.m = "none" /\ NoOp.keys = <<>>
         /\ [NoOp EXCEPT !.m = m] \in Op /\ [NoOp EXCEPT !.m = m].m = m
         /\ [NoOp EXCEPT !.m = m].keys = <<>>
         /\ [NoOp EXCEPT !.m = m, !.host = h] \in Op /\ [NoOp EXCEPT !.m = m, !.host = h].m = m
         /\ [NoOp EXCEPT !.m = m, !.host = h].keys = <<>>
<1> DEFINE none == <<>>  minus == -1  no == "none"  zero == 0  nowhere == None
           a == [NoOp EXCEPT !.m = m]  b == [NoOp EXCEPT !.m = m, !.host = h]
<1>1. /\ none \in Seq(Keys) /\ minus \in {-1, 0, 1} /\ no \in AllMethods \cup {"none"} /\ zero \in Nat
      /\ nowhere \in ToSet(Hosts) \cup {None}
  OBVIOUS
<1>2. NoOp = [m |-> no, keys |-> none, host |-> nowhere, n |-> zero, ttl |-> minus]
  BY DEF NoOp
<1> HIDE DEF none, minus, no, zero, nowhere
<1>3. a = [m |-> m, keys |-> none, host |-> nowhere, n |-> zero, ttl |-> minus]
  BY <1>2
<1>4. b = [m |-> m, keys |-> none, host |-> h, n |-> zero, ttl |-> minus]
  <2>1. b = [a EXCEPT !.host = h]
    OBVIOUS
  <2> HIDE DEF a, b
  <2>. QED BY <1>3, <2>1
<1> HIDE DEF a, b
<1>5. a \in Op /\ a.m = m /\ a.keys = none
  BY <1>1, <1>3, OpOf
<1>6. b \in Op /\ b.m = m /\ b.keys = none
  BY <1>1, <1>4, OpOf
<1>7. NoOp \in Op /\ NoOp.m = no /\ NoOp.keys = none
  BY <1>1, <1>2, OpOf
<1>. QED BY <1>5, <1>6, <1>7 DEF a, b, none, no

\* A method with keys is called.
LEMMA CallKeysKeep ==
  ASSUME CallInv, NEW c \in Clients, CallKeys(c)
  PROVE  CallInv'
<1>1. PICK o \in KeyCalls :
        /\ Enter(c, o) /\ Tear({}) /\ UNCHANGED multi
        /\ IF multi[c] # None
           THEN (\A k \in ToSet(o.keys) : HomeOf(k) = multi[c]) /\ Go(c, "forward", NoFrame)
           ELSE Go(c, CASE o.m \in Writes -> "write"
                        [] o.m = "mget"   -> "mget"
                        [] OTHER          -> "read",
                   [NoFrame EXCEPT !.nodes = NodesOf(o.keys)])
  BY DEF CallKeys
<1>2. /\ pc[c] = "idle" /\ torn = {} /\ torn \subseteq torn'
      /\ UNCHANGED <<db, full, conn, got, multi>>
      /\ op' = [op EXCEPT ![c] = o] /\ calls' = calls + 1
  BY <1>1 DEF Enter, CanCall, Tear
<1>3. Typed
  BY CallFacts
<1>4. PICK x \in Inputs, t \in Ttls :
        /\ x[1] \in Writes \cup Reads
        /\ o = [m |-> x[1], keys |-> x[2], host |-> None, n |-> calls + 1, ttl |-> t]
  BY DEF KeyCalls
<1>5. /\ x[1] \in AllMethods /\ x[2] \in Seq(Keys) /\ x[2] # <<>> /\ t \in {-1, 0, 1}
      /\ calls + 1 \in Nat
  <2>1. \A y \in Inputs : /\ y[1] \in AllMethods /\ y[2] \in Seq(Keys)
                          /\ y[1] \in Writes \cup Reads => y[2] # <<>>
    BY OptionAssumption
  <2>2. Ttls \subseteq {-1, 0, 1}
    BY OptionAssumption, Zenon
  <2>3. calls + 1 \in Nat
    BY <1>3 DEF Typed
  <2>4. x[1] \in AllMethods /\ x[2] \in Seq(Keys) /\ x[2] # <<>>
    BY <1>4, <2>1, Zenon
  <2>. QED BY <2>2, <2>3, <2>4
<1> DEFINE m == x[1]  ks == x[2]  n == calls + 1  nowhere == None
<1>6. o \in Op /\ o.m \in Writes \cup Reads /\ o.keys \in Seq(Keys) /\ o.keys # <<>>
  <2>1. /\ m \in AllMethods \cup {"none"} /\ ks \in Seq(Keys) /\ nowhere \in ToSet(Hosts) \cup {None}
        /\ n \in Nat /\ t \in {-1, 0, 1} /\ m \in Writes \cup Reads /\ ks # <<>>
        /\ o = [m |-> m, keys |-> ks, host |-> nowhere, n |-> n, ttl |-> t]
    BY <1>4, <1>5
  <2> HIDE DEF m, ks, n, nowhere
  <2>3. /\ m \in AllMethods \cup {"none"} /\ ks \in Seq(Keys) /\ nowhere \in ToSet(Hosts) \cup {None}
        /\ n \in Nat /\ t \in {-1, 0, 1}
        /\ o = [m |-> m, keys |-> ks, host |-> nowhere, n |-> n, ttl |-> t]
    BY <2>1
  <2>2. o \in Op /\ o.m = m /\ o.keys = ks
    BY <2>3, OpOf
  <2>. QED BY <2>1, <2>2
<1> HIDE DEF m, ks, n, nowhere
<1>7. op' \in [Clients -> Op] /\ op'[c] = o /\ \A d \in Clients : d # c => op'[d] = op[d]
  BY <1>2, <1>3, <1>6 DEF Typed
<1>8. got' \in [Clients -> Seq(Value)] /\ calls' \in Nat /\ pc[c] \notin MidMove /\ ~Ends(torn, pc[c])
  BY <1>2, <1>3 DEF Typed, MidMove, Ends
<1>9. CASE multi[c] # None
  <2>1. NoFrame \in Locals /\ "forward" \in Steps \ MidMove
    BY <1>3, TypedFields, LocalSteps DEF Fields, Steps, MidMove
  <2>2. CallIs("forward", o, NoFrame, multi[c])
    BY <1>1, <1>6, <1>9 DEF CallIs, Moves
  <2>3. Go(c, "forward", NoFrame) /\ CallIs("forward", op'[c], NoFrame, multi[c])
    BY <1>1, <1>7, <1>9, <2>2
  <2> DEFINE where == "forward"
  <2> HIDE DEF where
  <2>4. CallInv'
    BY <1>2, <1>7, <1>8, <2>1, <2>3, CallThinks DEF where
  <2>. QED BY <2>4
<1>10. CASE multi[c] = None
  <2> DEFINE where == CASE o.m \in Writes -> "write" [] o.m = "mget" -> "mget" [] OTHER -> "read"
             nodes == NodesOf(o.keys)
             f == [NoFrame EXCEPT !.nodes = nodes]
  <2>1. nodes \in Seq(Servers) /\ nodes # <<>> /\ ToSet(nodes) = {HomeOf(k) : k \in ToSet(o.keys)}
    BY <1>6, NodesOfKeys
  <2>2. Go(c, where, f)
    BY <1>1, <1>10
  <2>3. where \in Steps \ MidMove
    BY DEF Steps, MidMove
  <2>4. f \in Locals /\ f.nodes = nodes
    <3> HIDE DEF nodes
    <3>1. frame[c] \in Locals
      BY <1>3, TypedFields
    <3>2. Fields([NoFrame EXCEPT !.nodes = nodes], nodes, {}, None, None, None, -1, Nil, FALSE)
      BY <2>1, <3>1, LocalSteps
    <3>3. [NoFrame EXCEPT !.nodes = nodes] \in Locals /\ [NoFrame EXCEPT !.nodes = nodes].nodes = nodes
      BY <3>2 DEF Fields
    <3>. QED BY <3>3
  <2>5. /\ where \in {"write", "mget", "read"}
        /\ where = "write" => o.m \in Writes
        /\ where = "mget" => o.m \in {"mget"}
        /\ where = "read" => o.m \in {"get", "exists"}
    BY <1>6 DEF Writes, Reads
  <2> HIDE DEF where, f, nodes
  <2>6. CallIs(where, o, f, multi[c])
    <3>1. where \notin Moves /\ where \notin {"forward", "multi", "exec", "discard", "readPrev",
                                               "list", "scan", "store", "delKey"}
      BY <2>5 DEF Moves
    <3>. QED BY <1>6, <1>10, <2>1, <2>4, <2>5, <3>1 DEF CallIs
  <2>7. CallIs(where, op'[c], f, multi[c])
    BY <1>7, <2>6
  <2>. QED BY <1>2, <1>7, <1>8, <2>2, <2>3, <2>4, <2>7, CallThinks
<1>. QED BY <1>9, <1>10

\* _rehash() is called.
LEMMA CallRehashKeeps ==
  ASSUME CallInv, NEW c \in Clients, CallRehash(c)
  PROVE  CallInv'
<1> DEFINE o == [NoOp EXCEPT !.m = "_rehash"]
<1>1. /\ pc[c] = "idle" /\ torn = {} /\ torn \subseteq torn'
      /\ UNCHANGED <<db, full, conn, got, multi>>
      /\ op' = [op EXCEPT ![c] = o] /\ calls' = calls + 1
      /\ IF PrevHosts = <<>> THEN Go(c, "return", NoFrame)
         ELSE Go(c, "list", [NoFrame EXCEPT !.nodes = PrevHosts])
  BY DEF CallRehash, Enter, CanCall, Tear
<1>2. Typed /\ frame[c] \in Locals
  BY CallFacts, TypedFields
<1>3. o \in Op /\ o.m = "_rehash"
  <2> DEFINE m == "_rehash"  h == None
  <2>1. m \in AllMethods \cup {"none"} /\ h \in ToSet(Hosts) \cup {None}
    BY DEF AllMethods
  <2> HIDE DEF m, h
  <2>2. [NoOp EXCEPT !.m = m] \in Op /\ [NoOp EXCEPT !.m = m].m = m
    BY <2>1, NoOps
  <2>. QED BY <2>2 DEF m
<1> HIDE DEF o
<1>4. op' \in [Clients -> Op] /\ op'[c] = o /\ \A d \in Clients : d # c => op'[d] = op[d]
  BY <1>1, <1>2, <1>3 DEF Typed
<1>5. got' \in [Clients -> Seq(Value)] /\ calls' \in Nat /\ pc[c] \notin MidMove /\ ~Ends(torn, pc[c])
  BY <1>1, <1>2 DEF Typed, MidMove, Ends
<1>6. NoFrame \in Locals /\ PrevHosts \in Seq(Servers)
  <2>1. ToSet(PrevHosts) \subseteq Servers
    BY DEF Servers
  <2>2. PrevHosts \in Seq(Servers)
    BY <2>1, RingAssumption
  <2>. QED BY <1>2, <2>2, LocalSteps DEF Fields
<1>7. /\ [NoFrame EXCEPT !.nodes = PrevHosts] \in Locals
      /\ [NoFrame EXCEPT !.nodes = PrevHosts].nodes = PrevHosts
  <2> DEFINE s == PrevHosts
  <2>1. s \in Seq(Servers)
    BY <1>6
  <2> HIDE DEF s
  <2>2. Fields([NoFrame EXCEPT !.nodes = s], s, {}, None, None, None, -1, Nil, FALSE)
    BY <1>6, <2>1, LocalSteps
  <2>3. [NoFrame EXCEPT !.nodes = s] \in Locals /\ [NoFrame EXCEPT !.nodes = s].nodes = s
    BY <2>2 DEF Fields
  <2>. QED BY <2>3 DEF s
<1> DEFINE where == IF PrevHosts = <<>> THEN "return" ELSE "list"
           f == IF PrevHosts = <<>> THEN NoFrame ELSE [NoFrame EXCEPT !.nodes = PrevHosts]
<1>8. Go(c, where, f) /\ f \in Locals /\ where \in Steps \ MidMove
      /\ (where = "return" \/ (where = "list" /\ f.nodes = PrevHosts /\ PrevHosts # <<>>))
  BY <1>1, <1>6, <1>7 DEF Steps, MidMove
<1> HIDE DEF where, f
<1>9. CallIs(where, op'[c], f, multi[c])
  <2>1. where \notin {"forward", "multi", "exec", "discard", "write", "mget", "read", "readPrev",
                      "store", "delKey"} /\ where \notin Moves
        /\ op'[c].m \notin Writes \cup Reads /\ op'[c].m = "_rehash"
    BY <1>3, <1>4, <1>8 DEF Moves, Writes, Reads
  <2>2. where \in {"list", "scan"} => f.nodes # <<>> /\ ToSet(f.nodes) \subseteq ToSet(PrevHosts)
    BY <1>8
  <2>. QED BY <2>1, <2>2 DEF CallIs
<1>. QED BY <1>1, <1>4, <1>5, <1>8, <1>9, CallThinks

\* multi() is called.
LEMMA CallMultiKeeps ==
  ASSUME CallInv, NEW c \in Clients, CallMulti(c)
  PROVE  CallInv'
<1>1. PICK h \in ToSet(Hosts) :
        /\ Enter(c, [NoOp EXCEPT !.m = "multi", !.host = h])
        /\ multi' = [multi EXCEPT ![c] = h]
        /\ Tear(IF multi[c] \notin {None, h} THEN {"multiTwice"} ELSE {})
        /\ Go(c, "multi", NoFrame)
  BY DEF CallMulti
<1> DEFINE o == [NoOp EXCEPT !.m = "multi", !.host = h]
<1>2. /\ pc[c] = "idle" /\ torn = {} /\ torn \subseteq torn'
      /\ UNCHANGED <<db, full, conn, got>>
      /\ op' = [op EXCEPT ![c] = o] /\ calls' = calls + 1
      /\ multi[c] \notin {None, h} => torn' # {}
  BY <1>1 DEF Enter, CanCall, Tear
<1>3. Typed /\ frame[c] \in Locals /\ Linked(c)
  BY CallFacts, TypedFields
<1>4. o \in Op /\ o.m = "multi"
  <2> DEFINE m == "multi"
  <2>1. m \in AllMethods \cup {"none"} /\ h \in ToSet(Hosts) \cup {None}
    BY DEF AllMethods
  <2> HIDE DEF m
  <2>2. [NoOp EXCEPT !.m = m, !.host = h] \in Op /\ [NoOp EXCEPT !.m = m, !.host = h].m = m
    BY <2>1, NoOps
  <2>. QED BY <2>2 DEF m
<1> HIDE DEF o
<1>5. op' \in [Clients -> Op] /\ op'[c] = o /\ \A d \in Clients : d # c => op'[d] = op[d]
  BY <1>2, <1>3, <1>4 DEF Typed
<1>6. /\ got' \in [Clients -> Seq(Value)] /\ calls' \in Nat
      /\ conn' \in [Clients -> [Connections -> Connection]]
      /\ db' \in [Servers -> Server] /\ full' \subseteq Servers
      /\ multi' \in [Clients -> ToSet(Hosts) \cup {None}] /\ multi'[c] = h
      /\ \A d \in Clients : d # c => multi'[d] = multi[d]
      /\ \A d \in Clients : d # c => conn'[d] = conn[d]
  BY <1>1, <1>2, <1>3 DEF Typed
<1>7. NoFrame \in Locals
  BY <1>3, LocalSteps DEF Fields
<1> DEFINE where == "multi"
<1>8. where \in Steps /\ where = "multi" /\ Go(c, where, NoFrame)
  BY <1>1 DEF Steps
<1> HIDE DEF where
<1>9. CallIs(where, op'[c], NoFrame, multi'[c])
  <2>1. where \notin Moves /\ op'[c].m \notin Writes \cup Reads /\ h # None
    BY <1>4, <1>5, <1>8, RingsApart DEF Moves, Writes, Reads
  <2>. QED BY <1>6, <1>8, <2>1 DEF CallIs
<1>10. Links(Ends(torn', where), where, NoFrame, multi'[c], conn'[c])
  <2> DEFINE e2 == Ends(torn', where)  e == Ends(torn, pc[c])  p == pc[c]  cs == conn[c]  g == multi[c]
             f == frame[c]
  <2>1. /\ e \in BOOLEAN /\ e2 \in BOOLEAN /\ ~e /\ p = "idle" /\ g \in ToSet(Hosts) \cup {None}
        /\ g \notin {None, h} => e2
    BY <1>2, <1>3, <1>8, TypedFields DEF Ends
  <2>2. Links(e, p, f, g, cs)
    BY <1>3 DEF Linked
  <2>3. conn'[c] = cs /\ multi'[c] = h
    BY <1>2, <1>6
  <2> HIDE DEF e, e2, p, cs, g, f
  <2>4. Links(e2, where, NoFrame, g, cs)
    BY <1>8, <2>1, <2>2, LinksStay DEF MidMove
  <2>5. ASSUME NEW cn \in Connections, cs[cn].tx, ~e2 PROVE cn = Ring(h)
    <3>1. cn = Ring(g) /\ g \in {None, h}
      BY <1>8, <2>1, <2>4, <2>5 DEF Links, MidMove
    <3>. QED BY <3>1, RingsApart
  <2>6. Links(e2, where, NoFrame, h, cs)
    BY <2>4, <2>5 DEF Links
  <2>. QED BY <2>3, <2>6 DEF e2
<1>. QED BY <1>2, <1>5, <1>6, <1>7, <1>8, <1>9, <1>10, CallMoves

\* exec() or discard() is called.
LEMMA CallEndKeeps ==
  ASSUME CallInv, NEW c \in Clients, CallEnd(c)
  PROVE  CallInv'
<1>1. PICK m \in {"exec", "discard"} :
        /\ Enter(c, [NoOp EXCEPT !.m = m])
        /\ Tear({}) /\ UNCHANGED multi
        /\ Go(c, IF multi[c] = None THEN "return" ELSE m, NoFrame)
  BY DEF CallEnd
<1> DEFINE o == [NoOp EXCEPT !.m = m]  where == IF multi[c] = None THEN "return" ELSE m
<1>2. /\ pc[c] = "idle" /\ torn = {} /\ torn \subseteq torn'
      /\ UNCHANGED <<db, full, conn, got, multi>>
      /\ op' = [op EXCEPT ![c] = o] /\ calls' = calls + 1
  BY <1>1 DEF Enter, CanCall, Tear
<1>3. Typed /\ frame[c] \in Locals
  BY CallFacts, TypedFields
<1>4. o \in Op /\ o.m = m
  <2>1. m \in AllMethods \cup {"none"}
    BY DEF AllMethods
  <2>2. None \in ToSet(Hosts) \cup {None}
    OBVIOUS
  <2>. QED BY <2>1, <2>2, NoOps
<1> HIDE DEF o
<1>5. op' \in [Clients -> Op] /\ op'[c] = o /\ \A d \in Clients : d # c => op'[d] = op[d]
  BY <1>2, <1>3, <1>4 DEF Typed
<1>6. got' \in [Clients -> Seq(Value)] /\ calls' \in Nat /\ pc[c] \notin MidMove /\ ~Ends(torn, pc[c])
  BY <1>2, <1>3 DEF Typed, MidMove, Ends
<1>7. /\ NoFrame \in Locals /\ where \in Steps \ MidMove /\ Go(c, where, NoFrame)
      /\ where \in {"return", "exec", "discard"} /\ (where # "return" => multi[c] # None)
  BY <1>1, <1>3, LocalSteps DEF Fields, Steps, MidMove
<1> HIDE DEF where
<1>8. CallIs(where, op'[c], NoFrame, multi[c])
  <2>1. where \notin Moves /\ op'[c].m \notin Writes \cup Reads /\ op'[c].m # "_rehash"
    BY <1>4, <1>5, <1>7 DEF Moves, Writes, Reads
  <2>. QED BY <1>7, <2>1 DEF CallIs
<1>. QED BY <1>2, <1>5, <1>6, <1>7, <1>8, CallThinks

\* The method returns.
LEMMA ReturnKeepsCall ==
  ASSUME CallInv, NEW c \in Clients, Return(c)
  PROVE  CallInv'
<1>1. /\ pc[c] = "return" /\ torn' = torn /\ UNCHANGED <<db, full, conn, multi, calls>>
      /\ Go(c, "idle", NoFrame)
      /\ op' = [op EXCEPT ![c] = NoOp] /\ got' = [got EXCEPT ![c] = <<>>]
  BY DEF Return, Tear
<1>2. Typed /\ frame[c] \in Locals
  BY CallFacts, TypedFields
<1>3. NoOp \in Op /\ <<>> \in Seq(Value)
  <2> DEFINE m == "none"  h == None
  <2>1. m \in AllMethods \cup {"none"} /\ h \in ToSet(Hosts) \cup {None}
    OBVIOUS
  <2> HIDE DEF m, h
  <2>2. NoOp \in Op
    BY <2>1, NoOps
  <2>. QED BY <2>2
<1>4. op' \in [Clients -> Op] /\ \A d \in Clients : d # c => op'[d] = op[d]
  BY <1>1, <1>2, <1>3 DEF Typed
<1>5. got' \in [Clients -> Seq(Value)] /\ calls' \in Nat
  <2> DEFINE S == Seq(Value)  none == <<>>
  <2>1. none \in S /\ got \in [Clients -> S] /\ got' = [got EXCEPT ![c] = none] /\ calls' \in Nat
    BY <1>1, <1>2 DEF Typed
  <2> HIDE DEF S, none
  <2>2. got' \in [Clients -> S]
    BY <2>1
  <2>. QED BY <2>1, <2>2 DEF S
<1> DEFINE where == "idle"
<1>6. /\ NoFrame \in Locals /\ where \in Steps \ MidMove /\ Go(c, where, NoFrame)
      /\ where = "idle" /\ pc[c] \notin MidMove /\ (Ends(torn, pc[c]) => Ends(torn', where))
  BY <1>1, <1>2, LocalSteps DEF Fields, Steps, MidMove, Ends
<1> HIDE DEF where
<1>7. CallIs(where, op'[c], NoFrame, multi[c])
  <2>1. where \notin Moves
    BY <1>6 DEF Moves
  <2>. QED BY <1>6, <2>1 DEF CallIs
<1>. QED BY <1>1, <1>4, <1>5, <1>6, <1>7, CallThinks

\* The values of one call change.
LEMMA GotOne ==
  ASSUME Typed, NEW c \in Clients, NEW vs, vs \in Seq(Value), Gives(c, vs)
  PROVE  /\ got' \in [Clients -> Seq(Value)] /\ got'[c] = vs
         /\ \A d \in Clients : d # c => got'[d] = got[d]
<1> DEFINE S == Seq(Value)
<1>1. vs \in S /\ got \in [Clients -> S] /\ got' = [got EXCEPT ![c] = vs]
  BY DEF Typed, Gives
<1> HIDE DEF S
<1>2. got' \in [Clients -> S] /\ got'[c] = vs /\ \A d \in Clients : d # c => got'[d] = got[d]
  BY <1>1
<1>. QED BY <1>2 DEF S

\* Sequences of values.
LEMMA ValueSeqs == <<>> \in Seq(Value) /\ \A v \in Value : <<v>> \in Seq(Value)
<1> DEFINE C == Value
<1>1. <<>> \in Seq(C)
  OBVIOUS
<1>2. ASSUME NEW v \in C PROVE <<v>> \in Seq(C)
  <2> HIDE DEF C
  <2>. QED BY Pairs
<1>. QED BY <1>1, <1>2

\* The next host of a call.
LEMMA NextNodeIs ==
  ASSUME CallInv, NEW c \in Clients, NEW where \in {"write", "mget", "list"},
         pc[c] = where \/ (pc[c] = "scan" /\ where = "list"), NextNode(c, where)
  PROVE  \E w \in {"return", where}, f \in Locals :
           /\ Go(c, w, f) /\ CallIs(w, op[c], f, multi[c])
           /\ w = where => /\ f.nodes = Tail(frame[c].nodes) /\ f.nodes # <<>>
                           /\ f.keys = frame[c].keys /\ f.key = frame[c].key /\ f.item = frame[c].item
           /\ w = "return" => Len(frame[c].nodes) = 1
<1> DEFINE s == frame[c].nodes
<1>1. /\ Typed /\ CallIs(pc[c], op[c], frame[c], multi[c]) /\ frame[c] \in Locals
  BY CallFacts, TypedFields
<1>2. s \in Seq(Servers) /\ s # <<>>
  BY <1>1, LocalFields DEF CallIs
<1>3. Len(s) = 1 => Go(c, "return", NoFrame)
  BY DEF NextNode
<1>4. Len(s) # 1 => Go(c, where, [frame[c] EXCEPT !.nodes = Tail(s)])
  BY DEF NextNode
<1>5. CASE Len(s) = 1
  <2> DEFINE w == "return"
  <2>1. NoFrame \in Locals
    BY <1>1, LocalSteps DEF Fields
  <2>2. CallIs(w, op[c], NoFrame, multi[c])
    <3>1. w # "idle" /\ op[c].m \in Writes \cup Reads => op[c].keys # <<>>
      BY <1>1 DEF CallIs
    <3>2. w = "return" /\ "return" \notin Moves
      BY DEF Moves
    <3> HIDE DEF w
    <3>. QED BY <3>1, <3>2 DEF CallIs
  <2>. QED BY <1>3, <1>5, <2>1, <2>2
<1>6. CASE Len(s) # 1
  <2> DEFINE n == Tail(s)  f == [frame[c] EXCEPT !.nodes = n]
  <2>1. n \in Seq(Servers) /\ n # <<>> /\ ToSet(n) \subseteq ToSet(s)
    <3>1. n \in Seq(Servers) /\ ToSet(n) \subseteq ToSet(s)
      BY <1>2, FirstNode
    <3>2. Len(n) = Len(s) - 1 /\ Len(s) \in Nat /\ Len(s) > 1
      <4> DEFINE S == Servers
      <4>1. s \in Seq(S) /\ s # <<>> /\ Len(s) # 1
        BY <1>2, <1>6
      <4> HIDE DEF s, S
      <4>2. Len(s) \in Nat \ {0} /\ DOMAIN Tail(s) = 1 .. (Len(s) - 1) /\ Tail(s) \in Seq(S)
        BY <4>1
      <4>3. Len(Tail(s)) = Len(s) - 1
        BY <4>1, <4>2, LenProperties
      <4>. QED BY <4>1, <4>2, <4>3
    <3> HIDE DEF n, s
    <3>. QED BY <3>1, <3>2
  <2>2. Go(c, where, f)
    BY <1>4, <1>6
  <2> HIDE DEF n
  <2>3. f \in Locals /\ f.nodes = n /\ f.keys = frame[c].keys /\ f.key = frame[c].key
        /\ f.item = frame[c].item
    <3>1. \A y \in Seq(Servers) : Fields([frame[c] EXCEPT !.nodes = y], y, frame[c].keys, frame[c].key,
            frame[c].from, frame[c].to, frame[c].ttl, frame[c].item, frame[c].success)
      BY <1>1, LocalSteps
    <3>2. Fields(f, n, frame[c].keys, frame[c].key,
            frame[c].from, frame[c].to, frame[c].ttl, frame[c].item, frame[c].success)
      BY <2>1, <3>1
    <3>. QED BY <3>2 DEF Fields
  <2> HIDE DEF f
  <2>4. CallIs(where, op[c], f, multi[c])
    <3>1. where \notin Moves /\ pc[c] \notin Moves
      BY DEF Moves
    <3>2. where \in {"write", "mget"} => CallIs(where, op[c], frame[c], multi[c])
      BY <1>1
    <3>3. where = "list" => op[c].m = "_rehash" /\ ToSet(s) \subseteq ToSet(PrevHosts)
      BY <1>1 DEF CallIs
    <3>4. op[c].m \in Writes \cup Reads => op[c].keys # <<>>
      BY <1>1 DEF CallIs
    <3>. QED BY <2>1, <2>3, <3>1, <3>2, <3>3, <3>4 DEF CallIs
  <2>. QED BY <2>1, <2>2, <2>3, <2>4 DEF n
<1>. QED BY <1>5, <1>6

\* A call that is about to return.
LEMMA Returning ==
  ASSUME CallInv, NEW c \in Clients, pc[c] # "idle"
  PROVE  /\ \A f : CallIs("return", op[c], f, multi[c])
         /\ NoFrame \in Locals /\ "return" \in Steps \ MidMove
<1>1. /\ Typed /\ CallIs(pc[c], op[c], frame[c], multi[c]) /\ frame[c] \in Locals
  BY CallFacts, TypedFields
<1>2. ASSUME NEW f PROVE CallIs("return", op[c], f, multi[c])
  <2> DEFINE w == "return"
  <2>1. w # "idle" /\ op[c].m \in Writes \cup Reads => op[c].keys # <<>>
    BY <1>1 DEF CallIs
  <2>2. w = "return" /\ "return" \notin Moves
    BY DEF Moves
  <2> HIDE DEF w
  <2>3. CallIs(w, op[c], f, multi[c])
    BY <2>1, <2>2 DEF CallIs
  <2>. QED BY <2>2, <2>3
<1>3. NoFrame \in Locals
  BY <1>1, LocalSteps DEF Fields
<1>. QED BY <1>2, <1>3 DEF Steps, MidMove

\* What steps within a call leave alone.
LEMMA Unchanging ==
  ASSUME Typed, Quiet
  PROVE  /\ UNCHANGED <<full, multi, calls>>
         /\ op' \in [Clients -> Op] /\ \A c, d \in Clients : d # c => op'[d] = op[d]
         /\ \A c \in Clients : op'[c] = op[c]
BY DEF Typed, Quiet

\* A host of a write is called.
LEMMA WriteKeepsCall ==
  ASSUME CallInv, NEW c \in Clients, Write(c)
  PROVE  CallInv'
<1>1. /\ pc[c] = "write" /\ Ask(c) /\ torn \subseteq torn' /\ Quiet /\ got' = got
      /\ Go(c, "return", NoFrame) \/ NextNode(c, "write")
  BY DEF Write, Tear
<1>2. /\ Typed /\ op' \in [Clients -> Op] /\ UNCHANGED <<full, multi, calls>>
      /\ (\A d \in Clients : d # c => op'[d] = op[d]) /\ op'[c] = op[c]
  BY <1>1, CallFacts, Unchanging
<1>3. \E w \in {"return", "write"}, f \in Locals : Go(c, w, f) /\ CallIs(w, op[c], f, multi[c])
  <2>1. CASE Go(c, "return", NoFrame)
    BY <1>1, <2>1, Returning
  <2>2. CASE NextNode(c, "write")
    BY <1>1, <2>2, NextNodeIs
  <2>. QED BY <1>1, <2>1, <2>2
<1>4. PICK w \in {"return", "write"}, f \in Locals : Go(c, w, f) /\ CallIs(w, op[c], f, multi[c])
  BY <1>3
<1>5. w \in Steps \ MidMove /\ pc[c] \in Looking /\ got' \in [Clients -> Seq(Value)]
      /\ CallIs(w, op'[c], f, multi[c])
  BY <1>1, <1>2, <1>4 DEF Steps, MidMove, Looking, Typed
<1>. QED BY <1>1, <1>2, <1>4, <1>5, CallLooks

\* A host of an mget() is called.
LEMMA MgetKeepsCall ==
  ASSUME CallInv, NEW c \in Clients, Mget(c)
  PROVE  CallInv'
<1>0. pc[c] = "mget" /\ ~Of(c).tx
  <2>1. pc[c] = "mget"
    BY DEF Mget
  <2>. QED BY <2>1, NotOpen
<1> DEFINE ks == Asked(c)[1].keys  vs == Placed(c, [i \in DOMAIN ks |-> At(HostOf(c), ks[i])])
<1>1. /\ Ask(c) /\ torn \subseteq torn' /\ Quiet /\ Gives(c, vs) /\ NextNode(c, "mget")
  BY <1>0 DEF Mget, Tear
<1>2. /\ Typed /\ op' \in [Clients -> Op] /\ UNCHANGED <<full, multi, calls>>
      /\ (\A d \in Clients : d # c => op'[d] = op[d]) /\ op'[c] = op[c]
  BY <1>1, CallFacts, Unchanging
<1>3. vs \in Seq(Value)
  BY <1>0, PlacedIs DEF PlacedWell
<1> HIDE DEF vs
<1>4. got' \in [Clients -> Seq(Value)]
  BY <1>1, <1>2, <1>3, GotOne
<1>5. PICK w \in {"return", "mget"}, f \in Locals : Go(c, w, f) /\ CallIs(w, op[c], f, multi[c])
  BY <1>0, <1>1, NextNodeIs
<1>6. w \in Steps \ MidMove /\ pc[c] \in Looking /\ CallIs(w, op'[c], f, multi[c])
  BY <1>0, <1>2, <1>5 DEF Steps, MidMove, Looking
<1>. QED BY <1>0, <1>1, <1>2, <1>4, <1>5, <1>6, CallLooks

\* The ring is read.
LEMMA ReadKeepsCall ==
  ASSUME CallInv, NEW c \in Clients, Read(c)
  PROVE  CallInv'
<1>0. pc[c] = "read" /\ ~Of(c).tx
  <2>1. pc[c] = "read"
    BY DEF Read
  <2>. QED BY <2>1, NotOpen
<1>1. /\ Ask(c) /\ torn \subseteq torn' /\ Quiet
      /\ \/ /\ PrevHosts # <<>> /\ op[c].m # "exists" /\ Go(c, "readPrev", frame[c]) /\ got' = got
         \/ Go(c, "return", NoFrame) /\ Gives(c, <<Fetched(c)>>)
  BY <1>0 DEF Read, Tear, ra_call_failed
<1>2. /\ Typed /\ op' \in [Clients -> Op] /\ UNCHANGED <<full, multi, calls>>
      /\ (\A d \in Clients : d # c => op'[d] = op[d]) /\ op'[c] = op[c]
      /\ CallIs(pc[c], op[c], frame[c], multi[c]) /\ frame[c] \in Locals
  BY <1>1, CallFacts, Unchanging, TypedFields
<1>3. got' \in [Clients -> Seq(Value)]
  <2>1. CASE got' = got
    BY <1>2, <2>1 DEF Typed
  <2>2. CASE Gives(c, <<Fetched(c)>>)
    <3> DEFINE x == Fetched(c)  vs == <<x>>
    <3>1. x \in Value
      BY <1>0, FetchedIs
    <3>2. vs \in Seq(Value) /\ Gives(c, vs)
      BY <2>2, <3>1, ValueSeqs
    <3> HIDE DEF vs
    <3>. QED BY <1>2, <3>2, GotOne
  <2>. QED BY <1>1, <2>1, <2>2
<1>4. \E w \in {"return", "readPrev"}, f \in Locals : Go(c, w, f) /\ CallIs(w, op[c], f, multi[c])
  <2>1. CASE Go(c, "return", NoFrame)
    BY <1>0, <2>1, Returning
  <2>2. CASE PrevHosts # <<>> /\ op[c].m # "exists" /\ Go(c, "readPrev", frame[c])
    <3> DEFINE w == "readPrev"
    <3>1. w = "readPrev" /\ w \notin Moves
      BY DEF Moves
    <3>2. op[c].m = "get" /\ multi[c] = None /\ (op[c].m \in Writes \cup Reads => op[c].keys # <<>>)
      BY <1>0, <1>2, <2>2 DEF CallIs
    <3> HIDE DEF w
    <3>3. CallIs(w, op[c], frame[c], multi[c])
      BY <2>2, <3>1, <3>2 DEF CallIs
    <3>. QED BY <1>2, <2>2, <3>1, <3>3
  <2>. QED BY <1>1, <2>1, <2>2
<1>5. PICK w \in {"return", "readPrev"}, f \in Locals : Go(c, w, f) /\ CallIs(w, op[c], f, multi[c])
  BY <1>4
<1>6. w \in Steps \ MidMove /\ pc[c] \in Looking /\ CallIs(w, op'[c], f, multi[c])
  BY <1>0, <1>2, <1>5 DEF Steps, MidMove, Looking
<1>. QED BY <1>0, <1>1, <1>2, <1>3, <1>5, <1>6, CallLooks

\* The previous ring is read.
LEMMA ReadPrevKeepsCall ==
  ASSUME CallInv, NEW c \in Clients, ReadPrev(c)
  PROVE  CallInv'
<1> DEFINE k == op[c].keys[1]  g == Moving(frame[c], k, Prev(PrevOf(k)), Ring(HomeOf(k)))
<1>1. /\ pc[c] = "readPrev" /\ Ask(c) /\ torn \subseteq torn' /\ Quiet /\ Gives(c, <<Fetched(c)>>)
      /\ Go(c, "type", g) \/ Go(c, "return", NoFrame)
  BY DEF ReadPrev, Tear
<1>2. /\ Typed /\ op' \in [Clients -> Op] /\ UNCHANGED <<full, multi, calls>>
      /\ (\A d \in Clients : d # c => op'[d] = op[d]) /\ op'[c] = op[c]
      /\ CallIs(pc[c], op[c], frame[c], multi[c]) /\ frame[c] \in Locals /\ Goes(c)
  BY <1>1, CallFacts, Unchanging, TypedFields, RequestGoes
<1>3. got' \in [Clients -> Seq(Value)]
  <2> DEFINE x == Fetched(c)  vs == <<x>>
  <2>1. x \in Value
    BY <1>1, FetchedIs
  <2>2. vs \in Seq(Value) /\ Gives(c, vs)
    BY <1>1, <2>1, ValueSeqs
  <2> HIDE DEF vs
  <2>. QED BY <1>2, <2>2, GotOne
<1>4. k \in Keys /\ PrevHosts # <<>> /\ op[c].m = "get" /\ op[c].keys # <<>>
  BY <1>1, <1>2 DEF CallIs, Goes
<1>5. Prev(PrevOf(k)) \in Connections /\ Ring(HomeOf(k)) \in Connections
  BY <1>4, Homes, ConnectionsApart
<1>6. \E w \in {"return", "type"}, f \in Locals : Go(c, w, f) /\ CallIs(w, op[c], f, multi[c])
  <2>1. CASE Go(c, "return", NoFrame)
    BY <1>1, <2>1, Returning
  <2>2. CASE Go(c, "type", g)
    <3> DEFINE w == "type"
    <3>1. w = "type"
      OBVIOUS
    <3> HIDE DEF k
    <3>2. g \in Locals /\ g.key = k /\ g.from = Prev(PrevOf(k)) /\ g.to = Ring(HomeOf(k))
      <4> DEFINE from == Prev(PrevOf(k))  to == Ring(HomeOf(k))
      <4> HIDE DEF from, to
      <4>0. from \in Connections \cup {None} /\ to \in Connections \cup {None} /\ k \in Keys \cup {None}
        BY <1>4, <1>5 DEF from, to
      <4>1. Fields(Moving(frame[c], k, from, to), frame[c].nodes, frame[c].keys, k, from, to, -1, Nil, FALSE)
        BY <1>2, <4>0, LocalSteps
      <4>. QED BY <4>1 DEF Fields, from, to
    <3> HIDE DEF g, w
    <3>3. CallIs(w, op[c], g, multi[c])
      BY <1>4, <3>1, <3>2 DEF CallIs, k
    <3>. QED BY <2>2, <3>1, <3>2, <3>3
  <2>. QED BY <1>1, <2>1, <2>2
<1> HIDE DEF k, g
<1>7. PICK w \in {"return", "type"}, f \in Locals : Go(c, w, f) /\ CallIs(w, op[c], f, multi[c])
  BY <1>6
<1>8. w \in Steps \ MidMove /\ pc[c] \in Looking /\ CallIs(w, op'[c], f, multi[c])
  BY <1>1, <1>2, <1>7 DEF Steps, MidMove, Looking
<1>. QED BY <1>1, <1>2, <1>3, <1>7, <1>8, CallLooks

\* _rehash() asks a host for its keys.
LEMMA ListKeepsCall ==
  ASSUME CallInv, NEW c \in Clients, List(c)
  PROVE  CallInv'
<1> DEFINE s == db[HostOf(c)]  ks == IF Index THEN s.index ELSE {k \in Keys : s.data[k] # Nil}
           g == [frame[c] EXCEPT !.keys = ks]
<1>1. /\ pc[c] = "list" /\ Ask(c) /\ torn \subseteq torn' /\ Quiet /\ got' = got
      /\ Go(c, "scan", g)
  BY DEF List, Tear
<1>2. /\ Typed /\ op' \in [Clients -> Op] /\ UNCHANGED <<full, multi, calls>>
      /\ (\A d \in Clients : d # c => op'[d] = op[d]) /\ op'[c] = op[c]
      /\ CallIs(pc[c], op[c], frame[c], multi[c]) /\ frame[c] \in Locals
  BY <1>1, CallFacts, Unchanging, TypedFields
<1>3. ks \in SUBSET Keys
  <2>1. HostOf(c) \in Servers
    BY <1>1, <1>2, ServedTyped DEF Busy, Steps
  <2>2. s \in Server
    BY <1>2, <2>1, TypedFields
  <2> HIDE DEF s
  <2>. QED BY <2>2 DEF Server
<1> HIDE DEF ks
<1>4. g \in Locals /\ g.nodes = frame[c].nodes
  <2>1. Fields(g, frame[c].nodes, ks, frame[c].key, frame[c].from, frame[c].to, frame[c].ttl,
               frame[c].item, frame[c].success)
    BY <1>2, <1>3, LocalSteps
  <2>. QED BY <2>1 DEF Fields
<1> HIDE DEF g
<1> DEFINE w == "scan"
<1>5. /\ w = "scan" /\ w \in Steps \ MidMove /\ pc[c] \in Looking /\ got' \in [Clients -> Seq(Value)]
      /\ Go(c, w, g) /\ w \notin Moves
  BY <1>1, <1>2 DEF Steps, MidMove, Looking, Typed, Moves
<1> HIDE DEF w
<1>6. CallIs(w, op'[c], g, multi[c])
  BY <1>1, <1>2, <1>4, <1>5 DEF CallIs
<1>. QED BY <1>1, <1>2, <1>4, <1>5, <1>6, CallLooks

\* A key of the host that the loops of _rehash() are at.
LEMMA ScanTakes ==
  ASSUME CallInv, NEW c \in Clients, pc[c] = "scan", NEW k \in frame[c].keys
  PROVE  LET h  == Head(frame[c].nodes)
             g  == [Moving(frame[c], k, Prev(h), Ring(HomeOf(k))) EXCEPT !.keys = frame[c].keys \ {k}]
             g0 == [frame[c] EXCEPT !.keys = @ \ {k}]
         IN /\ g0 \in Locals /\ g0.nodes = frame[c].nodes /\ g0.keys = frame[c].keys \ {k}
            /\ CallIs("scan", op[c], g0, multi[c])
            /\ Fields(g, frame[c].nodes, frame[c].keys \ {k}, k, Prev(h), Ring(HomeOf(k)), -1, Nil, FALSE)
            /\ HomeOf(k) # h => CallIs("type", op[c], g, multi[c])
<1> DEFINE f == frame[c]  h == Head(f.nodes)  ks == f.keys \ {k}  o == op[c]
           from == Prev(h)  to == Ring(HomeOf(k))
           g == [Moving(f, k, from, to) EXCEPT !.keys = ks]  g0 == [f EXCEPT !.keys = ks]
<1>1. Typed /\ CallIs(pc[c], o, f, multi[c]) /\ f \in Locals
  BY CallFacts, TypedFields
<1>2. f.keys \subseteq Keys /\ k \in Keys /\ ks \in SUBSET Keys /\ f.nodes \in Seq(Servers)
  BY <1>1, LocalFields
<1>3. o.m = "_rehash" /\ f.nodes # <<>> /\ ToSet(f.nodes) \subseteq ToSet(PrevHosts)
  BY <1>1 DEF CallIs
<1>4. h \in ToSet(PrevHosts) /\ PrevHosts # <<>>
  <2>1. h \in ToSet(PrevHosts)
    BY <1>2, <1>3, FirstNode
  <2>2. ToSet(<<>>) = {}
    BY DEF ToSet
  <2>. QED BY <2>1, <2>2
<1>5. from \in Connections /\ to \in Connections
  BY <1>2, <1>4, Homes, ConnectionsApart
<1>6. Fields(g0, f.nodes, ks, f.key, f.from, f.to, f.ttl, f.item, f.success)
  <2> HIDE DEF ks
  <2>. QED BY <1>1, <1>2, LocalSteps
<1>7. Fields(g, f.nodes, ks, k, from, to, -1, Nil, FALSE)
  <2> HIDE DEF ks, from, to, f
  <2>. QED BY <1>1, <1>2, <1>5, LocalSteps
<1>8. CallIs("scan", o, g0, multi[c])
  <2> DEFINE w == "scan"
  <2>1. w = "scan" /\ w \notin Moves /\ g0.nodes = f.nodes /\ o.m \notin Writes \cup Reads
    BY <1>3, <1>6 DEF Moves, Fields, Writes, Reads
  <2> HIDE DEF w, g0
  <2>2. CallIs(w, o, g0, multi[c])
    BY <1>3, <2>1 DEF CallIs
  <2>. QED BY <2>2 DEF w
<1>9. HomeOf(k) # h => CallIs("type", o, g, multi[c])
  <2> DEFINE w == "type"
  <2>1. /\ w = "type" /\ g.nodes = f.nodes /\ o.m \notin Writes \cup Reads
        /\ g.key = k /\ g.from = Prev(h) /\ g.to = Ring(HomeOf(k))
    BY <1>3, <1>7 DEF Fields, Writes, Reads
  <2> HIDE DEF w, g
  <2>2. HomeOf(k) # h => CallIs(w, o, g, multi[c])
    BY <1>2, <1>3, <1>4, <2>1 DEF CallIs
  <2>. QED BY <2>2 DEF w
<1>10. g0 \in Locals /\ g0.nodes = f.nodes /\ g0.keys = ks
  BY <1>6 DEF Fields
<1>. QED BY <1>7, <1>8, <1>9, <1>10

\* _rehash() goes on to a key or a host.
LEMMA ScanKeepsCall ==
  ASSUME CallInv, NEW c \in Clients, Scan(c)
  PROVE  CallInv'
<1> DEFINE f == frame[c]
<1>1. /\ pc[c] = "scan" /\ torn \subseteq torn' /\ Quiet /\ UNCHANGED <<db, conn, got>>
      /\ \/ \E k \in f.keys :
             IF HomeOf(k) = Head(f.nodes) THEN Go(c, "scan", [f EXCEPT !.keys = @ \ {k}])
             ELSE Go(c, "type", [Moving(f, k, Prev(Head(f.nodes)), Ring(HomeOf(k)))
                                  EXCEPT !.keys = f.keys \ {k}])
         \/ NextNode(c, "list")
  <2>1. \A k : Moving(f, k, Prev(Head(f.nodes)), Ring(HomeOf(k))).keys = f.keys
    BY DEF Moving
  <2>. QED BY <2>1 DEF Scan, Tear
<1>2. /\ Typed /\ op' \in [Clients -> Op] /\ UNCHANGED <<full, multi, calls>>
      /\ (\A d \in Clients : d # c => op'[d] = op[d]) /\ op'[c] = op[c]
  BY <1>1, CallFacts, Unchanging
<1>3. \E w \in {"scan", "type", "list", "return"}, g \in Locals :
         Go(c, w, g) /\ CallIs(w, op[c], g, multi[c])
  <2>1. ASSUME NEW k \in f.keys, HomeOf(k) = Head(f.nodes), Go(c, "scan", [f EXCEPT !.keys = @ \ {k}])
        PROVE  \E w \in {"scan", "type", "list", "return"}, g \in Locals :
                 Go(c, w, g) /\ CallIs(w, op[c], g, multi[c])
    BY <1>1, <2>1, ScanTakes
  <2>2. ASSUME NEW k \in f.keys, HomeOf(k) # Head(f.nodes),
               Go(c, "type", [Moving(f, k, Prev(Head(f.nodes)), Ring(HomeOf(k)))
                               EXCEPT !.keys = f.keys \ {k}])
        PROVE  \E w \in {"scan", "type", "list", "return"}, g \in Locals :
                 Go(c, w, g) /\ CallIs(w, op[c], g, multi[c])
    BY <1>1, <2>2, ScanTakes DEF Fields
  <2>3. CASE NextNode(c, "list")
    BY <1>1, <2>3, NextNodeIs
  <2>. QED BY <1>1, <2>1, <2>2, <2>3
<1>4. PICK w \in {"scan", "type", "list", "return"}, g \in Locals :
         Go(c, w, g) /\ CallIs(w, op[c], g, multi[c])
  BY <1>3
<1>5. /\ w \in Steps \ MidMove /\ pc[c] \notin MidMove /\ got' \in [Clients -> Seq(Value)]
      /\ calls' \in Nat /\ ~Ends(torn, pc[c]) /\ CallIs(w, op'[c], g, multi[c])
  BY <1>1, <1>2, <1>4 DEF Steps, MidMove, Typed, Ends
<1>. QED BY <1>1, <1>2, <1>4, <1>5, CallThinks

\* The connections but one are as they should be between calls.
OthersFit(cs, r, e, h) == \A cn \in Connections : cn # r /\ cs[cn].tx /\ ~e => cn = Ring(h)
Without(cs, r) == [cs EXCEPT ![r] = Atomic]

\* A connection leaves MULTI, or is lost.
LEMMA LinksClose ==
  ASSUME NEW e \in BOOLEAN, NEW p, NEW f, NEW h, NEW cs \in [Connections -> Connection],
         Links(e, p, f, h, cs), NEW r \in Connections, NEW ds, ds = Without(cs, r),
         NEW e2 \in BOOLEAN, NEW p2, NEW f2, NEW h2, e => e2, p2 \notin MidMove,
         OthersFit(cs, r, e2, h2),
         p \in {"delKey", "moveExec"} => e2 \/ r = f.to
  PROVE  Links(e2, p2, f2, h2, ds)
<1>1. ds[r] = Atomic /\ \A cn \in Connections : cn # r => ds[cn] = cs[cn]
  BY DEF Without
<1>2. ASSUME NEW cn \in Connections
      PROVE  /\ ~ds[cn].tx => ds[cn].queue = <<>>
             /\ ds[cn].tx => \E g \in ToSet(Hosts) : cn = Ring(g)
             /\ ds[cn].tx /\ ~e2 => cn = Ring(h2) \/ (p2 \in MidMove /\ cn = f2.to)
             /\ Queued(e2, p2, f2, cn, ds[cn].queue)
  <2>1. CASE cn = r
    <3> DEFINE a == Atomic  q == Atomic.queue
    <3>1. a.tx = FALSE /\ q = <<>> /\ Len(q) = 0
      BY DEF Atomic
    <3>2. Queued(e2, p2, f2, cn, q)
      BY <3>1 DEF Queued
    <3>. QED BY <1>1, <2>1, <3>1, <3>2
  <2>2. CASE cn # r
    <3>1. /\ ~cs[cn].tx => cs[cn].queue = <<>>
          /\ cs[cn].tx => \E g \in ToSet(Hosts) : cn = Ring(g)
          /\ Queued(e, p, f, cn, cs[cn].queue)
      BY DEF Links
    <3>2. ASSUME NEW cmd, Fits(e, p, f, cn, cmd) PROVE Fits(e2, p2, f2, cn, cmd)
      BY <2>2, <3>2 DEF Fits
    <3>3. Queued(e2, p2, f2, cn, cs[cn].queue)
      BY <3>1, <3>2 DEF Queued
    <3>. QED BY <1>1, <2>2, <3>1, <3>3 DEF OthersFit
  <2>. QED BY <2>1, <2>2
<1>. QED BY <1>2 DEF Links

\* A connection of the ring enters MULTI.
LEMMA LinksOpen ==
  ASSUME NEW e \in BOOLEAN, NEW p, NEW f, NEW h, NEW cs \in [Connections -> Connection],
         Links(e, p, f, h, cs), NEW g \in ToSet(Hosts), NEW r \in Connections, r = Ring(g),
         NEW ds, ds = [cs EXCEPT ![r] = [cs[r] EXCEPT !.tx = TRUE]],
         NEW e2 \in BOOLEAN, NEW p2, NEW f2, e => e2, p \notin MidMove,
         p2 \in MidMove => f2.to = r, p2 \notin MidMove => g = h
  PROVE  Links(e2, p2, f2, h, ds)
<1>1. /\ ds[r].tx = TRUE /\ ds[r].queue = cs[r].queue
      /\ \A cn \in Connections : cn # r => ds[cn] = cs[cn]
  <2> DEFINE yes == TRUE  a == [cs[r] EXCEPT !.tx = yes]
  <2>1. yes \in BOOLEAN /\ cs[r] \in Connection
    OBVIOUS
  <2> HIDE DEF yes
  <2>2. a.tx = yes /\ a.queue = cs[r].queue
    BY <2>1, ConnectionFields
  <2>3. ds = [cs EXCEPT ![r] = a]
    BY DEF yes
  <2> HIDE DEF a
  <2>4. ds[r] = a /\ \A cn \in Connections : cn # r => ds[cn] = cs[cn]
    BY <2>3
  <2>. QED BY <2>2, <2>4 DEF yes
<1>2. ASSUME NEW cn \in Connections
      PROVE  /\ ~ds[cn].tx => ds[cn].queue = <<>>
             /\ ds[cn].tx => \E x \in ToSet(Hosts) : cn = Ring(x)
             /\ ds[cn].tx /\ ~e2 => cn = Ring(h) \/ (p2 \in MidMove /\ cn = f2.to)
             /\ Queued(e2, p2, f2, cn, ds[cn].queue)
  <2>1. /\ ~cs[cn].tx => cs[cn].queue = <<>>
        /\ cs[cn].tx => \E x \in ToSet(Hosts) : cn = Ring(x)
        /\ cs[cn].tx /\ ~e => cn = Ring(h)
        /\ Queued(e, p, f, cn, cs[cn].queue)
    BY DEF Links
  <2>2. ASSUME NEW cmd, Fits(e, p, f, cn, cmd) PROVE Fits(e2, p2, f2, cn, cmd)
    BY <2>2 DEF Fits, MidMove
  <2>3. Queued(e2, p2, f2, cn, ds[cn].queue)
    BY <1>1, <2>1, <2>2 DEF Queued
  <2>4. CASE cn = r
    BY <1>1, <2>3, <2>4
  <2>5. CASE cn # r
    BY <1>1, <2>1, <2>3, <2>5
  <2>. QED BY <2>4, <2>5
<1>3. p2 \in MidMove => ds[f2.to].tx
  BY <1>1
<1>. QED BY <1>2, <1>3 DEF Links

\* The connections with commands sent on one of them, which is in MULTI.
WithQueued(cs, r, a) == [cs EXCEPT ![r] = [cs[r] EXCEPT !.queue = cs[r].queue \o a]]

\* Commands are sent in MULTI.
LEMMA LinksSend ==
  ASSUME NEW e \in BOOLEAN, NEW p, NEW f, NEW h, NEW cs \in [Connections -> Connection],
         Links(e, p, f, h, cs), NEW r \in Connections, cs[r].tx, NEW a \in Seq(Command),
         NEW ds, ds = WithQueued(cs, r, a),
         Queued(e, p, f, r, a), p \in MidMove => f.to \in Connections
  PROVE  Links(e, p, f, h, ds)
<1> DEFINE q == cs[r].queue  more == q \o a  C == Command  x == [cs[r] EXCEPT !.queue = more]
<1>1. cs[r] \in Connection /\ q \in Seq(C) /\ a \in Seq(C)
  BY ConnectionFields
<1>2. /\ more \in Seq(C) /\ Len(more) = Len(q) + Len(a) /\ Len(q) \in Nat /\ Len(a) \in Nat
      /\ \A i \in 1 .. Len(q) : more[i] = q[i]
      /\ \A i \in 1 .. Len(a) : more[Len(q) + i] = a[i]
  <2> HIDE DEF q, C
  <2>. QED BY <1>1
<1>3. ds = [cs EXCEPT ![r] = x]
  BY DEF WithQueued
<1>4. x.queue = more /\ x.tx = cs[r].tx
  <2>1. more \in Seq(Command) /\ cs[r] \in Connection
    BY <1>1, <1>2
  <2> HIDE DEF more
  <2> DEFINE y == cs[r]
  <2>2. x = [y EXCEPT !.queue = more] /\ y \in Connection
    BY <2>1
  <2> HIDE DEF y
  <2>3. [y EXCEPT !.queue = more].tx = y.tx /\ [y EXCEPT !.queue = more].queue = more
    BY <2>1, <2>2, ConnectionFields
  <2>. QED BY <2>2, <2>3 DEF y
<1>5. Queued(e, p, f, r, more)
  <2>1. Queued(e, p, f, r, q)
    BY DEF Links
  <2> HIDE DEF more, q
  <2>2. ASSUME NEW i \in 1 .. Len(more) PROVE Fits(e, p, f, r, more[i])
    <3>1. CASE i <= Len(q)
      <4>1. i \in 1 .. Len(q)
        BY <1>2, <3>1
      <4>. QED BY <1>2, <2>1, <4>1 DEF Queued
    <3>2. CASE ~(i <= Len(q))
      <4> DEFINE j == i - Len(q)
      <4>1. j \in 1 .. Len(a) /\ i = Len(q) + j
        BY <1>2, <3>2
      <4> HIDE DEF j
      <4>2. more[i] = a[j]
        BY <1>2, <4>1
      <4>. QED BY <4>1, <4>2 DEF Queued
    <3>. QED BY <3>1, <3>2
  <2>. QED BY <2>2 DEF Queued
<1> HIDE DEF x, more, q
<1>6. /\ ds[r].tx = cs[r].tx /\ ds[r].queue = more
      /\ \A cn \in Connections : cn # r => ds[cn] = cs[cn]
  BY <1>3, <1>4
<1>7. ASSUME NEW cn \in Connections
      PROVE  /\ ~ds[cn].tx => ds[cn].queue = <<>>
             /\ ds[cn].tx => \E g \in ToSet(Hosts) : cn = Ring(g)
             /\ ds[cn].tx /\ ~e => cn = Ring(h) \/ (p \in MidMove /\ cn = f.to)
             /\ Queued(e, p, f, cn, ds[cn].queue)
  <2>1. /\ ~cs[cn].tx => cs[cn].queue = <<>>
        /\ cs[cn].tx => \E g \in ToSet(Hosts) : cn = Ring(g)
        /\ cs[cn].tx /\ ~e => cn = Ring(h) \/ (p \in MidMove /\ cn = f.to)
        /\ Queued(e, p, f, cn, cs[cn].queue)
    BY DEF Links
  <2>2. CASE cn = r
    BY <1>5, <1>6, <2>1, <2>2
  <2>3. CASE cn # r
    BY <1>6, <2>1, <2>3
  <2>. QED BY <2>2, <2>3
<1>8. p \in MidMove => ds[f.to].tx
  <2>1. p \in MidMove => cs[f.to].tx /\ f.to \in Connections
    <3>1. p \in MidMove => cs[f.to].tx
      BY DEF Links
    <3>. QED BY <3>1
  <2>. QED BY <1>6, <2>1
<1>. QED BY <1>7, <1>8 DEF Links

\* The move goes on with the same key.
LEMMA MovesOn ==
  ASSUME NEW p \in Moves, NEW o, NEW f, NEW h, CallIs(p, o, f, h), NEW w \in Moves, NEW f2,
         f2.nodes = f.nodes, f2.key = f.key, f2.from = f.from, f2.to = f.to,
         w \in {"store", "delKey"} => f2.success
  PROVE  CallIs(w, o, f2, h)
<1>1. p # "idle" /\ w \notin {"idle", "forward", "multi", "exec", "discard", "write", "mget", "read",
                              "readPrev", "list", "scan"}
  BY DEF Moves
<1>2. /\ o.m \in Writes \cup Reads => o.keys # <<>>
      /\ o.m = "_rehash" => f.nodes # <<>> /\ ToSet(f.nodes) \subseteq ToSet(PrevHosts)
      /\ f.key \in Keys /\ f.to = Ring(HomeOf(f.key)) /\ PrevHosts # <<>>
      /\ \/ o.m = "get" /\ f.key = o.keys[1] /\ f.from = Prev(PrevOf(f.key))
         \/ o.m = "_rehash" /\ f.from = Prev(Head(f.nodes)) /\ HomeOf(f.key) # Head(f.nodes)
  BY <1>1 DEF CallIs
<1>. QED BY <1>1, <1>2 DEF CallIs

\* What a step of a move does and leaves alone.
LEMMA MoveStepIs ==
  ASSUME CallInv, NEW c \in Clients, NEW here, NEW w, NEW f, MoveStep(c, here, w, f), here \in Moves
  PROVE  /\ pc[c] = here /\ Ask(c) /\ torn \subseteq torn' /\ Quiet /\ got' = got /\ Go(c, w, f)
         /\ UNCHANGED <<full, multi, calls>> /\ op' \in [Clients -> Op] /\ op'[c] = op[c]
         /\ \A d \in Clients : d # c => op'[d] = op[d]
         /\ got' \in [Clients -> Seq(Value)] /\ CallIs(pc[c], op[c], frame[c], multi[c])
         /\ frame[c] \in Locals /\ pc[c] \in Busy
<1>1. pc[c] = here /\ Ask(c) /\ torn \subseteq torn' /\ Quiet /\ got' = got /\ Go(c, w, f)
  BY DEF MoveStep, Tear
<1>2. Typed /\ CallIs(pc[c], op[c], frame[c], multi[c]) /\ frame[c] \in Locals
  BY CallFacts, TypedFields
<1>3. got' \in [Clients -> Seq(Value)] /\ pc[c] \in Busy
  BY <1>1, <1>2 DEF Typed, Moves, Busy, Steps
<1>4. /\ UNCHANGED <<full, multi, calls>> /\ op' \in [Clients -> Op]
      /\ \A d \in Clients : d # c => op'[d] = op[d]
      /\ op'[c] = op[c]
  BY <1>1, <1>2, Unchanging
<1>. QED BY <1>1, <1>2, <1>3, <1>4

\* The move asks for type and time to live.
LEMMA MoveTypeKeepsCall ==
  ASSUME CallInv, NEW c \in Clients, MoveType(c)
  PROVE  CallInv'
<1> DEFINE f == frame[c]  t == Fetched(c).ttl  x == Fetched(c)  g == [f EXCEPT !.ttl = t, !.item = x]
           w == "moveMulti"
<1>1. pc[c] = "type" /\ MoveStep(c, "type", w, g)
  BY DEF MoveType
<1>2. x \in Value /\ t \in {-1, 0, 1}
  BY <1>1, FetchedIs, ValueFields
<1>3. w \in Moves \ MidMove /\ w \in Steps /\ w \notin {"store", "delKey"} /\ "type" \in Moves
  BY DEF Moves, MidMove, Steps
<1>4. /\ Ask(c) /\ torn \subseteq torn' /\ Go(c, w, g) /\ pc[c] = "type"
      /\ UNCHANGED <<full, multi, calls>> /\ op' \in [Clients -> Op] /\ op'[c] = op[c]
      /\ \A d \in Clients : d # c => op'[d] = op[d]
      /\ got' \in [Clients -> Seq(Value)] /\ CallIs("type", op[c], f, multi[c]) /\ f \in Locals
  <2> HIDE DEF g, w
  <2>. QED BY <1>1, <1>3, MoveStepIs
<1>5. g \in Locals /\ g.nodes = f.nodes /\ g.key = f.key /\ g.from = f.from /\ g.to = f.to
  <2> HIDE DEF f, t, x
  <2>1. Fields(g, f.nodes, f.keys, f.key, f.from, f.to, t, x, f.success)
    BY <1>2, <1>4, LocalSteps
  <2>. QED BY <2>1 DEF Fields
<1> HIDE DEF g, w
<1>6. CallIs(w, op[c], g, multi[c])
  BY <1>3, <1>4, <1>5, MovesOn
<1>7. pc[c] \in Looking /\ CallIs(w, op'[c], g, multi[c])
  BY <1>4, <1>6 DEF Looking
<1>. QED BY <1>1, <1>3, <1>4, <1>5, <1>7, CallLooks

\* The move reads the value.
LEMMA MoveFetchKeepsCall ==
  ASSUME CallInv, NEW c \in Clients, MoveFetch(c)
  PROVE  CallInv'
<1> DEFINE f == frame[c]  x == Fetched(c)  s == ~(x = Nil /\ TypeOf[f.key] = "string")
           g == [f EXCEPT !.item = x, !.success = s]  w == IF s THEN "store" ELSE "moveExec"
<1>1. pc[c] = "fetch" /\ MoveStep(c, "fetch", w, g)
  BY DEF MoveFetch
<1>2. x \in Value /\ s \in BOOLEAN
  BY <1>1, FetchedIs
<1>3. w \in Moves \cap MidMove /\ w \in Steps /\ (w \in {"store", "delKey"} => s) /\ "fetch" \in Moves
  BY DEF Moves, MidMove, Steps
<1>4. /\ Ask(c) /\ torn \subseteq torn' /\ Go(c, w, g) /\ pc[c] = "fetch"
      /\ UNCHANGED <<full, multi, calls>> /\ op' \in [Clients -> Op] /\ op'[c] = op[c]
      /\ \A d \in Clients : d # c => op'[d] = op[d]
      /\ got' \in [Clients -> Seq(Value)] /\ CallIs("fetch", op[c], f, multi[c]) /\ f \in Locals
  <2> HIDE DEF g, w
  <2>. QED BY <1>1, <1>3, MoveStepIs
<1>5. /\ g \in Locals /\ g.nodes = f.nodes /\ g.key = f.key /\ g.from = f.from /\ g.to = f.to
      /\ g.success = s
  <2> HIDE DEF f, s, x
  <2>1. Fields(g, f.nodes, f.keys, f.key, f.from, f.to, f.ttl, x, s)
    BY <1>2, <1>4, LocalSteps
  <2>. QED BY <2>1 DEF Fields
<1> HIDE DEF g, w, s
<1>6. CallIs(w, op[c], g, multi[c])
  BY <1>3, <1>4, <1>5, MovesOn
<1>7. pc[c] \in Looking \cap MidMove /\ CallIs(w, op'[c], g, multi[c]) /\ pc[c] # "delKey"
  BY <1>4, <1>6 DEF Looking, MidMove
<1>. QED BY <1>1, <1>3, <1>4, <1>5, <1>7, CallLooks

\* The move throws.
LEMMA ThrowKeepsCall ==
  ASSUME CallInv, NEW c \in Clients, Throw(c)
  PROVE  CallInv'
<1> DEFINE w == "idle"  none == <<>>
<1>1. /\ pc[c] = "fetch" /\ Ask(c) /\ Go(c, w, NoFrame) /\ torn' = torn \cup {"leftOpen"}
      /\ op' = [op EXCEPT ![c] = NoOp] /\ got' = [got EXCEPT ![c] = none]
      /\ UNCHANGED <<full, multi, calls>>
  BY DEF Throw, Tear
<1>2. Typed /\ NoOp \in Op /\ none \in Seq(Value) /\ NoFrame \in Locals
  BY CallFacts, NoOps, ValueSeqs, Returning, <1>1 DEF AllMethods
<1>3. w \in Steps /\ w \notin MidMove /\ w = "idle" /\ Ends(torn', w)
  BY <1>1 DEF Steps, MidMove, Ends
<1>4. CallIs(w, NoOp, NoFrame, multi[c])
  <2>1. w \notin Moves /\ w = "idle"
    BY DEF Moves
  <2> HIDE DEF w
  <2>. QED BY <2>1 DEF CallIs
<1> HIDE DEF w, none
<1>5. op' \in [Clients -> Op] /\ op'[c] = NoOp /\ \A d \in Clients : d # c => op'[d] = op[d]
  <2> HIDE DEF NoOp
  <2>. QED BY <1>1, <1>2 DEF Typed
<1>6. got' \in [Clients -> Seq(Value)]
  <2> DEFINE S == Seq(Value)
  <2>1. got \in [Clients -> S] /\ none \in S
    BY <1>2 DEF Typed
  <2> HIDE DEF S
  <2>2. got' \in [Clients -> S]
    BY <1>1, <2>1
  <2>. QED BY <2>2 DEF S
<1>7. pc[c] \in Looking /\ CallIs(w, op'[c], NoFrame, multi[c])
  BY <1>1, <1>4, <1>5 DEF Looking
<1>8. torn \subseteq torn'
  BY <1>1
<1>. QED BY <1>1, <1>2, <1>3, <1>5, <1>6, <1>7, <1>8, CallLooks

\* The move deletes the key at its source.
LEMMA MoveDeleteKeepsCall ==
  ASSUME CallInv, NEW c \in Clients, MoveDelete(c)
  PROVE  CallInv'
<1> DEFINE f == frame[c]  w == "moveExec"
<1>1. MoveStep(c, "delKey", w, f)
  BY DEF MoveDelete
<1>3. w \in Moves \cap MidMove /\ w \in Steps /\ w \notin {"store", "delKey"} /\ "delKey" \in Moves
  BY DEF Moves, MidMove, Steps
<1>4. /\ Ask(c) /\ torn \subseteq torn' /\ Go(c, w, f) /\ pc[c] = "delKey"
      /\ UNCHANGED <<full, multi, calls>> /\ op' \in [Clients -> Op] /\ op'[c] = op[c]
      /\ \A d \in Clients : d # c => op'[d] = op[d]
      /\ got' \in [Clients -> Seq(Value)] /\ CallIs("delKey", op[c], f, multi[c]) /\ f \in Locals
  <2> HIDE DEF w
  <2>. QED BY <1>1, <1>3, MoveStepIs
<1>5. w = "moveExec"
  OBVIOUS
<1> HIDE DEF w
<1>6. CallIs(w, op[c], f, multi[c])
  BY <1>3, <1>4, MovesOn
<1>7. pc[c] \in Looking \cap MidMove /\ CallIs(w, op'[c], f, multi[c]) /\ pc[c] # "fetch"
  BY <1>4, <1>6 DEF Looking, MidMove
<1>. QED BY <1>3, <1>4, <1>5, <1>7, CallLooks

\* What becomes of a connection.
LEMMA AnsweredIs ==
  ASSUME NEW c
  PROVE  /\ pc[c] \in {"multi", "moveMulti"} => Answered(c) = [Of(c) EXCEPT !.tx = TRUE]
         /\ pc[c] \in {"exec", "discard", "moveExec", "delKey"} => Answered(c) = Atomic
         /\ pc[c] \in {"forward", "store"} =>
              Answered(c) = IF Of(c).tx THEN [Of(c) EXCEPT !.queue = Of(c).queue \o Asked(c)] ELSE Of(c)
<1>1. CASE pc[c] \in {"multi", "moveMulti"}
  <2>1. How(c) = "MULTI"
    BY <1>1 DEF How, Request
  <2>. QED BY <1>1, <2>1 DEF Answered
<1>2. CASE pc[c] \in {"exec", "discard", "moveExec", "delKey"}
  <2>1. How(c) = IF pc[c] = "discard" THEN "DISCARD" ELSE "block"
    BY <1>2 DEF How, Request
  <2>. QED BY <1>2, <2>1 DEF Answered
<1>3. CASE pc[c] \in {"forward", "store"}
  <2>1. How(c) = "send"
    BY <1>3 DEF How, Request
  <2>. QED BY <1>3, <2>1 DEF Answered
<1>. QED BY <1>1, <1>2, <1>3

\* A call may return from every step.
LEMMA ReturnIs ==
  ASSUME NEW p, NEW o, NEW f, NEW h, CallIs(p, o, f, h), p # "idle", NEW f2, NEW h2
  PROVE  CallIs("return", o, f2, h2)
<1> DEFINE w == "return"
<1>1. w = "return" /\ w \notin Moves
  BY DEF Moves
<1> HIDE DEF w
<1>2. CallIs(w, o, f2, h2)
  BY <1>1 DEF CallIs
<1>. QED BY <1>2 DEF w

\* A step of one process with the request of its step.
LEMMA CallSends ==
  ASSUME CallInv, NEW c \in Clients, pc[c] \in Busy, Ask(c), UNCHANGED <<full, got, calls>>,
         op' \in [Clients -> Op], \A d \in Clients : d # c => op'[d] = op[d], torn \subseteq torn',
         multi' \in [Clients -> ToSet(Hosts) \cup {None}],
         \A d \in Clients : d # c => multi'[d] = multi[d],
         NEW w \in Steps, NEW f \in Locals, Go(c, w, f), CallIs(w, op'[c], f, multi'[c]),
         \A ds : ds = [conn[c] EXCEPT ![Request(c)[1]] = Answered(c)] =>
                   Links(Ends(torn', w), w, f, multi'[c], ds)
  PROVE  CallInv'
<1>1. /\ db' \in [Servers -> Server] /\ conn' \in [Clients -> [Connections -> Connection]]
      /\ \A d \in Clients : d # c => conn'[d] = conn[d]
      /\ conn'[c] = [conn[c] EXCEPT ![Request(c)[1]] = Answered(c)]
  BY AskServes
<1>2. Links(Ends(torn', w), w, f, multi'[c], conn'[c])
  <2> DEFINE ds == conn'[c]
  <2>1. ds = [conn[c] EXCEPT ![Request(c)[1]] = Answered(c)]
    BY <1>1
  <2> HIDE DEF ds
  <2>2. Links(Ends(torn', w), w, f, multi'[c], ds)
    BY <2>1
  <2>. QED BY <2>2 DEF ds
<1>3. full' \subseteq Servers /\ got' \in [Clients -> Seq(Value)] /\ calls' \in Nat
  BY DEF CallInv, Typed
<1>. QED BY <1>1, <1>2, <1>3, CallMoves

\* The move opens MULTI at its target.
LEMMA MoveMultiKeepsCall ==
  ASSUME CallInv, NEW c \in Clients, MoveMulti(c)
  PROVE  CallInv'
<1> DEFINE f == frame[c]  x == Nil  g == [f EXCEPT !.item = x]  r == f.to
           w == IF f.item = Nil \/ TypeOf[f.key] = "stream" THEN "moveExec" ELSE "fetch"
<1>1. MoveStep(c, "moveMulti", w, g)
  BY DEF MoveMulti
<1>2. x \in Value
  BY ValueFields
<1>3. w \in Moves \cap MidMove /\ w \in Steps /\ w \notin {"store", "delKey"} /\ "moveMulti" \in Moves
  BY DEF Moves, MidMove, Steps
<1>4. /\ Ask(c) /\ torn \subseteq torn' /\ Go(c, w, g) /\ pc[c] = "moveMulti"
      /\ UNCHANGED <<full, multi, calls>> /\ op' \in [Clients -> Op] /\ op'[c] = op[c]
      /\ \A d \in Clients : d # c => op'[d] = op[d]
      /\ got' = got /\ CallIs("moveMulti", op[c], f, multi[c]) /\ f \in Locals /\ pc[c] \in Busy
  <2> HIDE DEF g, w
  <2>. QED BY <1>1, <1>3, MoveStepIs
<1>5. g \in Locals /\ g.nodes = f.nodes /\ g.key = f.key /\ g.from = f.from /\ g.to = f.to
  <2> HIDE DEF f, x
  <2>1. Fields(g, f.nodes, f.keys, f.key, f.from, f.to, f.ttl, x, f.success)
    BY <1>2, <1>4, LocalSteps
  <2>. QED BY <2>1 DEF Fields
<1> HIDE DEF g, w
<1>6. CallIs(w, op[c], g, multi[c])
  BY <1>3, <1>4, <1>5, MovesOn
<1>7. /\ Typed /\ Linked(c) /\ Goes(c) /\ f.key \in Keys /\ conn[c] \in [Connections -> Connection]
      /\ multi' \in [Clients -> ToSet(Hosts) \cup {None}]
      /\ \A d \in Clients : d # c => multi'[d] = multi[d]
  <2>1. Typed /\ Linked(c) /\ Goes(c) /\ conn[c] \in [Connections -> Connection]
    BY CallFacts, RequestGoes, TypedFields
  <2>2. f.key \in Keys
    BY <1>4 DEF CallIs, Moves
  <2>. QED BY <1>4, <2>1, <2>2 DEF Typed
<1>8. Request(c)[1] = r /\ r = Ring(HomeOf(f.key)) /\ HomeOf(f.key) \in ToSet(Hosts) /\ r \in Connections
  BY <1>4, <1>7, Homes, ConnectionsApart DEF Goes
<1>9. ASSUME NEW ds, ds = [conn[c] EXCEPT ![Request(c)[1]] = Answered(c)]
      PROVE  Links(Ends(torn', w), w, g, multi'[c], ds)
  <2> DEFINE e == Ends(torn, pc[c])  e2 == Ends(torn', w)
  <2>1. e \in BOOLEAN /\ e2 \in BOOLEAN /\ ~e
    BY <1>4 DEF Ends
  <2>2. Links(e, pc[c], f, multi[c], conn[c])
    BY <1>7 DEF Linked
  <2>3. ds = [conn[c] EXCEPT ![r] = [conn[c][r] EXCEPT !.tx = TRUE]]
    <3>1. Answered(c) = [Of(c) EXCEPT !.tx = TRUE] /\ Of(c) = conn[c][r]
      BY <1>4, <1>8, AnsweredIs DEF Of
    <3> HIDE DEF r
    <3>. QED BY <1>8, <1>9, <3>1
  <2>4. pc[c] \notin MidMove /\ (w \in MidMove => g.to = r) /\ (w \notin MidMove => HomeOf(f.key) = multi[c])
    BY <1>3, <1>4, <1>5 DEF MidMove
  <2> HIDE DEF e, e2, f, r
  <2>5. Links(e2, w, g, multi[c], ds)
    BY <1>7, <1>8, <2>1, <2>2, <2>3, <2>4, LinksOpen
  <2>. QED BY <1>4, <2>5 DEF e2
<1>10. CallIs(w, op'[c], g, multi'[c]) /\ UNCHANGED <<full, got, calls>>
  BY <1>4, <1>6
<1>. QED BY <1>3, <1>4, <1>5, <1>7, <1>9, <1>10, CallSends

\* The move writes the value.
LEMMA MoveStoreKeepsCall ==
  ASSUME CallInv, NEW c \in Clients, MoveStore(c)
  PROVE  CallInv'
<1> DEFINE f == frame[c]  r == f.to  w == "delKey"
<1>1. MoveStep(c, "store", w, f)
  BY DEF MoveStore
<1>2. w \in Moves \cap MidMove /\ w \in Steps /\ "store" \in Moves /\ w = "delKey"
  BY DEF Moves, MidMove, Steps
<1>3. /\ Ask(c) /\ torn \subseteq torn' /\ Go(c, w, f) /\ pc[c] = "store"
      /\ UNCHANGED <<full, multi, calls>> /\ op' \in [Clients -> Op] /\ op'[c] = op[c]
      /\ \A d \in Clients : d # c => op'[d] = op[d]
      /\ got' = got /\ CallIs("store", op[c], f, multi[c]) /\ f \in Locals /\ pc[c] \in Busy
  <2> HIDE DEF w
  <2>. QED BY <1>1, <1>2, MoveStepIs
<1> HIDE DEF w
<1>4. f.success /\ f.key \in Keys
  BY <1>3 DEF CallIs, Moves
<1>5. CallIs(w, op[c], f, multi[c])
  BY <1>2, <1>3, <1>4, MovesOn
<1>6. /\ Typed /\ Linked(c) /\ Goes(c) /\ conn[c] \in [Connections -> Connection]
      /\ multi' \in [Clients -> ToSet(Hosts) \cup {None}]
      /\ \A d \in Clients : d # c => multi'[d] = multi[d]
  <2>1. Typed /\ Linked(c) /\ Goes(c) /\ conn[c] \in [Connections -> Connection]
    BY CallFacts, RequestGoes, TypedFields
  <2>. QED BY <1>3, <2>1 DEF Typed
<1>7. /\ Request(c)[1] = r /\ r = Ring(HomeOf(f.key)) /\ r \in Connections
      /\ Asked(c) = StoreCommands(f)
  <2>1. r \in Connections /\ Request(c)[1] = r /\ r = Ring(HomeOf(f.key))
    BY <1>3, <1>4, <1>6, Homes, ConnectionsApart DEF Goes
  <2>. QED BY <1>3, <2>1, RequestParts
<1>8. StoringOf(StoreCommands(f), f.key)
  BY <1>3, <1>4, StoreCommandsType
<1>9. ASSUME NEW ds, ds = [conn[c] EXCEPT ![Request(c)[1]] = Answered(c)]
      PROVE  Links(Ends(torn', w), w, f, multi'[c], ds)
  <2> DEFINE e == Ends(torn, pc[c])  e2 == Ends(torn', w)  a == StoreCommands(f)  cs == conn[c]
  <2>1. e \in BOOLEAN /\ e2 \in BOOLEAN /\ ~e
    BY <1>3 DEF Ends
  <2>2. Links(e, "store", f, multi[c], cs)
    BY <1>3, <1>6 DEF Linked
  <2>3. cs[r].tx
    BY <2>2 DEF Links, MidMove
  <2>4. ds = WithQueued(cs, r, a)
    BY <1>3, <1>7, <1>9, <2>3, AnsweredIs DEF Of, WithQueued
  <2>5. Links(e2, w, f, multi[c], cs)
    <3> DEFINE p == "store"
    <3>1. p \in MidMove /\ p \notin {"delKey", "moveExec"} /\ w \in MidMove
      BY <1>2 DEF MidMove
    <3>2. Links(e, p, f, multi[c], cs)
      BY <2>2
    <3> HIDE DEF p, e, e2, cs, f
    <3>. QED BY <2>1, <3>1, <3>2, LinksStay
  <2>6. a \in Seq(Command) /\ Queued(e2, w, f, r, a)
    <3>1. a \in Seq(Command) /\ \A i \in 1 .. Len(a) : /\ a[i].name \in {"SET", "ADD", "EXPIRE"}
                                                       /\ a[i].keys = <<f.key>>
      BY <1>8 DEF StoringOf
    <3> DEFINE k == f.key  ks == <<k>>
    <3>2. ks # <<>> /\ ToSet(ks) = {k} /\ k \in Keys
      BY <1>4, Pairs
    <3> HIDE DEF ks, a
    <3>3. ASSUME NEW i \in 1 .. Len(a) PROVE Fits(e2, w, f, r, a[i])
      <4>1. a[i].name \in {"SET", "ADD", "EXPIRE"} /\ a[i].keys = ks
        BY <3>1, <3>3 DEF ks
      <4>. QED BY <1>2, <1>4, <1>7, <3>2, <4>1 DEF Fits, ks
    <3>. QED BY <3>1, <3>3 DEF Queued
  <2> HIDE DEF e, e2, a, cs
  <2>7. cs \in [Connections -> Connection] /\ cs[r].tx /\ (w \in MidMove => f.to \in Connections)
    BY <1>6, <1>7, <2>3 DEF cs
  <2> HIDE DEF f, r
  <2>8. Links(e2, w, f, multi[c], ds)
    BY <1>7, <2>1, <2>4, <2>5, <2>6, <2>7, LinksSend
  <2>. QED BY <1>3, <2>8 DEF e2
<1>10. CallIs(w, op'[c], f, multi'[c]) /\ UNCHANGED <<full, got, calls>>
  BY <1>3, <1>5
<1>. QED BY <1>2, <1>3, <1>6, <1>9, <1>10, CallSends

\* The move ends with EXEC at its target.
LEMMA MoveExecKeepsCall ==
  ASSUME CallInv, NEW c \in Clients, MoveExec(c)
  PROVE  CallInv'
<1> DEFINE f == frame[c]  r == f.to  w == IF op[c].m = "_rehash" THEN "scan" ELSE "return"
           g == Moving(f, None, None, None)
<1>1. MoveStep(c, "moveExec", w, g)
  BY DEF MoveExec
<1>2. w \in Steps \ MidMove /\ "moveExec" \in Moves /\ w \in {"scan", "return"}
  BY DEF Moves, MidMove, Steps
<1>3. /\ Ask(c) /\ torn \subseteq torn' /\ Go(c, w, g) /\ pc[c] = "moveExec"
      /\ UNCHANGED <<full, multi, calls>> /\ op' \in [Clients -> Op] /\ op'[c] = op[c]
      /\ \A d \in Clients : d # c => op'[d] = op[d]
      /\ got' = got /\ CallIs("moveExec", op[c], f, multi[c]) /\ f \in Locals /\ pc[c] \in Busy
  <2> HIDE DEF w, g
  <2>. QED BY <1>1, <1>2, MoveStepIs
<1>4. g \in Locals /\ g.nodes = f.nodes /\ f.key \in Keys
  <2>1. f.key \in Keys
    BY <1>3 DEF CallIs, Moves
  <2> DEFINE n == None
  <2>2. n \in Keys \cup {None} /\ n \in Connections \cup {None}
    OBVIOUS
  <2> HIDE DEF n, f
  <2>3. Fields(Moving(f, n, n, n), f.nodes, f.keys, n, n, n, -1, Nil, FALSE)
    BY <1>3, <2>2, LocalSteps
  <2>. QED BY <2>1, <2>3 DEF Fields, n
<1>5. CallIs(w, op[c], g, multi[c])
  <2>1. CASE op[c].m = "_rehash"
    <3>1. f.nodes # <<>> /\ ToSet(f.nodes) \subseteq ToSet(PrevHosts)
      BY <1>3, <2>1 DEF CallIs, Moves
    <3> DEFINE p == "scan"
    <3>2. p = "scan" /\ p \notin Moves /\ op[c].m \notin Writes \cup Reads /\ w = p
      BY <2>1 DEF Moves, Writes, Reads
    <3> HIDE DEF p, w, g
    <3>. QED BY <1>4, <2>1, <3>1, <3>2 DEF CallIs
  <2>2. CASE op[c].m # "_rehash"
    BY <1>3, <2>2, ReturnIs
  <2>. QED BY <2>1, <2>2
<1> HIDE DEF w, g
<1>6. /\ Typed /\ Linked(c) /\ Goes(c) /\ conn[c] \in [Connections -> Connection]
      /\ multi' \in [Clients -> ToSet(Hosts) \cup {None}]
      /\ \A d \in Clients : d # c => multi'[d] = multi[d]
  <2>1. Typed /\ Linked(c) /\ Goes(c) /\ conn[c] \in [Connections -> Connection]
    BY CallFacts, RequestGoes, TypedFields
  <2>. QED BY <1>3, <2>1 DEF Typed
<1>7. Request(c)[1] = r /\ r \in Connections
  BY <1>3, <1>4, <1>6, Homes, ConnectionsApart DEF Goes
<1>9. ASSUME NEW ds, ds = [conn[c] EXCEPT ![Request(c)[1]] = Answered(c)]
      PROVE  Links(Ends(torn', w), w, g, multi'[c], ds)
  <2> DEFINE e == Ends(torn, pc[c])  e2 == Ends(torn', w)  cs == conn[c]  p == "moveExec"
  <2>1. e \in BOOLEAN /\ e2 \in BOOLEAN /\ ~e
    BY <1>3 DEF Ends
  <2>2. Links(e, p, f, multi[c], cs)
    BY <1>3, <1>6 DEF Linked
  <2>3. ds = Without(cs, r)
    BY <1>3, <1>7, <1>9, AnsweredIs DEF Without
  <2>4. \A cn \in Connections : cn # r /\ cs[cn].tx /\ ~e2 => cn = Ring(multi[c])
    BY <2>1, <2>2 DEF Links
  <2>5. /\ cs \in [Connections -> Connection] /\ w \notin MidMove /\ (e => e2)
        /\ p \in {"delKey", "moveExec"} => e2 \/ r = f.to
    BY <1>2, <1>6, <2>1
  <2> HIDE DEF e, e2, cs, p, f, r
  <2> DEFINE h == multi[c]
  <2> HIDE DEF h
  <2>6. r \in Connections /\ OthersFit(cs, r, e2, h)
    BY <1>7, <2>4 DEF h, OthersFit
  <2>7. Links(e, p, f, h, cs)
    BY <2>2 DEF h
  <2>8. Links(e2, w, g, h, ds)
    BY <2>1, <2>3, <2>5, <2>6, <2>7, LinksClose
  <2>. QED BY <1>3, <2>8 DEF e2, h
<1>10. CallIs(w, op'[c], g, multi'[c]) /\ UNCHANGED <<full, got, calls>>
  BY <1>3, <1>5
<1>. QED BY <1>2, <1>3, <1>4, <1>6, <1>9, <1>10, CallSends

\* Where a command of the application is queued, its keys live.
LEMMA UserFits ==
  ASSUME CallInv, NEW c \in Clients, pc[c] = "forward"
  PROVE  Queued(FALSE, "forward", frame[c], Request(c)[1], Asked(c)) /\ Asked(c) \in Seq(Command)
<1> DEFINE o == op[c]  h == multi[c]  x == UserCommand(o, o.keys)
<1>1. /\ Typed /\ CallIs(pc[c], op[c], frame[c], multi[c]) /\ Goes(c) /\ o \in Op
  BY CallFacts, RequestGoes, TypedFields
<1>2. /\ o.m \in Writes \cup Reads /\ o.keys # <<>> /\ Request(c)[1] = Ring(h)
      /\ \A k \in ToSet(o.keys) : HomeOf(k) = h
  BY <1>1 DEF CallIs, Goes
<1>3. x \in Command /\ x.keys = o.keys /\ x.user = TRUE /\ x.name \notin {"SADD", "SREM"}
  BY <1>1, <1>2, OpFields, UserCommands
<1>4. Asked(c) = <<x>>
  BY RequestParts
<1> HIDE DEF x, o, h
<1>5. <<x>> \in Seq(Command) /\ Len(<<x>>) = 1 /\ <<x>>[1] = x
  BY <1>3, Pairs
<1>6. Fits(FALSE, "forward", frame[c], Ring(h), x)
  BY <1>2, <1>3 DEF Fits
<1> DEFINE a == <<x>>
<1>7. a \in Seq(Command) /\ Len(a) = 1 /\ a[1] = x
  BY <1>5
<1> DEFINE no == FALSE
<1>8. Fits(no, "forward", frame[c], Ring(h), x)
  BY <1>6
<1> HIDE DEF a, no
<1>9. Queued(no, "forward", frame[c], Ring(h), a)
  BY <1>7, <1>8 DEF Queued
<1>. QED BY <1>2, <1>4, <1>7, <1>9 DEF a, no

\* The locals of a process between its calls.
LEMMA FrameBetween ==
  /\ NoFrame \in Locals /\ "return" \in Steps \ MidMove /\ "idle" \in Steps \ MidMove
  /\ \A h : CallIs("idle", NoOp, NoFrame, h)
<1> DEFINE w == "idle"
<1>1. w \notin Moves /\ w = "idle"
  BY DEF Moves
<1> HIDE DEF w
<1>2. \A h : CallIs(w, NoOp, NoFrame, h)
  BY <1>1 DEF CallIs
<1>3. NoFrame \in Locals
  <2> DEFINE S == Seq(Servers)
  <2>1. <<>> \in S
    OBVIOUS
  <2> DEFINE none == None  no == FALSE  empty == {}  low == -1  nil == <<>>
  <2>2. /\ nil \in S /\ empty \subseteq Keys /\ none \in Keys \cup {None} /\ none \in Connections \cup {None}
        /\ low \in {-1, 0, 1} /\ Nil \in Value /\ no \in BOOLEAN
    BY ValueFields
  <2>3. NoFrame = [nodes |-> nil, keys |-> empty, key |-> none, from |-> none, to |-> none,
                   ttl |-> low, item |-> Nil, success |-> no]
    BY DEF NoFrame
  <2> HIDE DEF none, no, empty, low, nil, S
  <2>4. nil \in Seq(Servers)
    BY <2>2 DEF S
  <2> HIDE DEF NoFrame
  <2>5. NoFrame = LocalsFrom(nil, empty, none, none, none, low, Nil, no)
    BY <2>3 DEF LocalsFrom
  <2>15. FieldTypes(nil, empty, none, none, none, low, Nil, no)
    BY <2>2, <2>4 DEF FieldTypes
  <2>6. Fields(NoFrame, nil, empty, none, none, none, low, Nil, no)
    BY <2>5, <2>15, LocalsOf
  <2>. QED BY <2>6 DEF Fields
<1>. QED BY <1>2, <1>3 DEF w, Steps, MidMove

\* What the request does to the connections, in the methods of a transaction.
LEMMA ForwardLinks ==
  ASSUME CallInv, NEW c \in Clients, pc[c] \in {"forward", "multi", "exec", "discard"},
         NEW ds, ds = [conn[c] EXCEPT ![Request(c)[1]] = Answered(c)], torn \subseteq torn',
         NEW h2, h2 = IF pc[c] \in {"exec", "discard"} THEN None ELSE multi[c]
  PROVE  Links(Ends(torn', "return"), "return", NoFrame, h2, ds)
<1> DEFINE f == frame[c]  h == multi[c]  r == Request(c)[1]  cs == conn[c]  w == "return"
           e == Ends(torn, pc[c])  e2 == Ends(torn', w)  g == NoFrame  p == pc[c]
<1>1. /\ Typed /\ Links(e, p, f, h, cs) /\ Goes(c) /\ cs \in [Connections -> Connection]
      /\ CallIs(pc[c], op[c], f, h)
  BY CallFacts, RequestGoes, TypedFields DEF Linked
<1>2. h \in ToSet(Hosts) /\ r = Ring(h) /\ r \in Connections
  BY <1>1, ConnectionsApart DEF Goes
<1>3. e \in BOOLEAN /\ e2 \in BOOLEAN /\ (e => e2) /\ w \notin MidMove /\ p \notin MidMove
  BY DEF Ends, MidMove
<1>4. CASE pc[c] \in {"exec", "discard"}
  <2>1. ds = Without(cs, r) /\ ~e /\ h2 = None /\ p \notin {"delKey", "moveExec"}
    BY <1>4, AnsweredIs DEF Without, Ends
  <2>2. OthersFit(cs, r, e2, h2)
    <3> HIDE DEF e, e2, cs, r, h, f, w, p
    <3>1. \A cn \in Connections : cs[cn].tx => cn = Ring(h)
      BY <1>1, <1>3, <2>1 DEF Links
    <3>. QED BY <1>2, <3>1 DEF OthersFit
  <2> HIDE DEF e, e2, cs, r, h, f, w, g, p
  <2>3. Links(e2, w, g, h2, ds)
    BY <1>1, <1>2, <1>3, <2>1, <2>2, LinksClose
  <2>. QED BY <2>3 DEF e2, w, g
<1>5. CASE pc[c] = "multi"
  <2>1. ds = [cs EXCEPT ![r] = [cs[r] EXCEPT !.tx = TRUE]] /\ h2 = h
    BY <1>5, AnsweredIs DEF Of
  <2> HIDE DEF e, e2, cs, r, h, f, w, g, p
  <2>2. Links(e2, w, g, h, ds)
    BY <1>1, <1>2, <1>3, <2>1, LinksOpen
  <2>. QED BY <2>1, <2>2 DEF e2, w, g
<1>6. CASE pc[c] = "forward"
  <2>0. h2 = h /\ ~e /\ p \notin {"delKey", "moveExec"}
    BY <1>6 DEF Ends
  <2>1. CASE ~cs[r].tx
    <3>1. ds = cs
      <4>1. ds = [cs EXCEPT ![r] = cs[r]]
        BY <1>6, <2>1, AnsweredIs DEF Of
      <4> HIDE DEF cs, r
      <4>. QED BY <1>1, <4>1
    <3> HIDE DEF e, e2, cs, r, h, f, w, g, p
    <3>2. Links(e2, w, g, h, cs)
      BY <1>1, <1>3, <2>0, LinksStay
    <3>. QED BY <2>0, <3>1, <3>2 DEF e2, w, g
  <2>2. CASE cs[r].tx
    <3> DEFINE a == Asked(c)
    <3>1. ds = WithQueued(cs, r, a)
      BY <1>6, <2>2, AnsweredIs DEF Of, WithQueued
    <3>2. a \in Seq(Command) /\ Queued(FALSE, "forward", f, r, a)
      BY <1>6, UserFits
    <3>3. Queued(e, p, f, r, a)
      <4>1. e = FALSE /\ p = "forward"
        BY <1>3, <1>6, <2>0
      <4> DEFINE no == FALSE  q == "forward"
      <4>2. Queued(no, q, f, r, a) /\ e = no /\ p = q
        BY <3>2, <4>1
      <4> HIDE DEF e, p, no, q, f, r, a
      <4>. QED BY <4>2
    <3> HIDE DEF e, e2, cs, r, h, f, w, g, p, a
    <3>4. /\ e \in BOOLEAN /\ cs \in [Connections -> Connection] /\ Links(e, p, f, h, cs)
          /\ r \in Connections /\ a \in Seq(Command) /\ (p \in MidMove => f.to \in Connections)
      BY <1>1, <1>2, <1>3, <3>2
    <3>6. Links(e, p, f, h, ds)
      BY <2>2, <3>1, <3>3, <3>4, LinksSend
    <3>5. Links(e2, w, g, h, ds)
      BY <1>3, <2>0, <3>6, LinksStay
    <3>. QED BY <2>0, <3>5 DEF e2, w, g
  <2>. QED BY <2>1, <2>2
<1>. QED BY <1>4, <1>5, <1>6

\* A step of a transaction of the application.
LEMMA ForwardKeepsCall ==
  ASSUME CallInv, NEW c \in Clients, Forward(c)
  PROVE  CallInv'
<1> DEFINE w == "return"
<1>1. /\ pc[c] \in {"forward", "multi", "exec", "discard"} /\ Ask(c) /\ torn \subseteq torn'
      /\ multi' = IF pc[c] \in {"exec", "discard"} THEN [multi EXCEPT ![c] = None] ELSE multi
      /\ Go(c, w, NoFrame) /\ UNCHANGED <<full, op, got, calls>>
  BY DEF Forward, Tear
<1>2. Typed /\ CallIs(pc[c], op[c], frame[c], multi[c]) /\ pc[c] \in Busy
  BY <1>1, CallFacts DEF Busy, Steps
<1>3. /\ op' \in [Clients -> Op] /\ op'[c] = op[c] /\ \A d \in Clients : d # c => op'[d] = op[d]
  BY <1>1, <1>2 DEF Typed
<1>4. /\ multi' \in [Clients -> ToSet(Hosts) \cup {None}]
      /\ \A d \in Clients : d # c => multi'[d] = multi[d]
      /\ multi'[c] = IF pc[c] \in {"exec", "discard"} THEN None ELSE multi[c]
  BY <1>1, <1>2 DEF Typed
<1>5. CallIs(w, op'[c], NoFrame, multi'[c]) /\ w \in Steps /\ NoFrame \in Locals
  BY <1>1, <1>2, <1>3, ReturnIs, FrameBetween
<1>6. ASSUME NEW ds, ds = [conn[c] EXCEPT ![Request(c)[1]] = Answered(c)]
      PROVE  Links(Ends(torn', w), w, NoFrame, multi'[c], ds)
  <2> DEFINE h2 == multi'[c]
  <2>1. h2 = IF pc[c] \in {"exec", "discard"} THEN None ELSE multi[c]
    BY <1>4
  <2> HIDE DEF h2
  <2>2. Links(Ends(torn', "return"), "return", NoFrame, h2, ds)
    BY <1>1, <1>6, <2>1, ForwardLinks
  <2>. QED BY <2>2 DEF h2
<1>7. UNCHANGED <<full, got, calls>>
  BY <1>1
<1> HIDE DEF w
<1>. QED BY <1>1, <1>2, <1>3, <1>4, <1>5, <1>6, <1>7, CallSends

\* What a lost connection changes.
LEMMA LoseParts ==
  ASSUME CallInv, NEW c \in Clients, Lose(c)
  PROVE  /\ pc[c] \in Busy /\ torn = {} /\ torn \subseteq torn' /\ faults' = faults + 1
         /\ faults < MaxFaults
         /\ multi' = IF pc[c] \in {"exec", "discard"} THEN [multi EXCEPT ![c] = None] ELSE multi
         /\ conn' = [conn EXCEPT ![c][Request(c)[1]] = Atomic]
         /\ Go(c, "idle", NoFrame)
         /\ op' = [op EXCEPT ![c] = NoOp] /\ got' = [got EXCEPT ![c] = <<>>]
         /\ UNCHANGED <<full, calls, rehashed>>
         /\ \A cn \in Connections :
              conn'[c][cn].tx /\ (cn # Ring(multi'[c]) \/ (pc[c] \in MidMove /\ cn = frame[c].to))
                => torn' # {}
         /\ \E reached \in BOOLEAN :
              /\ Serve(HostOf(c), IF reached THEN Executes(c) ELSE <<>>)
              /\ reached => Crossed(c) \subseteq torn'
<1>1. pc[c] \in Busy
  <2>1. Waits(c) /\ pc[c] \in Steps
    BY CallFacts, TypedFields DEF Lose, Sends
  <2>2. pc[c] \notin {"idle", "return", "scan"}
    BY <2>1, RequestParts DEF Waits
  <2>. QED BY <2>1, <2>2 DEF Busy
<1>2. /\ torn = {} /\ faults' = faults + 1 /\ faults < MaxFaults
      /\ multi' = IF pc[c] \in {"exec", "discard"} THEN [multi EXCEPT ![c] = None] ELSE multi
      /\ conn' = [conn EXCEPT ![c][Request(c)[1]] = Atomic]
      /\ Go(c, "idle", NoFrame)
      /\ op' = [op EXCEPT ![c] = NoOp] /\ got' = [got EXCEPT ![c] = <<>>]
      /\ UNCHANGED <<full, calls, rehashed>>
  BY DEF Lose, CanFail
<1> DEFINE open == \E cn \in Connections :
              /\ conn'[c][cn].tx
              /\ cn # Ring(multi'[c]) \/ (pc[c] \in MidMove /\ cn = frame[c].to)
<1>3. PICK reached \in BOOLEAN : \E lost :
           /\ Serve(HostOf(c), IF reached THEN Executes(c) ELSE <<>>)
           /\ torn' = torn \cup ((IF reached THEN Crossed(c) \cup Moved(c) ELSE {})
                       \cup (IF open THEN {"leftOpen"} ELSE {}) \cup lost)
  BY DEF Lose, Tear
<1>4. /\ open => torn' # {}
      /\ torn \subseteq torn'
      /\ reached => Crossed(c) \subseteq torn'
  <2> HIDE DEF open
  <2>. QED BY <1>3
<1>. QED BY <1>1, <1>2, <1>3, <1>4

\* What one server is left with, whether the request reached it or not.
LEMMA LoseServes ==
  ASSUME CallInv, NEW c \in Clients, pc[c] \in Busy, NEW cmds, cmds \in {Executes(c), <<>>},
         Serve(HostOf(c), cmds)
  PROVE  /\ db' \in [Servers -> Server] /\ HostOf(c) \in Servers /\ cmds \in Seq(Command)
         /\ db'[HostOf(c)] = RunAll(db[HostOf(c)], cmds)
         /\ \A h \in Servers : h # HostOf(c) => db'[h] = db[h]
<1> DEFINE h == HostOf(c)  s == RunAll(db[h], cmds)
<1>1. /\ Typed /\ CallIs(pc[c], op[c], frame[c], multi[c])
  BY CallFacts
<1>2. h \in Servers /\ Executes(c) \in Seq(Command) /\ <<>> \in Seq(Command)
  BY <1>1, ServedTyped
<1>3. s \in Server /\ cmds \in Seq(Command)
  BY <1>1, <1>2, TypedFields, RunAllType
<1>4. db' = [db EXCEPT ![h] = s] /\ db \in [Servers -> Server]
  BY <1>1 DEF Serve, Typed
<1> HIDE DEF h, s
<1>5. db' \in [Servers -> Server] /\ db'[h] = s /\ \A g \in Servers : g # h => db'[g] = db[g]
  BY <1>2, <1>3, <1>4
<1>. QED BY <1>2, <1>3, <1>5 DEF h, s

\* The connections of the process that lost one.
LEMMA LoseLinks ==
  ASSUME CallInv, NEW c \in Clients, pc[c] \in Busy, torn = {}, NEW ds,
         ds = Without(conn[c], Request(c)[1]), NEW h2 \in ToSet(Hosts) \cup {None}, NEW e2 \in BOOLEAN,
         \A cn \in Connections :
           ds[cn].tx /\ (cn # Ring(h2) \/ (pc[c] \in MidMove /\ cn = frame[c].to)) => e2
  PROVE  Links(e2, "idle", NoFrame, h2, ds)
<1> DEFINE f == frame[c]  r == Request(c)[1]  cs == conn[c]  w == "idle"
           e == Ends(torn, pc[c])  g == NoFrame  p == pc[c]
<1>1. /\ Typed /\ Links(e, p, f, multi[c], cs) /\ Goes(c) /\ cs \in [Connections -> Connection]
      /\ CallIs(pc[c], op[c], f, multi[c])
  BY CallFacts, RequestGoes, TypedFields DEF Linked
<1>2. e \in BOOLEAN /\ (e => e2) /\ w \notin MidMove /\ r \in Connections
  BY <1>1 DEF Ends, MidMove, Goes
<1>3. \A cn \in Connections : cn # r => ds[cn] = cs[cn]
  BY <1>1, <1>2 DEF Without
<1>4. OthersFit(cs, r, e2, h2)
  BY <1>3 DEF OthersFit
<1>5. p \in {"delKey", "moveExec"} => e2 \/ r = f.to
  <2>1. CASE p = "moveExec"
    BY <1>1, <2>1 DEF Goes
  <2>2. CASE p = "delKey"
    <3>1. cs[f.to].tx /\ p \in MidMove
      BY <1>1, <2>2 DEF Links, MidMove
    <3>2. f.to = Ring(HomeOf(f.key)) /\ f.key \in Keys /\ \E x \in ToSet(PrevHosts) : r = Prev(x)
      BY <1>1, <2>2 DEF Goes, CallIs, Moves
    <3>3. f.to \in Connections /\ f.to # r
      BY <3>2, Homes, ConnectionsApart
    <3>. QED BY <1>3, <3>1, <3>3
  <2>. QED BY <2>1, <2>2
<1> HIDE DEF e, cs, r, f, w, g, p
<1>6. Links(e2, w, g, h2, ds)
  BY <1>1, <1>2, <1>4, <1>5, LinksClose DEF cs, r
<1>. QED BY <1>6 DEF w, g

\* A connection is lost.
LEMMA LoseKeepsCall ==
  ASSUME CallInv, NEW c \in Clients, Lose(c)
  PROVE  CallInv'
<1> DEFINE w == "idle"  none == <<>>  r == Request(c)[1]
<1>1. /\ pc[c] \in Busy /\ torn = {} /\ torn \subseteq torn'
      /\ multi' = IF pc[c] \in {"exec", "discard"} THEN [multi EXCEPT ![c] = None] ELSE multi
      /\ conn' = [conn EXCEPT ![c][r] = Atomic]
      /\ Go(c, w, NoFrame) /\ op' = [op EXCEPT ![c] = NoOp] /\ got' = [got EXCEPT ![c] = none]
      /\ UNCHANGED <<full, calls>>
      /\ \A cn \in Connections :
           conn'[c][cn].tx /\ (cn # Ring(multi'[c]) \/ (pc[c] \in MidMove /\ cn = frame[c].to))
             => torn' # {}
      /\ \E reached \in BOOLEAN : Serve(HostOf(c), IF reached THEN Executes(c) ELSE none)
  BY LoseParts
<1>2. Typed /\ Goes(c) /\ NoOp \in Op /\ none \in Seq(Value)
  BY CallFacts, RequestGoes, NoOps, ValueSeqs DEF AllMethods
<1>3. db' \in [Servers -> Server]
  <2>1. PICK reached \in BOOLEAN : Serve(HostOf(c), IF reached THEN Executes(c) ELSE none)
    BY <1>1
  <2> DEFINE cmds == IF reached THEN Executes(c) ELSE none
  <2>2. cmds \in {Executes(c), <<>>} /\ Serve(HostOf(c), cmds)
    BY <2>1
  <2> HIDE DEF cmds
  <2>. QED BY <1>1, <2>2, LoseServes
<1>4. r \in Connections
  BY <1>1, <1>2 DEF Goes
<1> HIDE DEF w, none, r
<1>5. /\ op' \in [Clients -> Op] /\ op'[c] = NoOp /\ \A d \in Clients : d # c => op'[d] = op[d]
  <2> HIDE DEF NoOp
  <2>. QED BY <1>1, <1>2 DEF Typed
<1>6. got' \in [Clients -> Seq(Value)]
  <2> DEFINE S == Seq(Value)
  <2>1. got \in [Clients -> S] /\ none \in S
    BY <1>2 DEF Typed
  <2> HIDE DEF S
  <2>2. got' \in [Clients -> S]
    BY <1>1, <2>1
  <2>. QED BY <2>2 DEF S
<1>7. /\ multi' \in [Clients -> ToSet(Hosts) \cup {None}]
      /\ \A d \in Clients : d # c => multi'[d] = multi[d]
      /\ full' \subseteq Servers /\ calls' \in Nat
  BY <1>1, <1>2 DEF Typed
<1>8. /\ conn' \in [Clients -> [Connections -> Connection]]
      /\ \A d \in Clients : d # c => conn'[d] = conn[d]
      /\ conn'[c] = Without(conn[c], r)
  <2> DEFINE a == Atomic
  <2>1. /\ a \in Connection /\ conn' = [conn EXCEPT ![c][r] = a]
        /\ conn \in [Clients -> [Connections -> Connection]]
    BY <1>1, <1>2, ConnectionFields DEF Typed
  <2> HIDE DEF a
  <2>2. /\ conn' \in [Clients -> [Connections -> Connection]]
        /\ \A d \in Clients : d # c => conn'[d] = conn[d]
        /\ conn'[c] = [conn[c] EXCEPT ![r] = a]
    BY <1>4, <2>1
  <2>. QED BY <2>2 DEF a, Without
<1>9. Links(Ends(torn', w), w, NoFrame, multi'[c], conn'[c])
  <2> DEFINE ds == conn'[c]  h2 == multi'[c]  e2 == Ends(torn', w)
  <2>1. e2 \in BOOLEAN /\ e2 = (torn' # {})
    BY DEF Ends, w
  <2>2. h2 \in ToSet(Hosts) \cup {None} /\ ds = Without(conn[c], Request(c)[1])
    BY <1>7, <1>8 DEF r
  <2>3. \A cn \in Connections :
           ds[cn].tx /\ (cn # Ring(h2) \/ (pc[c] \in MidMove /\ cn = frame[c].to)) => e2
    BY <1>1, <2>1
  <2> HIDE DEF ds, h2, e2
  <2>4. Links(e2, "idle", NoFrame, h2, ds)
    BY <1>1, <2>1, <2>2, <2>3, LoseLinks
  <2>. QED BY <2>4 DEF ds, h2, e2, w
<1>10. CallIs(w, op'[c], NoFrame, multi'[c]) /\ w \in Steps /\ NoFrame \in Locals
  BY <1>5, FrameBetween DEF w
<1>. QED BY <1>1, <1>3, <1>5, <1>6, <1>7, <1>8, <1>9, <1>10, CallMoves

\* Where the keys are at first.
WhereAtFirst(k) == IF PrevHosts = <<>> THEN HomeOf(k) ELSE PrevOf(k)
KeysAtFirst(h)  == {k \in Keys : WhereAtFirst(k) = h /\ AtFirst[k] # 2}

ServerAtFirst(s, h) ==
  /\ s \in Server /\ s.index = IF Index THEN KeysAtFirst(h) ELSE {}
  /\ \A k \in Keys : k \notin KeysAtFirst(h) => s.data[k] = Nil

\* What each server holds at first.
LEMMA StartOfServers ==
  ASSUME Init, NEW h \in Servers
  PROVE  ServerAtFirst(db[h], h)
<1> DEFINE none == {}  here == KeysAtFirst(h)
           first(k) == [items |-> <<<<k, 0>>>>, ttl |-> AtFirst[k]]
           data == [k \in Keys |-> IF k \in here THEN first(k) ELSE Nil]
           index == IF Index THEN here ELSE none
           s == [data |-> data, index |-> index]
<1>1. db[h] = s
  BY DEF Init, KeysAtFirst, WhereAtFirst
<1>2. ASSUME NEW k \in Keys, k \in here PROVE first(k) \in Value
  <2> DEFINE x == <<k, 0>>  i == <<x>>  t == AtFirst[k]
  <2>1. x \in Keys \X Nat
    OBVIOUS
  <2>2. i \in Seq(Keys \X Nat)
    <3> HIDE DEF x
    <3>. QED BY <2>1
  <2>3. t \in {-1, 0, 1}
    <3>1. t \in -1 .. 2 /\ t # 2
      BY <1>2, OptionAssumption DEF KeysAtFirst
    <3> HIDE DEF t
    <3>. QED BY <3>1
  <2> HIDE DEF i, t
  <2>4. [items |-> i, ttl |-> t] \in Value
    BY <2>2, <2>3, ValueFields
  <2>. QED BY <2>4 DEF i, t
<1>3. data \in [Keys -> Value] /\ \A k \in Keys : k \notin here => data[k] = Nil
  <2>1. Nil \in Value
    BY ValueFields
  <2> HIDE DEF first, here
  <2>2. \A k \in Keys : (IF k \in here THEN first(k) ELSE Nil) \in Value
    BY <1>2, <2>1
  <2>. QED BY <2>2
<1>4. index \subseteq Keys
  BY DEF KeysAtFirst
<1> HIDE DEF data, index
<1>5. s \in Server /\ s.data = data /\ s.index = index
  BY <1>3, <1>4 DEF Server
<1>. QED BY <1>1, <1>3, <1>5 DEF ServerAtFirst, index

\* The invariant of the calls holds at first.
LEMMA StartCall ==
  ASSUME Init
  PROVE  CallInv
<1> DEFINE none == <<>>  w == "idle"
<1>1. /\ full = {} /\ conn = [c \in Clients |-> [cn \in Connections |-> Atomic]]
      /\ multi = [c \in Clients |-> None] /\ pc = [c \in Clients |-> w]
      /\ op = [c \in Clients |-> NoOp] /\ frame = [c \in Clients |-> NoFrame]
      /\ got = [c \in Clients |-> none] /\ calls = 0 /\ torn = {}
      /\ db \in [Servers -> Server]
  <2>1. db \in [Servers -> Server]
    <3>1. db = [h \in Servers |-> db[h]]
      BY DEF Init
    <3>2. \A h \in Servers : db[h] \in Server
      BY StartOfServers DEF ServerAtFirst
    <3>. QED BY <3>1, <3>2
  <2>. QED BY <2>1 DEF Init
<1>2. /\ Atomic \in Connection /\ NoOp \in Op /\ NoFrame \in Locals /\ none \in Seq(Value) /\ w \in Steps
      /\ w \notin MidMove /\ Atomic.tx = FALSE /\ Atomic.queue = none
  BY ConnectionFields, NoOps, FrameBetween, ValueSeqs DEF AllMethods, Atomic
<1>3. Typed
  <2> DEFINE S == Seq(Value)
  <2>1. got \in [Clients -> S]
    <3>1. none \in S
      BY <1>2
    <3> HIDE DEF S, none
    <3>. QED BY <1>1, <3>1
  <2> HIDE DEF w
  <2>2. pc \in [Clients -> Steps] /\ op \in [Clients -> Op] /\ frame \in [Clients -> Locals]
    <3> HIDE DEF NoOp, NoFrame
    <3>. QED BY <1>1, <1>2
  <2>3. conn \in [Clients -> [Connections -> Connection]]
    <3> DEFINE a == Atomic
    <3>1. a \in Connection /\ conn = [c \in Clients |-> [cn \in Connections |-> a]]
      BY <1>1, <1>2
    <3> HIDE DEF a
    <3>. QED BY <3>1
  <2>4. multi \in [Clients -> ToSet(Hosts) \cup {None}] /\ full \subseteq Servers /\ calls \in Nat
    BY <1>1
  <2>. QED BY <1>1, <2>1, <2>2, <2>3, <2>4 DEF Typed
<1>4. ASSUME NEW c \in Clients PROVE CallIs(pc[c], op[c], frame[c], multi[c]) /\ Linked(c)
  <2>1. pc[c] = w /\ op[c] = NoOp /\ frame[c] = NoFrame /\ multi[c] = None
    BY <1>1
  <2>2. CallIs(pc[c], op[c], frame[c], multi[c])
    BY <2>1, FrameBetween
  <2>3. \A cn \in Connections : conn[c][cn] = Atomic
    BY <1>1
  <2> DEFINE e == Ends(torn, pc[c])  cs == conn[c]
  <2>4. ASSUME NEW cn \in Connections
        PROVE  /\ ~cs[cn].tx /\ cs[cn].queue = none /\ Queued(e, w, frame[c], cn, cs[cn].queue)
    <3>1. ~cs[cn].tx /\ cs[cn].queue = none
      BY <1>2, <2>3
    <3>2. Len(none) = 0
      OBVIOUS
    <3> HIDE DEF none, e, w
    <3>3. Queued(e, w, frame[c], cn, none)
      BY <3>2 DEF Queued
    <3>. QED BY <3>1, <3>3
  <2> HIDE DEF e, cs
  <2>5. Links(e, pc[c], frame[c], multi[c], cs)
    BY <1>2, <2>1, <2>4 DEF Links
  <2>. QED BY <2>2, <2>5 DEF Linked, e, cs
<1>. QED BY <1>3, <1>4 DEF CallInv

\* Every step keeps the invariant of the calls.
LEMMA CallSteps ==
  ASSUME CallInv, [Next]_vars
  PROVE  CallInv'
<1>1. ASSUME NEW c \in Clients, CallKeys(c) \/ CallRehash(c) \/ CallMulti(c) \/ CallEnd(c)
      PROVE  CallInv'
  BY <1>1, CallKeysKeep, CallRehashKeeps, CallMultiKeeps, CallEndKeeps
<1>2. ASSUME NEW c \in Clients, Step(c) PROVE CallInv'
  <2>1. CASE Forward(c) \/ Write(c) \/ Read(c) \/ ReadPrev(c) \/ Mget(c)
    BY <2>1, ForwardKeepsCall, WriteKeepsCall, ReadKeepsCall, ReadPrevKeepsCall, MgetKeepsCall
  <2>2. CASE List(c) \/ Scan(c) \/ Return(c)
    BY <2>2, ListKeepsCall, ScanKeepsCall, ReturnKeepsCall
  <2>3. CASE Move(c)
    BY <2>3, MoveTypeKeepsCall, MoveMultiKeepsCall, MoveFetchKeepsCall, ThrowKeepsCall,
       MoveStoreKeepsCall, MoveDeleteKeepsCall, MoveExecKeepsCall DEF Move
  <2>. QED BY <1>2, <2>1, <2>2, <2>3 DEF Step
<1>3. ASSUME NEW c \in Clients, Lose(c) PROVE CallInv'
  BY <1>3, LoseKeepsCall
<1>4. ASSUME NEW h \in Servers, Fill(h) PROVE CallInv'
  <2>1. full' = full \cup {h} /\ UNCHANGED <<db, conn, multi, pc, op, frame, got, torn, calls>>
    BY <1>4 DEF Fill
  <2>2. Typed'
    BY <2>1 DEF CallInv, Typed
  <2>. QED BY <2>1, <2>2 DEF CallInv, Linked, Links, Ends, Queued, Fits, CallIs
<1>5. CASE UNCHANGED vars
  <2>1. UNCHANGED <<db, full, conn, multi, pc, op, frame, got, torn, calls>>
    BY <1>5 DEF vars
  <2>2. Typed'
    BY <2>1 DEF CallInv, Typed
  <2>. QED BY <2>1, <2>2 DEF CallInv, Linked, Links, Ends, Queued, Fits, CallIs
<1>. QED BY <1>1, <1>2, <1>3, <1>4, <1>5 DEF Next

-----------------------------------------------------------------------------
(* What the servers carry out. *)

\* Sequences of commands one after the other.
LEMMA Joined ==
  ASSUME NEW S, NEW q \in Seq(S), NEW a \in Seq(S)
  PROVE  /\ <<>> \o a = a /\ q \o <<>> = q /\ q \o a \in Seq(S) /\ Len(q \o a) = Len(q) + Len(a)
         /\ \A x \in S : q \o <<x>> = Append(q, x)
OBVIOUS

\* The commands carried out with a request.
LEMMA ExecutesOf ==
  ASSUME CallInv, NEW c \in Clients, pc[c] \in Busy
  PROVE  /\ pc[c] \in {"multi", "moveMulti", "discard", "store"} => Executes(c) = <<>>
         /\ pc[c] \in Looking \cup {"forward"} => Executes(c) \in {<<>>, Asked(c)}
         /\ pc[c] = "exec" => Executes(c) \in {<<>>, Of(c).queue}
         /\ pc[c] = "moveExec" =>
              \/ Executes(c) = <<>>
              \/ ~frame[c].success /\ Executes(c) = Of(c).queue
              \/ /\ frame[c].success
                 /\ Executes(c) = Append(Of(c).queue, OnKeys("SADD", <<frame[c].key>>))
<1> DEFINE C == Command  q == Of(c).queue  a == Asked(c)  r == Request(c)[1]  cs == conn[c]
           all == (IF How(c) = "block" THEN q ELSE <<>>) \o a
<1>1. /\ Typed /\ Linked(c) /\ Of(c) = cs[r] /\ Of(c) \in Connection /\ a \in Seq(C) /\ r \in Connections
      /\ CallIs(pc[c], op[c], frame[c], multi[c]) /\ Goes(c)
  BY CallFacts, ServedTyped, RequestGoes
<1>2. q \in Seq(C) /\ Of(c).tx \in BOOLEAN /\ (~Of(c).tx => q = <<>>)
  <2>1. ~cs[r].tx => cs[r].queue = <<>>
    BY <1>1 DEF Linked, Links
  <2>. QED BY <1>1, <2>1, ConnectionFields
<1>3. <<>> \o a = a /\ q \o <<>> = q /\ <<>> \o <<>> = <<>> /\ \A x \in C : q \o <<x>> = Append(q, x)
  <2>1. <<>> \in Seq(C)
    OBVIOUS
  <2> HIDE DEF C, q, a
  <2>. QED BY <1>1, <1>2, <2>1, Joined
<1>4. /\ Executes(c) \in {<<>>, all}
      /\ Of(c).tx /\ How(c) # "block" => Executes(c) = <<>>
  BY DEF Executes
<1>5. CASE pc[c] \in {"multi", "moveMulti", "discard"}
  <2>1. How(c) # "block" /\ a = <<>>
    <3>1. How(c) # "block"
      BY <1>5 DEF How, Request
    <3>. QED BY <1>5, <3>1, RequestParts
  <2>. QED BY <1>3, <1>4, <1>5, <2>1 DEF Looking
<1>6. CASE pc[c] = "store"
  <2>1. How(c) # "block" /\ r = frame[c].to
    <3>1. How(c) # "block"
      BY <1>6 DEF How, Request
    <3>. QED BY <1>1, <1>6, <3>1 DEF Goes
  <2>2. Of(c).tx
    BY <1>1, <1>6, <2>1 DEF Linked, Links, MidMove
  <2>. QED BY <1>4, <1>6, <2>1, <2>2 DEF Looking
<1>7. CASE pc[c] \in Looking
  <2>1. q = <<>>
    BY <1>2, <1>7, NotOpen DEF Looking
  <2>2. all = a
    BY <1>3, <2>1
  <2>. QED BY <1>4, <1>7, <2>2 DEF Looking
<1>8. CASE pc[c] = "forward"
  <2>1. How(c) # "block"
    BY <1>8 DEF How, Request
  <2>2. all = a
    BY <1>3, <2>1
  <2>. QED BY <1>4, <1>8, <2>2 DEF Looking
<1>9. CASE pc[c] = "exec"
  <2>1. How(c) = "block" /\ a = <<>>
    <3>1. How(c) = "block"
      BY <1>9 DEF How, Request
    <3>. QED BY <1>9, <3>1, RequestParts
  <2>2. all = q
    BY <1>3, <2>1
  <2>. QED BY <1>4, <1>9, <2>2 DEF Looking
<1>10. CASE pc[c] = "moveExec"
  <2> DEFINE j == frame[c].key  x == OnKeys("SADD", <<j>>)
  <2>1. How(c) = "block" /\ a = IF frame[c].success THEN <<x>> ELSE <<>>
    <3>1. How(c) = "block"
      BY <1>10 DEF How, Request
    <3>. QED BY <1>10, <3>1, RequestParts
  <2>2. x \in C
    <3>1. j \in Keys
      BY <1>1, <1>10 DEF CallIs, Moves
    <3> HIDE DEF j
    <3>2. <<j>> \in Seq(Keys) /\ "SADD" \in Names
      BY <3>1 DEF Names
    <3>. QED BY <3>2, ArrayCommands
  <2>3. all = q \o a
    BY <2>1
  <2>4. ~frame[c].success => all = q
    BY <1>3, <2>1, <2>3
  <2>5. frame[c].success => all = Append(q, x)
    <3> HIDE DEF x, q, a, all, C
    <3>. QED BY <1>3, <2>1, <2>2, <2>3
  <2>. QED BY <1>4, <1>10, <2>4, <2>5 DEF Looking
<1>11. pc[c] \in {"multi", "moveMulti", "discard", "store", "forward", "exec", "moveExec"} \cup Looking
  BY DEF Busy, Steps, Looking
<1>. QED BY <1>5, <1>6, <1>7, <1>8, <1>9, <1>10, <1>11

\* What is queued for EXEC.
LEMMA QueueFits ==
  ASSUME CallInv, NEW c \in Clients, pc[c] \in Busy, pc[c] # "multi", NEW i \in 1 .. Len(Of(c).queue)
  PROVE  /\ Of(c).queue \in Seq(Command) /\ Of(c).queue[i] \in Command
         /\ Fits(FALSE, pc[c], frame[c], Request(c)[1], Of(c).queue[i])
<1> DEFINE q == Of(c).queue  r == Request(c)[1]
<1>1. Linked(c) /\ Of(c) = conn[c][r] /\ Of(c) \in Connection /\ r \in Connections
  BY CallFacts, ServedTyped
<1>2. q \in Seq(Command)
  BY <1>1, ConnectionFields
<1>3. q[i] \in Command
  <2> HIDE DEF q
  <2> DEFINE C == Command
  <2>1. q \in Seq(C) /\ i \in 1 .. Len(q)
    BY <1>2 DEF q
  <2> HIDE DEF C
  <2>2. q[i] \in C
    BY <2>1
  <2>. QED BY <2>2 DEF C
<1>4. Fits(Ends(torn, pc[c]), pc[c], frame[c], r, q[i])
  BY <1>1 DEF Linked, Links, Queued
<1>5. Ends(torn, pc[c]) = FALSE
  BY DEF Ends, Busy
<1>. QED BY <1>2, <1>3, <1>4, <1>5

\* Keys the application writes in a transaction are in the index, unless it is torn.
LEMMA IndexedWrites ==
  ASSUME Index, NEW c \in Clients, pc[c] # "write", "unindexed" \notin Crossed(c),
         NEW cmds \in Seq(Command), cmds = Executes(c), NEW i \in 1 .. Len(cmds),
         cmds[i].user, cmds[i].name \in {"SET", "ADD"}
  PROVE  ToSet(cmds[i].keys) \subseteq db[HostOf(c)].index
<1> DEFINE On(name) == UNION {ToSet(cmd.keys) : cmd \in {x \in ToSet(Executes(c)) :
                                                       x.user /\ x.name = name}}
<1>1. On("SET") \cup On("ADD") \subseteq db[HostOf(c)].index
  <2>1. \A e \in {"unindexed"} :
          Index /\ pc[c] # "write" /\ ~(On("SET") \cup On("ADD") \subseteq db[HostOf(c)].index)
            => e \in Crossed(c)
    BY DEF Crossed
  <2>. QED BY <2>1
<1>2. cmds[i] \in ToSet(Executes(c))
  <2> DEFINE C == Command
  <2>1. cmds \in Seq(C)
    OBVIOUS
  <2> HIDE DEF C
  <2>2. DOMAIN cmds = 1 .. Len(cmds)
    BY <2>1
  <2>3. cmds[i] \in ToSet(cmds)
    BY <2>2 DEF ToSet
  <2>. QED BY <2>3
<1>3. ToSet(cmds[i].keys) \subseteq On(cmds[i].name)
  BY <1>2
<1>. QED BY <1>1, <1>3

\* A server whose index has all its keys.
Covers(s) == \A k \in Keys : s.data[k] # Nil => k \in s.index

\* Servers with an index, and with no other keys than some.
Within(J, X) == {t \in Server : t.index = X /\ \A k \in Keys : t.data[k] # Nil => k \in J}

\* A command that writes none but these keys, and leaves the index alone.
WritesIn(cmd, J) ==
  /\ cmd.name \notin {"SADD", "SREM"} /\ (cmd.name \in {"ADD", "EXPIRE"} => cmd.keys # <<>>)
  /\ cmd.name \in {"SET", "ADD"} => ToSet(cmd.keys) \subseteq J

\* One command writes the keys it names.
LEMMA RunWithin ==
  ASSUME NEW J, NEW X, NEW t \in Within(J, X), NEW cmd \in Command, WritesIn(cmd, J)
  PROVE  Run(t, cmd) \in Within(J, X)
<1> DEFINE u == Run(t, cmd)  ks == ToSet(cmd.keys)
<1>1. t \in Server /\ t.index = X /\ \A k \in Keys : t.data[k] # Nil => k \in J
  BY DEF Within
<1>2. u \in Server /\ u.data = Changed(t.data, cmd) /\ u.index = t.index
  BY <1>1, RunType DEF WritesIn
<1>3. Changing(t.data, u.data, cmd.name, ks, cmd.keys # <<>>)
  <2>1. t.data \in [Keys -> Value]
    BY <1>1 DEF Server
  <2>. QED BY <1>2, <2>1, ChangedAt
<1> HIDE DEF u
<1>4. ASSUME NEW k \in Keys, u.data[k] # Nil PROVE k \in J
  <2> DEFINE v == u.data[k]  d == t.data[k]
  <2>1. /\ cmd.name \notin {"SET", "ADD", "EXPIRE", "DEL"} => v = d
        /\ k \notin ks => v = d \/ (cmd.name \in {"ADD", "EXPIRE"} /\ ~(cmd.keys # <<>>))
        /\ cmd.name = "DEL" => v \in {d, Nil}
        /\ cmd.name = "EXPIRE" /\ d = Nil => v = Nil
    BY <1>3 DEF Changing
  <2>2. d # Nil => k \in J
    BY <1>1
  <2> HIDE DEF v, d
  <2>3. v # Nil
    BY <1>4 DEF v
  <2>. QED BY <2>1, <2>2, <2>3 DEF WritesIn
<1>. QED BY <1>1, <1>2, <1>4 DEF Within, u

\* Several commands write the keys they name.
LEMMA RunAllWithin ==
  ASSUME NEW J, NEW X, NEW s \in Within(J, X), NEW cmds \in Seq(Command),
         \A i \in 1 .. Len(cmds) : cmds[i] \in Command /\ WritesIn(cmds[i], J)
  PROVE  RunAll(s, cmds) \in Within(J, X)
<1>1. Within(J, X) \subseteq Server
  BY DEF Within
<1>2. \A t \in Within(J, X), i \in 1 .. Len(cmds) : Run(t, cmds[i]) \in Within(J, X)
  BY RunWithin
<1>. QED BY <1>1, <1>2, RunAllKeeps

\* A server whose index names every key is left so by a command and its index command.
LEMMA WriteAndIndex ==
  ASSUME NEW s \in Server, Covers(s), NEW x \in Command, NEW y \in Command, x.keys = y.keys, x.keys # <<>>,
         (x.name \in {"SET", "ADD"} /\ y.name = "SADD") \/ (x.name = "DEL" /\ y.name = "SREM")
  PROVE  Covers(RunAll(s, <<x, y>>))
<1> DEFINE t == Run(s, x)  u == Run(t, y)  ks == ToSet(x.keys)
<1>1. t \in Server /\ t.data = Changed(s.data, x) /\ t.index = s.index
  BY RunType
<1>2. /\ u.data = Changed(t.data, y)
      /\ u.index = IF y.name = "SADD" THEN t.index \cup ks ELSE t.index \ ks
  BY <1>1, RunType
<1>3. Changing(s.data, t.data, x.name, ks, x.keys # <<>>)
  BY <1>1, ChangedAt DEF Server
<1>4. Changing(t.data, u.data, y.name, ks, x.keys # <<>>)
  BY <1>1, <1>2, ChangedAt DEF Server
<1>5. RunAll(s, <<x, y>>) = u
  BY RunAllFew
<1> HIDE DEF t, u
<1>6. ASSUME NEW k \in Keys, u.data[k] # Nil PROVE k \in u.index
  <2>1. u.data[k] = t.data[k]
    BY <1>4 DEF Changing
  <2>2. s.data[k] # Nil => k \in s.index
    BY DEF Covers
  <2>3. CASE k \in ks
    <3>1. x.name = "DEL" => t.data[k] = Nil
      BY <1>3, <2>3 DEF Changing
    <3>. QED BY <1>2, <1>6, <2>1, <2>3, <3>1
  <2>4. CASE k \notin ks
    <3>1. t.data[k] = s.data[k]
      BY <1>3, <2>4 DEF Changing
    <3>. QED BY <1>1, <1>2, <1>6, <2>1, <2>2, <2>4, <3>1
  <2>. QED BY <2>3, <2>4
<1>. QED BY <1>5, <1>6 DEF Covers

\* The requests that change nothing.
LEMMA AskedReads ==
  ASSUME CallInv, NEW c \in Clients,
         pc[c] \in {"mget", "read", "readPrev", "list", "type", "fetch"}
  PROVE  \E x \in Command : Asked(c) = <<x>> /\ x.name \in {"GET", "COUNT", "MGET", "LIST", "TYPE"}
<1> DEFINE p == pc[c]  f == frame[c]
<1>1. CallIs(p, op[c], f, multi[c]) /\ op[c] \in Op
  BY CallFacts, TypedFields
<1>2. CASE p \in {"mget", "read", "readPrev"}
  <2> DEFINE o == op[c]  ks == IF p = "mget" THEN KeysAt(Head(f.nodes), o.keys) ELSE o.keys
             x == UserCommand(o, ks)
  <2>1. Asked(c) = <<x>>
    BY <1>2, RequestParts
  <2>2. o.m \in Reads /\ ks \in Seq(Keys)
    <3>1. o.m \in Reads
      BY <1>1, <1>2 DEF CallIs, Reads
    <3>. QED BY <1>1, <3>1, OpFields, KeysAtHost
  <2>3. x \in Command /\ x.name \in {"GET", "COUNT", "MGET"}
    <3> HIDE DEF o, ks
    <3>. QED BY <1>1, <2>2, UserCommands DEF o
  <2>. QED BY <2>1, <2>3
<1>3. CASE p = "list"
  <2> DEFINE none == <<>>
  <2>1. none \in Seq(Keys) /\ "LIST" \in Names
    BY DEF Names
  <2>2. Asked(c) = <<OnKeys("LIST", none)>>
    BY <1>3, RequestParts
  <2> HIDE DEF none
  <2>3. OnKeys("LIST", none) \in Command /\ OnKeys("LIST", none).name = "LIST"
    BY <2>1, ArrayCommands
  <2>. QED BY <2>2, <2>3
<1>4. CASE p \in {"type", "fetch"}
  <2> DEFINE j == f.key  name == IF p = "type" THEN "TYPE" ELSE "GET"  ks == <<j>>
  <2>1. j \in Keys
    BY <1>1, <1>4 DEF CallIs, Moves
  <2>2. ks \in Seq(Keys) /\ name \in Names /\ name \in {"TYPE", "GET"}
    <3> HIDE DEF j
    <3>. QED BY <2>1 DEF Names
  <2>3. Asked(c) = <<OnKeys(name, ks)>>
    BY <1>4, RequestParts
  <2> HIDE DEF name, ks
  <2>4. OnKeys(name, ks) \in Command /\ OnKeys(name, ks).name = name
    BY <2>2, ArrayCommands
  <2>. QED BY <2>2, <2>3, <2>4
<1>. QED BY <1>2, <1>3, <1>4

\* What is carried out leaves every key named by the index.
LEMMA ExecCovers ==
  ASSUME CallInv, Index, NEW c \in Clients, pc[c] \in Busy, Covers(db[HostOf(c)]),
         "unindexed" \notin Crossed(c)
  PROVE  Covers(RunAll(db[HostOf(c)], Executes(c)))
<1> DEFINE s == db[HostOf(c)]  cmds == Executes(c)  f == frame[c]  q == Of(c).queue  p == pc[c]
           X == s.index
<1>1. /\ Typed /\ Goes(c) /\ CallIs(p, op[c], f, multi[c]) /\ HostOf(c) \in Servers /\ s \in Server
      /\ cmds \in Seq(Command) /\ op[c] \in Op
  BY CallFacts, RequestGoes, ServedTyped, TypedFields
<1>2. RunAll(s, <<>>) = s
  BY <1>1, RunAllNone
<1>3. CASE cmds = <<>>
  BY <1>2, <1>3
<1>4. s \in Within(X, X)
  BY <1>1 DEF Within, Covers
<1>5. \A J, t : t \in Within(X, X) => Covers(t)
  BY DEF Within, Covers
<1>6. ASSUME \A i \in 1 .. Len(cmds) : cmds[i] \in Command /\ WritesIn(cmds[i], X)
      PROVE  Covers(RunAll(s, cmds))
  <2> HIDE DEF s, cmds, X
  <2>1. RunAll(s, cmds) \in Within(X, X)
    BY <1>1, <1>4, <1>6, RunAllWithin
  <2>. QED BY <1>5, <2>1
<1>7. CASE p \in {"mget", "read", "readPrev", "list", "type", "fetch"} /\ cmds = Asked(c)
  <2>1. \E x \in Command : Asked(c) = <<x>> /\ x.name \in {"GET", "COUNT", "MGET", "LIST", "TYPE"}
    BY <1>7, AskedReads
  <2>2. PICK x \in Command : Asked(c) = <<x>> /\ x.name \in {"GET", "COUNT", "MGET", "LIST", "TYPE"}
    BY <2>1
  <2>3. WritesIn(x, X)
    BY <2>2 DEF WritesIn
  <2>4. Len(<<x>>) = 1 /\ <<x>>[1] = x
    OBVIOUS
  <2>. QED BY <1>6, <1>7, <2>2, <2>3, <2>4
<1>8. CASE p = "write" /\ cmds = Asked(c)
  <2> DEFINE o == op[c]  ks == KeysAt(Head(f.nodes), o.keys)  x == UserCommand(o, ks)
             y == IndexCommand(o, ks)
  <2>1. Asked(c) = <<x, y>>
    BY <1>8, RequestParts
  <2>2. o.m \in Writes /\ ks \in Seq(Keys) /\ ks # <<>>
    <3>1. o.m \in Writes /\ Head(f.nodes) \in {HomeOf(k) : k \in ToSet(o.keys)}
      <4>1. f.nodes \in Seq(Servers)
        BY <1>1, TypedFields, LocalFields
      <4>. QED BY <1>1, <1>8, <4>1, FirstNode DEF CallIs
    <3>. QED BY <1>1, <3>1, OpFields, KeysAtHost
  <2> HIDE DEF o, ks
  <2>3. /\ x \in Command /\ x.keys = ks /\ y \in Command /\ y.keys = ks
        /\ (x.name \in {"SET", "ADD"} /\ y.name = "SADD") \/ (x.name = "DEL" /\ y.name = "SREM")
    <3>1. o \in Op
      BY <1>1 DEF o
    <3>2. /\ x \in Command /\ x.keys = ks
          /\ o.m = "del" => x.name = "DEL"
          /\ o.m # "del" => x.name \in {"SET", "ADD"}
      BY <2>2, <3>1, UserCommands
    <3>3. y \in Command /\ y.keys = ks /\ y.name = IF o.m = "del" THEN "SREM" ELSE "SADD"
      BY <2>2, IndexCommands
    <3>. QED BY <3>2, <3>3
  <2> HIDE DEF x, y, s
  <2>4. Covers(RunAll(s, <<x, y>>))
    BY <1>1, <2>2, <2>3, WriteAndIndex DEF s
  <2>. QED BY <1>8, <2>1, <2>4 DEF s
<1>9. CASE p = "delKey" /\ cmds = Asked(c)
  <2> DEFINE j == f.key  ks == <<j>>  x == OnKeys("DEL", ks)  y == OnKeys("SREM", ks)
  <2>1. Asked(c) = <<x, y>>
    BY <1>9, RequestParts
  <2>2. j \in Keys
    BY <1>1, <1>9 DEF CallIs, Moves
  <2>3. ks \in Seq(Keys) /\ ks # <<>> /\ "DEL" \in Names /\ "SREM" \in Names
    <3> HIDE DEF j
    <3>. QED BY <2>2 DEF Names
  <2> HIDE DEF ks
  <2>4. /\ x \in Command /\ x.keys = ks /\ y \in Command /\ y.keys = ks
        /\ y.name = "SREM" /\ x.name = "DEL"
    BY <2>3, ArrayCommands
  <2> HIDE DEF x, y, s
  <2>5. Covers(RunAll(s, <<x, y>>))
    BY <1>1, <2>3, <2>4, WriteAndIndex DEF s
  <2>. QED BY <1>9, <2>1, <2>5 DEF s
<1>10. CASE p \in {"forward", "exec"}
  <2>1. ASSUME NEW i \in 1 .. Len(cmds) PROVE cmds[i] \in Command /\ Fits(FALSE, p, f, Request(c)[1], cmds[i])
    <3>1. CASE p = "forward" /\ cmds = Asked(c)
      <4>1. Queued(FALSE, "forward", f, Request(c)[1], Asked(c)) /\ Asked(c) \in Seq(Command)
        BY <3>1, UserFits
      <4>2. Fits(FALSE, "forward", f, Request(c)[1], cmds[i])
        BY <3>1, <4>1 DEF Queued
      <4>3. cmds[i] \in Command
        <5> HIDE DEF cmds
        <5>. QED BY <1>1
      <4>. QED BY <3>1, <4>2, <4>3
    <3>2. CASE p = "exec" /\ cmds = q
      <4>1. p # "multi" /\ i \in 1 .. Len(q)
        BY <3>2
      <4>2. q[i] \in Command /\ Fits(FALSE, p, f, Request(c)[1], q[i])
        BY <4>1, QueueFits
      <4>. QED BY <3>2, <4>2
    <3>3. cmds = <<>> \/ (p = "forward" /\ cmds = Asked(c)) \/ (p = "exec" /\ cmds = q)
      BY <1>10, ExecutesOf
    <3>4. cmds # <<>>
      <4>1. Len(<<>>) = 0
        OBVIOUS
      <4> HIDE DEF cmds
      <4>. QED BY <4>1
    <3> HIDE DEF cmds, p, f
    <3>. QED BY <3>1, <3>2, <3>3, <3>4
  <2>2. ASSUME NEW i \in 1 .. Len(cmds) PROVE cmds[i] \in Command /\ WritesIn(cmds[i], X)
    <3> DEFINE x == cmds[i]
    <3>1. /\ x \in Command /\ x.name \notin {"SADD", "SREM"}
          /\ x.name \in {"ADD", "EXPIRE"} => x.keys # <<>>
          /\ x.name \in {"SET", "ADD"} /\ ~x.user => FALSE
      <4>1. x \in Command /\ Fits(FALSE, p, f, Request(c)[1], x)
        BY <2>1
      <4>2. p \notin {"delKey", "moveExec"}
        BY <1>10
      <4> HIDE DEF x
      <4>. QED BY <4>1, <4>2 DEF Fits
    <3>2. x.user /\ x.name \in {"SET", "ADD"} => ToSet(x.keys) \subseteq X
      <4>1. p # "write"
        BY <1>10
      <4> HIDE DEF cmds
      <4>. QED BY <1>1, <4>1, IndexedWrites DEF cmds
    <3> HIDE DEF x, X
    <3>3. WritesIn(x, X)
      BY <3>1, <3>2, CommandFields DEF WritesIn
    <3>. QED BY <3>1, <3>3 DEF x
  <2>. QED BY <1>6, <2>2
<1>11. CASE p = "moveExec"
  <2> DEFINE j == f.key  J == IF f.success THEN X \cup {j} ELSE X  r == Request(c)[1]
  <2>0. q \in Seq(Command) /\ j \in Keys
    <3>1. Of(c) \in Connection
      BY <1>1, ServedTyped
    <3>. QED BY <1>1, <1>11, <3>1, ConnectionFields DEF CallIs, Moves
  <2>1. cmds # <<>> => \A i \in 1 .. Len(q) : q[i] \in Command /\ WritesIn(q[i], J)
    <3> SUFFICES ASSUME cmds # <<>>, NEW i \in 1 .. Len(q) PROVE q[i] \in Command /\ WritesIn(q[i], J)
      OBVIOUS
    <3> DEFINE x == q[i]
    <3>1. x \in Command /\ Fits(FALSE, p, f, r, x)
      <4>1. p # "multi"
        BY <1>11
      <4>. QED BY <4>1, QueueFits
    <3>2. x.user /\ x.name \in {"SET", "ADD"} => ToSet(x.keys) \subseteq X
      <4>1. p # "write"
        BY <1>11
      <4>2. i \in 1 .. Len(cmds) /\ cmds[i] = x
        <5>1. cmds = q \/ (\E y : cmds = Append(q, y))
          BY <1>11, ExecutesOf
        <5>2. CASE cmds = q
          BY <5>2
        <5>3. CASE \E y : cmds = Append(q, y)
          <6>1. PICK y : cmds = Append(q, y)
            BY <5>3
          <6> DEFINE C == Command
          <6>2. q \in Seq(C)
            BY <2>0
          <6> HIDE DEF q, cmds, C
          <6>3. Len(q) \in Nat /\ Len(Append(q, y)) = Len(q) + 1 /\ Append(q, y)[i] = q[i]
            BY <6>2
          <6>. QED BY <6>1, <6>3
        <5>. QED BY <5>1, <5>2, <5>3
      <4> HIDE DEF cmds, x
      <4>. QED BY <1>1, <4>1, <4>2, IndexedWrites DEF cmds
    <3> HIDE DEF x, X
    <3>3. x.name \in {"SET", "ADD"} => ToSet(x.keys) \subseteq J
      <4>1. CASE x.user
        BY <3>2, <4>1
      <4>2. CASE ~x.user
        <5>1. x.name \in {"SET", "ADD"} => f.success /\ x.keys = <<j>>
          BY <3>1, <4>2 DEF Fits
        <5>2. ToSet(<<j>>) = {j}
          BY <2>0, Pairs
        <5>. QED BY <5>1, <5>2
      <4>. QED BY <4>1, <4>2
    <3> HIDE DEF J
    <3>4. WritesIn(x, J)
      BY <3>1, <3>3 DEF WritesIn, Fits
    <3>. QED BY <3>1, <3>4 DEF x
  <2>2. s \in Within(J, X)
    BY <1>4 DEF Within
  <2>3. cmds # <<>> => RunAll(s, q) \in Within(J, X)
    <3> HIDE DEF s, q, J, X, cmds
    <3>. QED BY <2>0, <2>1, <2>2, RunAllWithin
  <2>4. CASE ~f.success /\ cmds = q /\ cmds # <<>>
    <3>1. RunAll(s, cmds) \in Within(X, X)
      <4>1. J = X
        BY <2>4
      <4> HIDE DEF J, X, cmds, q, s
      <4>. QED BY <2>3, <2>4, <4>1
    <3>. QED BY <1>5, <3>1
  <2>5. CASE f.success /\ cmds = Append(q, OnKeys("SADD", <<j>>)) /\ cmds # <<>>
    <3> DEFINE ks == <<j>>  y == OnKeys("SADD", ks)  t == RunAll(s, q)  u == Run(t, y)
    <3>1. ks \in Seq(Keys) /\ "SADD" \in Names /\ ToSet(ks) = {j}
      <4> HIDE DEF j
      <4>. QED BY <2>0, Pairs DEF Names
    <3> HIDE DEF ks
    <3>2. y \in Command /\ y.keys = ks /\ y.name = "SADD"
      BY <3>1, ArrayCommands
    <3>3. RunAll(s, cmds) = u
      <4>1. cmds = Append(q, y)
        BY <2>5 DEF ks
      <4> HIDE DEF s, q, y, cmds
      <4>. QED BY <1>1, <2>0, <3>2, <4>1, RunAllLast DEF s
    <3>4. t \in Server /\ t.index = X /\ \A k \in Keys : t.data[k] # Nil => k \in X \cup {j}
      <4>1. t \in Within(J, X) /\ J = X \cup {j}
        BY <2>3, <2>5
      <4> HIDE DEF J, X, t
      <4>. QED BY <4>1 DEF Within
    <3> HIDE DEF t, y
    <3>5. u.data = Changed(t.data, y) /\ u.index = t.index \cup {j}
      <4>1. /\ Run(t, y).data = Changed(t.data, y)
            /\ y.name = "SADD" => Run(t, y).index = t.index \cup ToSet(y.keys)
        BY <3>2, <3>4, RunType
      <4>. QED BY <3>1, <3>2, <4>1
    <3>6. \A k \in Keys : u.data[k] = t.data[k]
      <4>1. Changing(t.data, u.data, y.name, ToSet(y.keys), y.keys # <<>>)
        BY <3>2, <3>4, <3>5, ChangedAt DEF Server
      <4>. QED BY <3>2, <4>1 DEF Changing
    <3>7. Covers(u)
      <4> HIDE DEF u, X
      <4>. QED BY <3>4, <3>5, <3>6 DEF Covers
    <3>. QED BY <3>3, <3>7
  <2>6. cmds = <<>> \/ (~f.success /\ cmds = q) \/ (f.success /\ cmds = Append(q, OnKeys("SADD", <<j>>)))
    BY <1>11, ExecutesOf
  <2>. QED BY <1>3, <2>4, <2>5, <2>6
<1>12. CASE p \in {"multi", "moveMulti", "discard", "store"}
  BY <1>3, <1>12, ExecutesOf
<1>13. CASE p \in Looking
  BY <1>3, <1>7, <1>8, <1>9, <1>13, ExecutesOf DEF Looking
<1>14. p \in {"multi", "moveMulti", "discard", "store", "forward", "exec", "moveExec"} \cup Looking
  BY DEF Busy, Steps, Looking
<1>. QED BY <1>10, <1>11, <1>12, <1>13, <1>14

\* A command that leaves alone what lives elsewhere than at a host.
Homely(cmd, h) ==
  \/ cmd.name \notin {"SET", "ADD", "EXPIRE", "DEL", "SADD", "SREM"}
  \/ /\ cmd.name \in {"ADD", "EXPIRE"} => cmd.keys # <<>>
     /\ \A k \in ToSet(cmd.keys) : HomeOf(k) = h

\* What of a server lives elsewhere is the same.
SameElsewhere(t, u, h) ==
  \A k \in Keys : HomeOf(k) # h => u.data[k] = t.data[k] /\ (k \in u.index <=> k \in t.index)

\* A command on keys that live here leaves the others alone.
LEMMA HomelyRun ==
  ASSUME NEW h, NEW t \in Server, NEW cmd \in Command, Homely(cmd, h)
  PROVE  SameElsewhere(t, Run(t, cmd), h)
<1> DEFINE u == Run(t, cmd)  ks == ToSet(cmd.keys)
<1>1. /\ u.data = Changed(t.data, cmd)
      /\ u.index = IF cmd.name = "SADD" THEN t.index \cup ks
                   ELSE IF cmd.name = "SREM" THEN t.index \ ks ELSE t.index
  BY RunType
<1>2. Changing(t.data, u.data, cmd.name, ks, cmd.keys # <<>>)
  BY <1>1, ChangedAt DEF Server
<1> HIDE DEF u
<1>3. ASSUME NEW k \in Keys, HomeOf(k) # h
      PROVE  u.data[k] = t.data[k] /\ (k \in u.index <=> k \in t.index)
  <2> DEFINE v == u.data[k]  d == t.data[k]
  <2>1. /\ cmd.name \notin {"SET", "ADD", "EXPIRE", "DEL"} => v = d
        /\ k \notin ks => v = d \/ (cmd.name \in {"ADD", "EXPIRE"} /\ ~(cmd.keys # <<>>))
    BY <1>2 DEF Changing
  <2> HIDE DEF v, d
  <2>2. v = d /\ (k \in u.index <=> k \in t.index)
    BY <1>1, <1>3, <2>1 DEF Homely
  <2>. QED BY <2>2 DEF v, d
<1>. QED BY <1>3 DEF SameElsewhere, u

\* Several such commands do.
LEMMA HomelyRunAll ==
  ASSUME NEW h, NEW s \in Server, NEW cmds \in Seq(Command),
         \A i \in 1 .. Len(cmds) : cmds[i] \in Command /\ Homely(cmds[i], h)
  PROVE  SameElsewhere(s, RunAll(s, cmds), h)
<1> DEFINE I == {t \in Server : SameElsewhere(s, t, h)}
<1>1. I \subseteq Server
  OBVIOUS
<1>2. s \in I
  BY DEF SameElsewhere
<1>3. ASSUME NEW t \in I, NEW i \in 1 .. Len(cmds) PROVE Run(t, cmds[i]) \in I
  <2> DEFINE x == cmds[i]  u == Run(t, x)
  <2>1. x \in Command /\ Homely(x, h) /\ t \in Server /\ SameElsewhere(s, t, h)
    OBVIOUS
  <2> HIDE DEF x
  <2>2. u \in Server /\ SameElsewhere(t, u, h)
    BY <2>1, HomelyRun, RunType
  <2> HIDE DEF u
  <2>3. SameElsewhere(s, u, h)
    BY <2>1, <2>2 DEF SameElsewhere
  <2>. QED BY <2>2, <2>3 DEF u, x
<1> HIDE DEF I
<1>4. RunAll(s, cmds) \in I
  BY <1>1, <1>2, <1>3, RunAllKeeps
<1>. QED BY <1>4 DEF I

\* Only ra_del_key reaches keys that live elsewhere.
LEMMA ExecElsewhere ==
  ASSUME CallInv, NEW c \in Clients, pc[c] \in Busy, pc[c] # "delKey"
  PROVE  SameElsewhere(db[HostOf(c)], RunAll(db[HostOf(c)], Executes(c)), HostOf(c))
<1> DEFINE h == HostOf(c)  s == db[h]  cmds == Executes(c)  f == frame[c]  q == Of(c).queue  p == pc[c]
           r == Request(c)[1]
<1>1. /\ Typed /\ Goes(c) /\ CallIs(p, op[c], f, multi[c]) /\ s \in Server
      /\ cmds \in Seq(Command) /\ op[c] \in Op /\ r \in Connections
  BY CallFacts, RequestGoes, ServedTyped, TypedFields
<1>2. RunAll(s, <<>>) = s
  BY <1>1, RunAllNone
<1>3. CASE cmds = <<>>
  BY <1>2, <1>3 DEF SameElsewhere
<1>4. ASSUME \A i \in 1 .. Len(cmds) : cmds[i] \in Command /\ Homely(cmds[i], h)
      PROVE  SameElsewhere(s, RunAll(s, cmds), h)
  <2> HIDE DEF s, cmds, h
  <2>. QED BY <1>1, <1>4, HomelyRunAll
<1>5. CASE p \in {"mget", "read", "readPrev", "list", "type", "fetch"} /\ cmds = Asked(c)
  <2>1. PICK x \in Command : Asked(c) = <<x>> /\ x.name \in {"GET", "COUNT", "MGET", "LIST", "TYPE"}
    BY <1>5, AskedReads
  <2>2. Homely(x, h)
    BY <2>1 DEF Homely
  <2>3. Len(<<x>>) = 1 /\ <<x>>[1] = x
    OBVIOUS
  <2>. QED BY <1>4, <1>5, <2>1, <2>2, <2>3
<1>6. CASE p = "write" /\ cmds = Asked(c)
  <2> DEFINE o == op[c]  g == Head(f.nodes)  ks == KeysAt(g, o.keys)  x == UserCommand(o, ks)
             y == IndexCommand(o, ks)
  <2>1. Asked(c) = <<x, y>> \/ Asked(c) = <<x>>
    BY <1>1, <1>6, RequestParts DEF OptionAssumption
  <2>2. o.m \in Writes /\ g \in {HomeOf(k) : k \in ToSet(o.keys)} /\ o.keys \in Seq(Keys) /\ o \in Op
    <3>1. f.nodes \in Seq(Servers)
      BY <1>1, TypedFields, LocalFields
    <3>. QED BY <1>1, <1>6, <3>1, FirstNode, OpFields DEF CallIs
  <2>3. h = g
    <3>1. r = Ring(g)
      BY <1>1, <1>6 DEF Goes
    <3>. QED BY <3>1, ConnectionsApart DEF HostOf
  <2>4. ks \in Seq(Keys) /\ ks # <<>> /\ \A k \in ToSet(ks) : HomeOf(k) = g
    <3> HIDE DEF g, o
    <3>. QED BY <2>2, KeysAtHost
  <2> HIDE DEF o, ks, g
  <2>5. x \in Command /\ x.keys = ks /\ y \in Command /\ y.keys = ks
    <3>1. x \in Command /\ x.keys = ks
      BY <2>2, <2>4, UserCommands
    <3>2. y \in Command /\ y.keys = ks
      BY <2>4, IndexCommands
    <3>. QED BY <3>1, <3>2
  <2> HIDE DEF x, y
  <2>6. Homely(x, h) /\ Homely(y, h)
    BY <2>3, <2>4, <2>5 DEF Homely
  <2>7. Len(<<x>>) = 1 /\ <<x>>[1] = x /\ Len(<<x, y>>) = 2 /\ <<x, y>>[1] = x /\ <<x, y>>[2] = y
    OBVIOUS
  <2>8. ASSUME NEW i \in 1 .. Len(cmds) PROVE cmds[i] \in {x, y}
    <3>1. CASE cmds = <<x>>
      BY <2>7, <3>1
    <3>2. CASE cmds = <<x, y>>
      BY <2>7, <3>2
    <3>. QED BY <1>6, <2>1, <3>1, <3>2
  <2>. QED BY <1>4, <2>5, <2>6, <2>8
<1>7. ASSUME NEW x \in Command, NEW w, Fits(FALSE, w, f, r, x), r = Ring(h) PROVE Homely(x, h)
  <2>1. \A k \in ToSet(x.keys) : r = Ring(HomeOf(k))
    BY <1>7 DEF Fits
  <2>2. \A k \in ToSet(x.keys) : HomeOf(k) = h
    BY <1>7, <2>1, ConnectionsApart
  <2>. QED BY <1>7, <2>2 DEF Homely, Fits
<1>8. p \in {"forward", "exec", "moveExec"} => r = Ring(h)
  BY <1>1, ConnectionsApart DEF Goes, HostOf
<1>9. CASE p \in {"forward", "exec"} /\ cmds # <<>>
  <2>1. ASSUME NEW i \in 1 .. Len(cmds) PROVE cmds[i] \in Command /\ Fits(FALSE, p, f, r, cmds[i])
    <3>1. CASE p = "forward" /\ cmds = Asked(c)
      <4>1. Queued(FALSE, "forward", f, r, Asked(c))
        BY <3>1, UserFits
      <4>2. Fits(FALSE, "forward", f, r, cmds[i])
        BY <3>1, <4>1 DEF Queued
      <4>3. cmds[i] \in Command
        <5> HIDE DEF cmds
        <5>. QED BY <1>1
      <4>. QED BY <3>1, <4>2, <4>3
    <3>2. CASE p = "exec" /\ cmds = q
      <4>1. p # "multi" /\ i \in 1 .. Len(q)
        BY <3>2
      <4>2. q[i] \in Command /\ Fits(FALSE, p, f, r, q[i])
        BY <4>1, QueueFits
      <4>. QED BY <3>2, <4>2
    <3>3. (p = "forward" /\ cmds = Asked(c)) \/ (p = "exec" /\ cmds = q)
      BY <1>9, ExecutesOf
    <3>. QED BY <3>1, <3>2, <3>3
  <2>. QED BY <1>4, <1>7, <1>8, <1>9, <2>1
<1>10. CASE p = "moveExec" /\ cmds # <<>>
  <2> DEFINE j == f.key  ks == <<j>>  y == OnKeys("SADD", ks)
  <2>1. j \in Keys /\ q \in Seq(Command) /\ h = HomeOf(j)
    <3>1. Of(c) \in Connection
      BY <1>1, ServedTyped
    <3>2. j \in Keys /\ r = Ring(HomeOf(j))
      BY <1>1, <1>10 DEF CallIs, Moves, Goes
    <3>. QED BY <3>1, <3>2, ConnectionFields, ConnectionsApart DEF HostOf
  <2>2. ASSUME NEW i \in 1 .. Len(q) PROVE q[i] \in Command /\ Homely(q[i], h)
    <3>1. q[i] \in Command /\ Fits(FALSE, p, f, r, q[i])
      BY <1>10, QueueFits
    <3>. QED BY <1>7, <1>8, <1>10, <3>1
  <2>3. y \in Command /\ Homely(y, h)
    <3>1. ks \in Seq(Keys) /\ "SADD" \in Names /\ ToSet(ks) = {j}
      <4> HIDE DEF j
      <4>. QED BY <2>1, Pairs DEF Names
    <3> HIDE DEF ks
    <3>2. y \in Command /\ y.keys = ks /\ y.name = "SADD"
      BY <3>1, ArrayCommands
    <3> HIDE DEF y
    <3>. QED BY <2>1, <3>1, <3>2 DEF Homely
  <2>4. CASE cmds = q
    BY <1>4, <2>2, <2>4
  <2>5. CASE cmds = Append(q, y)
    <3>1. ASSUME NEW i \in 1 .. Len(cmds) PROVE (i \in 1 .. Len(q) /\ cmds[i] = q[i]) \/ cmds[i] = y
      <4> DEFINE C == Command
      <4>1. q \in Seq(C)
        BY <2>1
      <4> HIDE DEF q, y, cmds, C
      <4>2. Len(q) \in Nat /\ Len(cmds) = Len(q) + 1 /\ cmds[Len(q) + 1] = y
        BY <2>5, <4>1
      <4>3. \A n \in 1 .. Len(q) : cmds[n] = q[n]
        BY <2>5, <4>1
      <4>. QED BY <4>2, <4>3
    <3>2. ASSUME NEW i \in 1 .. Len(cmds) PROVE cmds[i] \in Command /\ Homely(cmds[i], h)
      <4> HIDE DEF q, y, cmds, h
      <4>. QED BY <2>2, <2>3, <3>1
    <3>. QED BY <1>4, <3>2
  <2>. QED BY <1>10, <2>4, <2>5, ExecutesOf
<1>11. CASE p \in {"multi", "moveMulti", "discard", "store"}
  BY <1>3, <1>11, ExecutesOf
<1>12. CASE p \in Looking
  BY <1>3, <1>5, <1>6, <1>12, ExecutesOf DEF Looking
<1>13. p \in {"multi", "moveMulti", "discard", "store", "forward", "exec", "moveExec"} \cup Looking
  BY DEF Busy, Steps, Looking
<1>. QED BY <1>3, <1>9, <1>10, <1>11, <1>12, <1>13

\* ra_del_key takes its key, and nothing else, from the source and from its index.
LEMMA DelKeyTakes ==
  ASSUME CallInv, NEW c \in Clients, pc[c] = "delKey"
  PROVE  LET s == db[HostOf(c)]  u == RunAll(s, Executes(c))  j == frame[c].key
         IN /\ u.data[j] = Nil
            /\ \A k \in Keys : k # j => u.data[k] = s.data[k] /\ (k \in u.index <=> k \in s.index)
<1> DEFINE s == db[HostOf(c)]  cmds == Executes(c)  f == frame[c]
           j == f.key  ks == <<j>>  x == OnKeys("DEL", ks)  y == OnKeys("SREM", ks)
           t == Run(s, x)  u == Run(t, y)
<1>1. /\ Typed /\ CallIs(pc[c], op[c], f, multi[c]) /\ s \in Server /\ pc[c] \in Busy
  <2>1. pc[c] \in Busy
    BY DEF Busy, Steps
  <2>. QED BY <2>1, CallFacts, ServedTyped, TypedFields
<1>2. j \in Keys /\ ks \in Seq(Keys) /\ "DEL" \in Names /\ "SREM" \in Names /\ ToSet(ks) = {j}
  <2>1. j \in Keys
    BY <1>1 DEF CallIs, Moves
  <2> HIDE DEF j
  <2>. QED BY <2>1, Pairs DEF Names
<1>3. Asked(c) = <<x, y>> /\ ~Of(c).tx
  BY RequestParts, NotOpen
<1>4. /\ x \in Command /\ x.keys = ks /\ x.name = "DEL"
      /\ y \in Command /\ y.keys = ks /\ y.name = "SREM"
  <2> HIDE DEF ks
  <2>. QED BY <1>2, ArrayCommands
<1>5. cmds = <<x, y>>
  <2> DEFINE a == <<x, y>>  e == <<>>
  <2> HIDE DEF x, y
  <2>1. a \in Seq(Command) /\ Len(a) = 2 /\ a[1] = x /\ a[2] = y
    BY <1>4, Pairs
  <2> HIDE DEF a
  <2>2. e \o a = a
    BY <2>1, Joined
  <2>3. DOMAIN a = 1 .. 2
    <3> DEFINE C == Command
    <3>1. a \in Seq(C)
      BY <2>1
    <3> HIDE DEF C
    <3>. QED BY <2>1, <3>1
  <2>4. \A i \in DOMAIN a : ~TakesMemory(a[i])
    BY <1>4, <2>1, <2>3 DEF TakesMemory
  <2>5. Of(c).queue = <<>>
    BY <1>1, <1>3, CallFacts, ServedTyped DEF Linked, Links
  <2>6. (IF How(c) = "block" THEN Of(c).queue ELSE <<>>) \o Asked(c) = a
    BY <1>3, <2>2, <2>5 DEF a
  <2>7. ~Refuses(HostOf(c), a)
    BY <2>4 DEF Refuses
  <2>8. cmds = a
    BY <1>3, <2>6, <2>7 DEF Executes
  <2>. QED BY <2>8 DEF a
<1>6. RunAll(s, cmds) = u
  <2> HIDE DEF x, y, s, cmds
  <2>. QED BY <1>1, <1>4, <1>5, RunAllFew
<1>7. t \in Server /\ t.data = Changed(s.data, x) /\ t.index = s.index
  <2> HIDE DEF x, s
  <2>. QED BY <1>1, <1>4, RunType
<1> HIDE DEF ks
<1>8. Changing(s.data, t.data, "DEL", {j}, x.keys # <<>>)
  <2> HIDE DEF x, s, t
  <2>1. Changing(s.data, t.data, x.name, ToSet(x.keys), x.keys # <<>>)
    BY <1>1, <1>4, <1>7, ChangedAt DEF Server
  <2>. QED BY <1>2, <1>4, <2>1
<1>9. u.data = Changed(t.data, y) /\ u.index = t.index \ {j}
  <2> HIDE DEF y, t
  <2>1. /\ Run(t, y).data = Changed(t.data, y)
        /\ y.name = "SREM" => Run(t, y).index = t.index \ ToSet(y.keys)
    BY <1>4, <1>7, RunType
  <2>. QED BY <1>2, <1>4, <2>1
<1>10. Changing(t.data, u.data, "SREM", {j}, y.keys # <<>>)
  <2> HIDE DEF y, t, u
  <2>1. Changing(t.data, u.data, y.name, ToSet(y.keys), y.keys # <<>>)
    BY <1>4, <1>7, <1>9, ChangedAt DEF Server
  <2>. QED BY <1>2, <1>4, <2>1
<1> HIDE DEF t, u, s, cmds
<1>11. u.data[j] = Nil
  BY <1>2, <1>8, <1>10 DEF Changing
<1>12. ASSUME NEW k \in Keys, k # j PROVE u.data[k] = s.data[k] /\ (k \in u.index <=> k \in s.index)
  <2>1. u.data[k] = t.data[k]
    BY <1>10 DEF Changing
  <2>2. t.data[k] = s.data[k]
    BY <1>8, <1>12 DEF Changing
  <2>. QED BY <1>7, <1>9, <1>12, <2>1, <2>2
<1>. QED BY <1>6, <1>11, <1>12 DEF s, cmds

\* The steps whose requests only read.
Quiets == {"mget", "read", "readPrev", "list", "type", "fetch"}

\* Reading changes nothing on the servers.
LEMMA ReadingLeaves ==
  ASSUME CallInv, NEW c \in Clients, pc[c] \in Quiets, NEW cmds, cmds \in {Executes(c), <<>>},
         Serve(HostOf(c), cmds)
  PROVE  db' = db
<1> DEFINE h == HostOf(c)  s == db[h]
<1>1. /\ Typed /\ s \in Server /\ h \in Servers /\ db' = [db EXCEPT ![h] = RunAll(s, cmds)]
  <2>1. pc[c] \in Busy
    BY DEF Quiets, Busy, Steps
  <2>. QED BY <2>1, CallFacts, ServedTyped, TypedFields DEF Serve
<1>2. PICK x \in Command : Asked(c) = <<x>> /\ x.name \in {"GET", "COUNT", "MGET", "LIST", "TYPE"}
  BY AskedReads DEF Quiets
<1>3. cmds \in {<<>>, <<x>>}
  <2>1. pc[c] \in Looking /\ pc[c] \in Busy
    BY DEF Quiets, Looking, Busy, Steps
  <2>. QED BY <1>2, <2>1, ExecutesOf
<1>4. Run(s, x) = s
  <2>1. Run(s, x) \in Server /\ Run(s, x).data = Changed(s.data, x) /\ Run(s, x).index = s.index
    BY <1>1, <1>2, RunType
  <2>2. Changed(s.data, x) = s.data
    <3> DEFINE d == s.data
    <3> HIDE DEF d
    <3>1. Changed(d, x) = d
      BY <1>2 DEF Changed
    <3>. QED BY <3>1 DEF d
  <2> DEFINE u == Run(s, x)
  <2>3. u \in Server /\ u.data = s.data /\ u.index = s.index
    BY <2>1, <2>2
  <2> HIDE DEF u, s
  <2>4. u = s
    BY <1>1, <2>3 DEF Server
  <2>. QED BY <2>4 DEF u
<1>5. RunAll(s, cmds) = s
  <2> HIDE DEF s
  <2>. QED BY <1>1, <1>2, <1>3, <1>4, RunAllNone, RunAllFew
<1> HIDE DEF h
<1>6. db' = [db EXCEPT ![h] = db[h]] /\ db \in [Servers -> Server]
  BY <1>1, <1>5 DEF Typed
<1>. QED BY <1>6

\* The index goes on naming every key.
LEMMA IndexStays ==
  ASSUME CallInv, IndexCovers, NEW c \in Clients, pc[c] \in Busy, NEW cmds,
         cmds \in {Executes(c), <<>>}, Serve(HostOf(c), cmds), torn \subseteq torn',
         pc[c] \in {"write"} \cup Quiets \/ cmds = <<>> \/ Crossed(c) \subseteq torn'
  PROVE  IndexCovers'
<1> DEFINE h == HostOf(c)  s == db[h]
<1>1. /\ h \in Servers /\ s \in Server /\ db'[h] = RunAll(s, cmds)
      /\ \A g \in Servers : g # h => db'[g] = db[g]
  BY CallFacts, ServedTyped, TypedFields, LoseServes
<1> SUFFICES ASSUME Index, "unindexed" \notin torn', NEW g \in Servers PROVE Covers(db'[g])
  BY DEF IndexCovers, Covers, At
<1>2. \A x \in Servers : Covers(db[x])
  BY DEF IndexCovers, Covers, At
<1>3. CASE g # h
  BY <1>1, <1>2, <1>3
<1>4. CASE g = h
  <2>1. CASE cmds = <<>>
    BY <1>1, <1>2, <1>4, <2>1, RunAllNone
  <2>2. CASE pc[c] \in Quiets
    BY <1>2, <2>2, ReadingLeaves
  <2>3. CASE cmds = Executes(c) /\ "unindexed" \notin Crossed(c)
    <3>1. Covers(RunAll(s, cmds))
      BY <1>1, <1>2, <2>3, ExecCovers
    <3>. QED BY <1>1, <1>4, <3>1
  <2>4. pc[c] = "write" => "unindexed" \notin Crossed(c)
    BY DEF Crossed
  <2>. QED BY <2>1, <2>2, <2>3, <2>4
<1>. QED BY <1>3, <1>4

\* What a step leaves of the keys that do not live where they are.
Far(h, k) == db'[h].data[k] = db[h].data[k] /\ (k \in db'[h].index <=> k \in db[h].index)

\* No step adds a key where it does not live.
LEMMA FarStays ==
  ASSUME CallInv, NEW c \in Clients, pc[c] \in Busy, NEW cmds, cmds \in {Executes(c), <<>>},
         Serve(HostOf(c), cmds)
  PROVE  /\ \A h \in Servers, k \in Keys : h # HomeOf(k) =>
              \/ Far(h, k)
              \/ pc[c] = "delKey" /\ k = frame[c].key /\ db'[h].data[k] = Nil
         /\ pc[c] = "delKey" /\ cmds = Executes(c) => db'[HostOf(c)].data[frame[c].key] = Nil
<1> DEFINE h == HostOf(c)  s == db[h]  j == frame[c].key
<1>1. /\ h \in Servers /\ s \in Server /\ db'[h] = RunAll(s, cmds)
      /\ \A g \in Servers : g # h => db'[g] = db[g]
  BY CallFacts, ServedTyped, TypedFields, LoseServes
<1>2. ASSUME NEW g \in Servers, NEW k \in Keys, g # HomeOf(k)
      PROVE  Far(g, k) \/ (pc[c] = "delKey" /\ k = j /\ db'[g].data[k] = Nil)
  <2>1. CASE g # h
    BY <1>1, <2>1 DEF Far
  <2>2. CASE g = h /\ cmds = <<>>
    <3>1. db'[h] = s
      BY <1>1, <2>2, RunAllNone
    <3>. QED BY <2>2, <3>1 DEF Far
  <2>3. CASE g = h /\ cmds = Executes(c) /\ pc[c] # "delKey"
    <3>1. SameElsewhere(s, RunAll(s, cmds), h)
      BY <2>3, ExecElsewhere
    <3> HIDE DEF s, h
    <3>2. SameElsewhere(s, db'[h], h)
      BY <1>1, <3>1
    <3>. QED BY <1>2, <2>3, <3>2 DEF SameElsewhere, Far, s
  <2>4. CASE g = h /\ cmds = Executes(c) /\ pc[c] = "delKey"
    <3> DEFINE u == RunAll(s, cmds)
    <3>1. /\ u.data[j] = Nil
          /\ \A y \in Keys : y # j => u.data[y] = s.data[y] /\ (y \in u.index <=> y \in s.index)
      BY <2>4, DelKeyTakes
    <3>2. db'[h] = u
      BY <1>1
    <3> HIDE DEF u, s, h, j
    <3>. QED BY <2>4, <3>1, <3>2 DEF Far, s
  <2>. QED BY <2>1, <2>2, <2>3, <2>4
<1>3. pc[c] = "delKey" /\ cmds = Executes(c) => db'[h].data[j] = Nil
  BY <1>1, DelKeyTakes
<1>. QED BY <1>2, <1>3

-----------------------------------------------------------------------------
(* The migration. *)

\* A step leaves no more keys to move than there were.
Shrinks == \A k \in Keys : ToMove(k)' => ToMove(k)

\* What a step keeps of the servers.
Holds(again) ==
  /\ IndexCovers' /\ OffHomeIndexed' /\ Shrinks
  /\ again => RehashedHome'

\* The servers keep what rehashing relies on when a request is carried out.
LEMMA ServeHolds ==
  ASSUME MoveInv, NEW c \in Clients, pc[c] \in Busy, NEW cmds,
         cmds \in {Executes(c), <<>>}, Serve(HostOf(c), cmds), torn \subseteq torn',
         pc[c] \in {"write"} \cup Quiets \/ cmds = <<>> \/ Crossed(c) \subseteq torn'
  PROVE  Holds(rehashed' => rehashed)
<1>1. CallInv /\ IndexCovers /\ OffHomeIndexed /\ RehashedHome /\ (rehashed => PrevHosts # <<>>)
  BY DEF MoveInv
<1>2. IndexCovers'
  BY <1>1, IndexStays
<1>3. ASSUME NEW h \in Servers, NEW k \in Keys, h # HomeOf(k)
      PROVE  Far(h, k) \/ db'[h].data[k] = Nil
  BY <1>1, <1>3, FarStays
<1>4. OffHomeIndexed'
  BY <1>1, <1>3 DEF OffHomeIndexed, At, Far
<1>5. ASSUME NEW k \in Keys, PrevHosts # <<>>, PrevOf(k) # HomeOf(k)
      PROVE  Before(k)' = Before(k) \/ Before(k)' = Nil
  <2>1. PrevOf(k) \in Servers
    BY <1>5, Homes
  <2>. QED BY <1>3, <1>5, <2>1 DEF Before, At, Far
<1>6. Shrinks
  BY <1>5 DEF Shrinks, ToMove
<1>7. ASSUME rehashed' => rehashed PROVE RehashedHome'
  BY <1>1, <1>5, <1>7 DEF RehashedHome
<1>. QED BY <1>2, <1>4, <1>6, <1>7 DEF Holds

\* And when none is.
LEMMA StillHolds ==
  ASSUME MoveInv, UNCHANGED db, torn \subseteq torn'
  PROVE  Holds(rehashed' => rehashed)
<1>1. IndexCovers'
  BY DEF MoveInv, IndexCovers, At
<1>2. OffHomeIndexed'
  BY DEF MoveInv, OffHomeIndexed, At
<1>3. \A k \in Keys : Before(k)' = Before(k)
  BY DEF Before, At
<1>4. Shrinks
  BY <1>3 DEF Shrinks, ToMove
<1>5. (rehashed' => rehashed) => RehashedHome'
  BY <1>3 DEF MoveInv, RehashedHome
<1>. QED BY <1>1, <1>2, <1>4, <1>5 DEF Holds

\* As Rehashes, after the step.
RehashesOn(p, f) ==
  /\ p \in {"list", "scan", "return"} \cup Moves
  /\ \A k \in Keys : ToMove(k)' => p # "return" /\ Comes(p, f, k)

\* The calls of a process go on.
LEMMA MovesKeep ==
  ASSUME MoveInv, CallInv', NEW c \in Clients, NEW w, NEW f, Go(c, w, f),
         Holds(TRUE), rehashed' \in BOOLEAN, rehashed' => PrevHosts # <<>>,
         \A d \in Clients : d # c => op'[d] = op[d],
         op'[c].m = "_rehash" => RehashesOn(w, f)
  PROVE  MoveInv'
<1>1. /\ pc'[c] = w /\ frame'[c] = f
      /\ \A d \in Clients : d # c => pc'[d] = pc[d] /\ frame'[d] = frame[d]
  BY DEF MoveInv, CallInv, Typed, Go
<1>2. ASSUME NEW d \in Clients PROVE Rehashing(d)'
  <2>1. CASE d = c
    BY <1>1, <2>1 DEF Rehashing, Rehashes, RehashesOn, Comes
  <2>2. CASE d # c
    <3>1. Rehashing(d) /\ pc'[d] = pc[d] /\ frame'[d] = frame[d] /\ op'[d] = op[d] /\ Shrinks
      BY <1>1, <2>2 DEF MoveInv, Holds
    <3>. QED BY <3>1 DEF Rehashing, Rehashes, Comes, Shrinks
  <2>. QED BY <2>1, <2>2
<1>3. RehashedHome' /\ IndexCovers' /\ OffHomeIndexed'
  BY DEF Holds
<1>. QED BY <1>2, <1>3 DEF MoveInv

\* Between calls there is no _rehash(); nor in the steps of other methods.
LEMMA NotRehash ==
  ASSUME MoveInv, NEW c \in Clients, pc[c] \notin {"list", "scan", "return"} \cup Moves
  PROVE  op[c].m # "_rehash"
BY DEF MoveInv, Rehashing, Rehashes

\* A call starts.
LEMMA CallKeysMove ==
  ASSUME MoveInv, CallInv', NEW c \in Clients, CallKeys(c)
  PROVE  MoveInv'
<1>1. PICK o \in KeyCalls : Enter(c, o) /\ Tear({}) /\ \E w, f : Go(c, w, f)
  <2>1. PICK o \in KeyCalls :
          /\ Enter(c, o) /\ Tear({})
          /\ IF multi[c] # None THEN Go(c, "forward", NoFrame)
             ELSE Go(c, CASE o.m \in Writes -> "write" [] o.m = "mget"   -> "mget" [] OTHER -> "read",
                     [NoFrame EXCEPT !.nodes = NodesOf(o.keys)])
    BY DEF CallKeys
  <2>. QED BY <2>1
<1>2. PICK w, f : Go(c, w, f)
  BY <1>1
<1>3. /\ UNCHANGED <<db, rehashed>> /\ torn \subseteq torn' /\ op' = [op EXCEPT ![c] = o]
  BY <1>1 DEF Enter, Tear
<1>4. o.m # "_rehash"
  <2>1. PICK x \in Inputs, ttl \in Ttls :
          o = [m |-> x[1], keys |-> x[2], host |-> None, n |-> calls + 1, ttl |-> ttl]
            /\ x[1] \in Writes \cup Reads
    BY DEF KeyCalls
  <2>2. o.m = x[1]
    BY <2>1
  <2>. QED BY <2>1, <2>2 DEF Writes, Reads
<1>5. /\ op'[c] = o /\ \A d \in Clients : d # c => op'[d] = op[d]
  BY <1>3 DEF MoveInv, CallInv, Typed
<1>6. Holds(TRUE) /\ rehashed' \in BOOLEAN /\ (rehashed' => PrevHosts # <<>>)
  BY <1>3, StillHolds DEF MoveInv, Holds
<1>. QED BY <1>2, <1>4, <1>5, <1>6, MovesKeep

\* multi(), exec() or discard() is called.
LEMMA OtherCallsMove ==
  ASSUME MoveInv, CallInv', NEW c \in Clients, CallMulti(c) \/ CallEnd(c)
  PROVE  MoveInv'
<1>1. PICK m \in {"multi", "exec", "discard"}, h \in ToSet(Hosts) \cup {None} :
        /\ \/ Enter(c, [NoOp EXCEPT !.m = m, !.host = h])
           \/ Enter(c, [NoOp EXCEPT !.m = m])
        /\ torn \subseteq torn' /\ \E w : Go(c, w, NoFrame)
  <2>1. CASE CallMulti(c)
    BY <2>1 DEF CallMulti, Tear
  <2>2. CASE CallEnd(c)
    BY <2>2 DEF CallEnd, Tear
  <2>. QED BY <2>1, <2>2
<1>2. PICK w : Go(c, w, NoFrame)
  BY <1>1
<1>3. m \in AllMethods /\ m # "_rehash"
  BY DEF AllMethods
<1>4. /\ UNCHANGED <<db, rehashed>> /\ op'[c].m = m /\ \A d \in Clients : d # c => op'[d] = op[d]
  <2> DEFINE o == [NoOp EXCEPT !.m = m]  p == [NoOp EXCEPT !.m = m, !.host = h]
  <2>1. o \in Op /\ o.m = m /\ p \in Op /\ p.m = m
    BY <1>3, NoOps
  <2>2. \E x \in {o, p} : op' = [op EXCEPT ![c] = x] /\ UNCHANGED <<db, rehashed>>
    BY <1>1 DEF Enter
  <2> HIDE DEF o, p
  <2>. QED BY <2>1, <2>2 DEF MoveInv, CallInv, Typed
<1>5. Holds(TRUE) /\ rehashed' \in BOOLEAN /\ (rehashed' => PrevHosts # <<>>)
  BY <1>1, <1>4, StillHolds DEF MoveInv, Holds
<1>. QED BY <1>2, <1>3, <1>4, <1>5, MovesKeep

\* _rehash() is called: it will come to every host of the previous ring.
LEMMA CallRehashMoves ==
  ASSUME MoveInv, CallInv', NEW c \in Clients, CallRehash(c)
  PROVE  MoveInv'
<1> DEFINE w == IF PrevHosts = <<>> THEN "return" ELSE "list"
           f == IF PrevHosts = <<>> THEN NoFrame ELSE [NoFrame EXCEPT !.nodes = PrevHosts]
<1>1. /\ Go(c, w, f) /\ UNCHANGED <<db, rehashed>> /\ torn \subseteq torn'
      /\ \E o : op' = [op EXCEPT ![c] = o]
  BY DEF CallRehash, Tear, Enter
<1>2. \A d \in Clients : d # c => op'[d] = op[d]
  BY <1>1 DEF MoveInv, CallInv, Typed
<1>3. Holds(TRUE) /\ rehashed' \in BOOLEAN /\ (rehashed' => PrevHosts # <<>>)
  BY <1>1, StillHolds DEF MoveInv, Holds
<1>4. PrevHosts # <<>> => w = "list" /\ f.nodes = PrevHosts
  BY DEF NoFrame
<1>5. ASSUME NEW k \in Keys, PrevHosts # <<>>
      PROVE  w = "list" /\ Comes("list", f, k)
  <2>1. PrevOf(k) \in ToSet(PrevHosts) /\ PrevHosts \in Seq(ToSet(PrevHosts))
    BY <1>5, Homes, RingAssumption
  <2> DEFINE s == PrevHosts  H == ToSet(PrevHosts)
  <2> HIDE DEF s, H
  <2>2. s \in Seq(H) /\ s # <<>>
    BY <1>5, <2>1 DEF s, H
  <2>3. Head(s) = s[1] /\ Len(s) \in Nat /\ DOMAIN s = 1 .. Len(s)
    BY <2>2
  <2>4. PICK i \in 1 .. Len(s) : s[i] = PrevOf(k)
    BY <2>1, <2>3 DEF ToSet, s
  <2>5. Head(s) = PrevOf(k) \/ \E j \in 2 .. Len(s) : s[j] = PrevOf(k)
    <3>1. CASE i = 1
      BY <2>3, <2>4, <3>1
    <3>2. CASE i # 1
      <4>1. i \in 2 .. Len(s)
        BY <2>3, <3>2
      <4>. QED BY <2>4, <4>1
    <3>. QED BY <3>1, <3>2
  <2> HIDE DEF f
  <2>6. f.nodes = s
    BY <1>4, <1>5 DEF s
  <2>. QED BY <1>4, <1>5, <2>5, <2>6 DEF Comes
<1>6. RehashesOn(w, f)
  <2>1. w \in {"list", "scan", "return"} \cup Moves
    OBVIOUS
  <2> HIDE DEF f
  <2>2. \A k \in Keys : ToMove(k)' => w # "return" /\ Comes(w, f, k)
    BY <1>5 DEF ToMove
  <2>. QED BY <2>1, <2>2 DEF RehashesOn
<1> HIDE DEF w, f
<1>. QED BY <1>1, <1>2, <1>3, <1>6, MovesKeep

\* A _rehash() that returns has left no key to move.
LEMMA ReturnMoves ==
  ASSUME MoveInv, CallInv', NEW c \in Clients, Return(c)
  PROVE  MoveInv'
<1>1. /\ pc[c] = "return" /\ Go(c, "idle", NoFrame) /\ UNCHANGED db /\ torn \subseteq torn'
      /\ op' = [op EXCEPT ![c] = NoOp]
      /\ rehashed' = (rehashed \/ (op[c].m = "_rehash" /\ PrevHosts # <<>>))
  BY DEF Return, Tear
<1>2. op'[c].m = "none" /\ \A d \in Clients : d # c => op'[d] = op[d]
  <2>1. NoOp.m = "none"
    BY DEF NoOp
  <2> HIDE DEF NoOp
  <2>. QED BY <1>1, <2>1 DEF MoveInv, CallInv, Typed
<1>3. Holds(rehashed' => rehashed) /\ rehashed' \in BOOLEAN /\ (rehashed' => PrevHosts # <<>>)
  BY <1>1, StillHolds DEF MoveInv
<1>4. op[c].m = "_rehash" => \A k \in Keys : ~ToMove(k)
  BY <1>1 DEF MoveInv, Rehashing, Rehashes
<1>5. ASSUME op[c].m = "_rehash", PrevHosts # <<>> PROVE RehashedHome'
  <2>1. \A k \in Keys : ~ToMove(k)'
    BY <1>3, <1>4, <1>5 DEF Holds, Shrinks
  <2>. QED BY <1>5, <2>1 DEF RehashedHome, ToMove
<1>6. Holds(TRUE)
  BY <1>1, <1>3, <1>5 DEF Holds, MoveInv
<1>. QED BY <1>1, <1>2, <1>3, <1>6, MovesKeep

\* A request is carried out.
LEMMA ServeMoves ==
  ASSUME MoveInv, CallInv', NEW c \in Clients, pc[c] \in Busy, NEW cmds,
         cmds \in {Executes(c), <<>>}, Serve(HostOf(c), cmds), torn \subseteq torn',
         pc[c] \in {"write"} \cup Quiets \/ cmds = <<>> \/ Crossed(c) \subseteq torn',
         NEW w, NEW f, Go(c, w, f), rehashed' = rehashed,
         \A d \in Clients : d # c => op'[d] = op[d],
         op'[c].m = "_rehash" => (Shrinks => RehashesOn(w, f))
  PROVE  MoveInv'
<1>1. Holds(rehashed' => rehashed)
  BY ServeHolds
<1>2. Holds(TRUE) /\ Shrinks
  BY <1>1 DEF Holds
<1>3. rehashed' \in BOOLEAN /\ (rehashed' => PrevHosts # <<>>)
  BY DEF MoveInv
<1>. QED BY <1>2, <1>3, MovesKeep

\* Steps of the application's own commands.
LEMMA UsersMove ==
  ASSUME MoveInv, CallInv', NEW c \in Clients,
         Forward(c) \/ Write(c) \/ Read(c) \/ ReadPrev(c) \/ Mget(c)
  PROVE  MoveInv'
<1>1. /\ pc[c] \in {"forward", "multi", "exec", "discard", "write", "read", "readPrev", "mget"}
      /\ Ask(c) /\ UNCHANGED <<op, rehashed>> /\ torn \subseteq torn'
      /\ pc[c] \in {"write"} \cup Quiets \/ Crossed(c) \subseteq torn'
      /\ \E w, f : Go(c, w, f)
  <2>1. CASE Forward(c)
    BY <2>1 DEF Forward, Tear
  <2>2. CASE Write(c)
    BY <2>2 DEF Write, Tear, Quiet, NextNode
  <2>3. CASE Read(c)
    <3>1. \E w, f : Go(c, w, f)
      BY <2>3 DEF Read
    <3>. QED BY <2>3, <3>1 DEF Read, Tear, Quiet, Quiets
  <2>4. CASE ReadPrev(c)
    <3>1. \E w, f : Go(c, w, f)
      BY <2>4 DEF ReadPrev
    <3>. QED BY <2>4, <3>1 DEF ReadPrev, Tear, Quiet, Quiets
  <2>5. CASE Mget(c)
    <3>1. \E w, f : Go(c, w, f)
      BY <2>5 DEF Mget, NextNode
    <3>. QED BY <2>5, <3>1 DEF Mget, Tear, Quiet, Quiets
  <2>. QED BY <2>1, <2>2, <2>3, <2>4, <2>5
<1>2. PICK w, f : Go(c, w, f)
  BY <1>1
<1>3. op[c].m # "_rehash" /\ pc[c] \in Busy
  BY <1>1, NotRehash DEF Moves, Busy, Steps
<1>4. Serve(HostOf(c), Executes(c))
  BY <1>1 DEF Ask
<1>. QED BY <1>1, <1>2, <1>3, <1>4, ServeMoves

\* The keys _rehash() is given are all those it has to move from the host.
LEMMA ListMoves ==
  ASSUME MoveInv, CallInv', NEW c \in Clients, List(c)
  PROVE  MoveInv'
<1> DEFINE h == HostOf(c)  f == frame[c]
           ks == IF Index THEN db[h].index ELSE {k \in Keys : db[h].data[k] # Nil}
           g == [f EXCEPT !.keys = ks]
<1>1. /\ pc[c] = "list" /\ Ask(c) /\ UNCHANGED <<op, rehashed>> /\ torn \subseteq torn'
      /\ Go(c, "scan", g)
  BY DEF List, Tear, Quiet
<1>2. CallIs("list", op[c], f, multi[c]) /\ Goes(c) /\ f \in Locals /\ Typed /\ h \in Servers
  <2>1. CallInv /\ pc[c] \in Busy
    BY <1>1 DEF MoveInv, Busy, Steps
  <2>. QED BY <1>1, <2>1, CallFacts, RequestGoes, TypedFields, ServedTyped
<1>3. h = Head(f.nodes) /\ h \in ToSet(PrevHosts)
  <2>1. h = Head(f.nodes)
    BY <1>1, <1>2, ConnectionsApart DEF Goes, HostOf
  <2>. QED BY <1>1, <1>2, <2>1 DEF Goes
<1>4. g.nodes = f.nodes /\ g.keys = ks
  <2>1. ks \in SUBSET Keys
    <3>1. db[h] \in Server
      BY <1>2, TypedFields
    <3>. QED BY <3>1 DEF Server
  <2> HIDE DEF ks, f
  <2>2. Fields(g, f.nodes, ks, f.key, f.from, f.to, f.ttl, f.item, f.success)
    BY <1>2, <2>1, LocalSteps
  <2>. QED BY <2>2 DEF Fields
<1>5. ASSUME op[c].m = "_rehash", NEW k \in Keys, ToMove(k) PROVE Comes("scan", g, k)
  <2>1. Comes("list", f, k)
    BY <1>1, <1>5 DEF MoveInv, Rehashing, Rehashes
  <2>2. Head(f.nodes) = PrevOf(k) => k \in ks
    <3>1. ASSUME Head(f.nodes) = PrevOf(k) PROVE At(h, k) # Nil /\ h # HomeOf(k)
      BY <1>3, <1>5, <3>1 DEF ToMove, Before
    <3>2. At(h, k) # Nil /\ h # HomeOf(k) => k \in ks
      BY <1>2 DEF MoveInv, OffHomeIndexed, At
    <3>. QED BY <3>1, <3>2
  <2> HIDE DEF g, ks
  <2>. QED BY <1>4, <2>1, <2>2 DEF Comes
<1> HIDE DEF g
<1>6. op[c].m = "_rehash" => (Shrinks => RehashesOn("scan", g))
  BY <1>5 DEF RehashesOn, Shrinks
<1>7. Serve(HostOf(c), Executes(c)) /\ pc[c] \in Busy \cap Quiets
  BY <1>1 DEF Ask, Busy, Steps, Quiets
<1>. QED BY <1>1, <1>6, <1>7, ServeMoves

\* _rehash() goes on to a key it has to move, or leaves one that is at home.
LEMMA ScanMoves ==
  ASSUME MoveInv, CallInv', NEW c \in Clients, Scan(c)
  PROVE  MoveInv'
<1> DEFINE f == frame[c]
<1>1. /\ pc[c] = "scan" /\ torn \subseteq torn' /\ UNCHANGED <<db, op, rehashed>>
      /\ \/ \E k \in f.keys :
             IF HomeOf(k) = Head(f.nodes) THEN Go(c, "scan", [f EXCEPT !.keys = @ \ {k}])
             ELSE Go(c, "type", [Moving(f, k, Prev(Head(f.nodes)), Ring(HomeOf(k)))
                                  EXCEPT !.keys = f.keys \ {k}])
         \/ f.keys = {} /\ NextNode(c, "list")
  <2>1. \A k : Moving(f, k, Prev(Head(f.nodes)), Ring(HomeOf(k))).keys = f.keys
    BY DEF Moving
  <2>. QED BY <2>1 DEF Scan, Tear, Quiet
<1>2. CallInv /\ CallIs("scan", op[c], f, multi[c]) /\ f \in Locals
  <2>1. CallInv
    BY DEF MoveInv
  <2>. QED BY <1>1, <2>1, CallFacts, TypedFields
<1>3. Holds(TRUE) /\ rehashed' \in BOOLEAN /\ (rehashed' => PrevHosts # <<>>) /\ Shrinks
  BY <1>1, StillHolds DEF MoveInv, Holds
<1>4. op[c].m = "_rehash" => \A k \in Keys : ToMove(k)' => Comes("scan", f, k) /\ PrevOf(k) # HomeOf(k)
  BY <1>1, <1>3 DEF MoveInv, Rehashing, Rehashes, Shrinks, ToMove
<1>5. ASSUME NEW k \in f.keys, HomeOf(k) = Head(f.nodes), Go(c, "scan", [f EXCEPT !.keys = @ \ {k}])
      PROVE  \E w, g : Go(c, w, g) /\ (op[c].m = "_rehash" => RehashesOn(w, g))
  <2> DEFINE g == [f EXCEPT !.keys = f.keys \ {k}]
  <2>1. g.nodes = f.nodes /\ g.keys = f.keys \ {k} /\ Go(c, "scan", g)
    BY <1>1, <1>2, <1>5, ScanTakes
  <2> HIDE DEF g
  <2>2. op[c].m = "_rehash" => RehashesOn("scan", g)
    BY <1>4, <1>5, <2>1 DEF RehashesOn, Comes
  <2>. QED BY <2>1, <2>2
<1>6. ASSUME NEW k \in f.keys, HomeOf(k) # Head(f.nodes),
             Go(c, "type", [Moving(f, k, Prev(Head(f.nodes)), Ring(HomeOf(k))) EXCEPT !.keys = f.keys \ {k}])
      PROVE  \E w, g : Go(c, w, g) /\ (op[c].m = "_rehash" => RehashesOn(w, g))
  <2> DEFINE g == [Moving(f, k, Prev(Head(f.nodes)), Ring(HomeOf(k))) EXCEPT !.keys = f.keys \ {k}]
  <2>1. g.nodes = f.nodes /\ g.keys = f.keys \ {k} /\ g.key = k /\ Go(c, "type", g)
    BY <1>1, <1>2, <1>6, ScanTakes DEF Fields
  <2> HIDE DEF g
  <2>2. op[c].m = "_rehash" => RehashesOn("type", g)
    BY <1>4, <1>6, <2>1 DEF RehashesOn, Comes, Moves
  <2>. QED BY <2>1, <2>2
<1>7. ASSUME f.keys = {}, NextNode(c, "list")
      PROVE  \E w, g : Go(c, w, g) /\ (op[c].m = "_rehash" => RehashesOn(w, g))
  <2>1. PICK w \in {"return", "list"}, g \in Locals :
           /\ Go(c, w, g)
           /\ w = "list" => g.nodes = Tail(f.nodes) /\ g.nodes # <<>>
           /\ w = "return" => Len(f.nodes) = 1
    BY <1>1, <1>2, <1>7, NextNodeIs
  <2>2. f.nodes \in Seq(Servers) /\ (op[c].m = "_rehash" => f.nodes # <<>>)
    BY <1>2, LocalFields DEF CallIs
  <2>3. ASSUME op[c].m = "_rehash", NEW k \in Keys, ToMove(k)'
        PROVE  w # "return" /\ Comes(w, g, k)
    <3>1. PICK i \in 2 .. Len(f.nodes) : f.nodes[i] = PrevOf(k)
      BY <1>4, <1>7, <2>3 DEF Comes
    <3> DEFINE s == f.nodes  t == g.nodes
    <3>2. s \in Seq(Servers) /\ s # <<>> /\ i \in 2 .. Len(s) /\ s[i] = PrevOf(k)
      BY <2>2, <2>3, <3>1
    <3>3. w = "list" /\ t = Tail(s) /\ t # <<>>
      BY <2>1, <3>1
    <3> HIDE DEF s, t
    <3>4. /\ Len(t) = Len(s) - 1 /\ Len(s) \in Nat /\ Head(t) = t[1]
          /\ \A j \in 1 .. Len(t) : t[j] = s[j + 1]
      BY <3>2, <3>3
    <3>5. i - 1 \in 1 .. Len(t) /\ t[i - 1] = s[(i - 1) + 1] /\ (i - 1) + 1 = i
      BY <3>2, <3>4
    <3>6. t[i - 1] = PrevOf(k)
      BY <3>2, <3>5
    <3>7. Head(t) = PrevOf(k) \/ \E j \in 2 .. Len(t) : t[j] = PrevOf(k)
      <4>1. CASE i - 1 = 1
        BY <3>4, <3>6, <4>1
      <4>2. CASE i - 1 # 1
        <5>1. i - 1 \in 2 .. Len(t)
          BY <3>4, <3>5, <4>2
        <5>. QED BY <3>6, <5>1
      <4>. QED BY <4>1, <4>2
    <3>. QED BY <3>3, <3>7 DEF Comes, t
  <2>4. op[c].m = "_rehash" => RehashesOn(w, g)
    BY <2>1, <2>3 DEF RehashesOn
  <2>. QED BY <2>1, <2>4
<1>8. \E w, g : Go(c, w, g) /\ (op[c].m = "_rehash" => RehashesOn(w, g))
  BY <1>1, <1>5, <1>6, <1>7
<1>9. PICK w, g : Go(c, w, g) /\ (op'[c].m = "_rehash" => RehashesOn(w, g))
  BY <1>1, <1>8
<1>. QED BY <1>1, <1>3, <1>9, MovesKeep

\* A move of _rehash() goes on: it still comes to the key it moves, if that is still to be moved.
LEMMA MoveGoesOn ==
  ASSUME MoveInv, CallInv', NEW c \in Clients, NEW here \in Moves, NEW w, NEW f,
         MoveStep(c, here, w, f),
         op[c].m = "_rehash" =>
           /\ f.nodes = frame[c].nodes /\ f.keys = frame[c].keys /\ w \in {"scan"} \cup Moves
           /\ \A k \in Keys :
                /\ k = frame[c].key /\ ToMove(k) /\ ToMove(k)' /\ Head(f.nodes) = PrevOf(k)
                /\ pc[c] = "moveMulti" => frame[c].item # Nil
                /\ pc[c] \in {"type", "moveMulti", "fetch", "store", "delKey"}
                => Comes(w, f, k)
  PROVE  MoveInv'
<1>1. /\ CallInv /\ pc[c] = here /\ Ask(c) /\ Go(c, w, f) /\ op'[c] = op[c] /\ pc[c] \in Busy
      /\ \A d \in Clients : d # c => op'[d] = op[d]
  <2>1. CallInv
    BY DEF MoveInv
  <2>. QED BY <2>1, MoveStepIs
<1>2. rehashed' = rehashed /\ torn \subseteq torn' /\ Crossed(c) \subseteq torn'
  BY DEF MoveStep, Quiet, Tear
<1>3. ASSUME op[c].m = "_rehash", Shrinks PROVE RehashesOn(w, f)
  <2>1. ASSUME NEW k \in Keys, ToMove(k)' PROVE w # "return" /\ Comes(w, f, k)
    <3>1. ToMove(k) /\ Comes(here, frame[c], k)
      BY <1>1, <1>3, <2>1 DEF Shrinks, MoveInv, Rehashing, Rehashes
    <3>2. w # "return"
      BY <1>3 DEF Moves
    <3>3. CASE \E i \in 2 .. Len(f.nodes) : f.nodes[i] = PrevOf(k)
      BY <3>2, <3>3 DEF Comes
    <3>4. CASE Head(f.nodes) = PrevOf(k) /\ k \in f.keys
      BY <3>2, <3>4 DEF Comes
    <3>5. CASE /\ k = frame[c].key /\ Head(f.nodes) = PrevOf(k)
               /\ here \in {"type", "moveMulti", "fetch", "store", "delKey"}
               /\ here = "moveMulti" => frame[c].item # Nil
      BY <1>1, <1>3, <2>1, <3>1, <3>2, <3>5
    <3>. QED BY <1>1, <1>3, <3>1, <3>3, <3>4, <3>5 DEF Comes, Moves
  <2>. QED BY <1>3, <2>1 DEF RehashesOn
<1>4. Serve(HostOf(c), Executes(c))
  BY <1>1 DEF Ask
<1>. QED BY <1>1, <1>2, <1>3, <1>4, ServeMoves

\* The key _rehash() moves is what it reads and deletes at the previous ring.
LEMMA SourceIs ==
  ASSUME CallInv, NEW c \in Clients, op[c].m = "_rehash", pc[c] \in {"type", "fetch", "delKey"},
         NEW k \in Keys, k = frame[c].key, ToMove(k), Head(frame[c].nodes) = PrevOf(k)
  PROVE  /\ HostOf(c) = PrevOf(k) /\ PrevOf(k) \in Servers
         /\ pc[c] \in {"type", "fetch"} => Fetched(c) = Before(k) /\ Fetched(c) # Nil
<1>1. CallIs(pc[c], op[c], frame[c], multi[c]) /\ Goes(c) /\ PrevHosts # <<>>
  BY CallFacts, RequestGoes DEF ToMove
<1>2. Request(c)[1] = Prev(Head(frame[c].nodes))
  BY <1>1 DEF CallIs, Goes, Moves
<1>3. HostOf(c) = PrevOf(k) /\ PrevOf(k) \in Servers
  BY <1>1, <1>2, ConnectionsApart, Homes DEF HostOf
<1>4. ASSUME pc[c] \in {"type", "fetch"} PROVE Fetched(c) = Before(k) /\ Fetched(c) # Nil
  <2>1. Fetched(c) = At(HostOf(c), k)
    BY <1>4, FetchedIs
  <2>. QED BY <1>1, <1>3, <2>1 DEF ToMove, Before
<1>. QED BY <1>3, <1>4

\* The key of a move is asked for.
LEMMA MoveTypeMoves ==
  ASSUME MoveInv, CallInv', NEW c \in Clients, MoveType(c)
  PROVE  MoveInv'
<1> DEFINE f == frame[c]  t == Fetched(c).ttl  x == Fetched(c)  g == [f EXCEPT !.ttl = t, !.item = x]
           w == "moveMulti"
<1>1. CallInv /\ pc[c] = "type" /\ MoveStep(c, "type", w, g) /\ w \in Moves /\ "type" \in Moves
      /\ w = "moveMulti"
  BY DEF MoveType, MoveInv, Moves
<1>2. x \in Value /\ t \in {-1, 0, 1} /\ f \in Locals
  BY <1>1, FetchedIs, ValueFields, CallFacts, TypedFields
<1>3. g.nodes = f.nodes /\ g.keys = f.keys /\ g.key = f.key /\ g.item = x
  <2> HIDE DEF f, t, x
  <2>1. Fields(g, f.nodes, f.keys, f.key, f.from, f.to, t, x, f.success)
    BY <1>2, LocalSteps
  <2>. QED BY <2>1 DEF Fields
<1> HIDE DEF g, w
<1>4. ASSUME op[c].m = "_rehash", NEW k \in Keys, k = f.key, ToMove(k), Head(g.nodes) = PrevOf(k)
      PROVE  Comes(w, g, k)
  <2>1. x # Nil
    BY <1>1, <1>3, <1>4, SourceIs
  <2>. QED BY <1>1, <1>3, <1>4, <2>1 DEF Comes
<1>. QED BY <1>1, <1>3, <1>4, MoveGoesOn

\* The move goes on to a key that is there.
LEMMA MoveMultiMoves ==
  ASSUME MoveInv, CallInv', NEW c \in Clients, MoveMulti(c)
  PROVE  MoveInv'
<1> DEFINE f == frame[c]  x == Nil  g == [f EXCEPT !.item = x]
           w == IF f.item = Nil \/ TypeOf[f.key] = "stream" THEN "moveExec" ELSE "fetch"
<1>1. CallInv /\ MoveStep(c, "moveMulti", w, g) /\ w \in Moves /\ "moveMulti" \in Moves
      /\ pc[c] = "moveMulti"
  BY DEF MoveMulti, MoveInv, Moves, MoveStep
<1>2. x \in Value /\ f \in Locals
  BY <1>1, ValueFields, CallFacts, TypedFields
<1>3. g.nodes = f.nodes /\ g.keys = f.keys /\ g.key = f.key
  <2> HIDE DEF f, x
  <2>1. Fields(g, f.nodes, f.keys, f.key, f.from, f.to, f.ttl, x, f.success)
    BY <1>2, LocalSteps
  <2>. QED BY <2>1 DEF Fields
<1> HIDE DEF g
<1>4. ASSUME NEW k \in Keys, k = f.key, ToMove(k), Head(g.nodes) = PrevOf(k), f.item # Nil
      PROVE  Comes(w, g, k)
  <2>1. w = "fetch"
    BY <1>4 DEF ToMove
  <2>. QED BY <1>3, <1>4, <2>1 DEF Comes
<1> HIDE DEF w
<1>. QED BY <1>1, <1>3, <1>4, MoveGoesOn

\* The value of a key that is there is written next.
LEMMA MoveFetchMoves ==
  ASSUME MoveInv, CallInv', NEW c \in Clients, MoveFetch(c)
  PROVE  MoveInv'
<1> DEFINE f == frame[c]  x == Fetched(c)  s == ~(x = Nil /\ TypeOf[f.key] = "string")
           g == [f EXCEPT !.item = x, !.success = s]  w == IF s THEN "store" ELSE "moveExec"
<1>1. CallInv /\ pc[c] = "fetch" /\ MoveStep(c, "fetch", w, g) /\ w \in Moves /\ "fetch" \in Moves
      /\ (x # Nil => w = "store")
  BY DEF MoveFetch, MoveInv, Moves
<1>2. x \in Value /\ s \in BOOLEAN /\ f \in Locals
  BY <1>1, FetchedIs, CallFacts, TypedFields
<1>3. g.nodes = f.nodes /\ g.keys = f.keys /\ g.key = f.key
  <2> HIDE DEF f, x, s
  <2>1. Fields(g, f.nodes, f.keys, f.key, f.from, f.to, f.ttl, x, s)
    BY <1>2, LocalSteps
  <2>. QED BY <2>1 DEF Fields
<1> HIDE DEF g, w
<1>4. ASSUME op[c].m = "_rehash", NEW k \in Keys, k = f.key, ToMove(k), Head(g.nodes) = PrevOf(k)
      PROVE  Comes(w, g, k)
  <2>1. w = "store"
    BY <1>1, <1>3, <1>4, SourceIs
  <2>. QED BY <1>3, <1>4, <2>1 DEF Comes
<1>. QED BY <1>1, <1>3, <1>4, MoveGoesOn

\* After the value the deletion is next.
LEMMA MoveStoreMoves ==
  ASSUME MoveInv, CallInv', NEW c \in Clients, MoveStore(c)
  PROVE  MoveInv'
<1> DEFINE f == frame[c]  w == "delKey"
<1>1. MoveStep(c, "store", w, f) /\ w \in Moves /\ "store" \in Moves /\ w = "delKey"
  BY DEF MoveStore, Moves
<1> HIDE DEF w
<1>2. ASSUME NEW k \in Keys, k = f.key, Head(f.nodes) = PrevOf(k) PROVE Comes(w, f, k)
  BY <1>1, <1>2 DEF Comes
<1>. QED BY <1>1, <1>2, MoveGoesOn

\* After the deletion at its source there is no key to move.
LEMMA MoveDeleteMoves ==
  ASSUME MoveInv, CallInv', NEW c \in Clients, MoveDelete(c)
  PROVE  MoveInv'
<1> DEFINE f == frame[c]  w == "moveExec"
<1>1. /\ CallInv /\ MoveStep(c, "delKey", w, f) /\ w \in Moves /\ "delKey" \in Moves /\ w = "moveExec"
      /\ pc[c] = "delKey" /\ Serve(HostOf(c), Executes(c))
  BY DEF MoveDelete, Moves, MoveInv, MoveStep, Ask
<1> HIDE DEF w
<1>2. ASSUME op[c].m = "_rehash", NEW k \in Keys, k = f.key, ToMove(k), ToMove(k)',
             Head(f.nodes) = PrevOf(k)
      PROVE  FALSE
  <2>1. HostOf(c) = PrevOf(k)
    BY <1>1, <1>2, SourceIs
  <2>2. pc[c] \in Busy
    BY <1>1 DEF Busy, Steps
  <2>3. db'[HostOf(c)].data[f.key] = Nil
    BY <1>1, <2>2, FarStays
  <2>4. Before(k)' = Nil
    BY <1>2, <2>1, <2>3 DEF Before, At
  <2>. QED BY <1>2, <2>4 DEF ToMove
<1>. QED BY <1>1, <1>2, MoveGoesOn

\* The move is over and the scan goes on.
LEMMA MoveExecMoves ==
  ASSUME MoveInv, CallInv', NEW c \in Clients, MoveExec(c)
  PROVE  MoveInv'
<1> DEFINE f == frame[c]  g == Moving(f, None, None, None)
           w == IF op[c].m = "_rehash" THEN "scan" ELSE "return"
<1>1. MoveStep(c, "moveExec", w, g) /\ "moveExec" \in Moves /\ pc[c] = "moveExec"
      /\ (op[c].m = "_rehash" => w \in {"scan"} \cup Moves)
  BY DEF MoveExec, Moves, MoveStep
<1>2. g.nodes = f.nodes /\ g.keys = f.keys
  <2>1. f \in Locals
    BY CallFacts, TypedFields DEF MoveInv
  <2> HIDE DEF f
  <2>. QED BY <2>1 DEF Moving, Locals
<1> HIDE DEF g, w
<1>. QED BY <1>1, <1>2, MoveGoesOn

\* The call ends with an exception.
LEMMA ThrownMoves ==
  ASSUME MoveInv, CallInv', NEW c \in Clients, Throw(c) \/ Lose(c)
  PROVE  MoveInv'
<1>1. CallInv
  BY DEF MoveInv
<1>2. /\ Go(c, "idle", NoFrame) /\ op' = [op EXCEPT ![c] = NoOp] /\ rehashed' = rehashed
      /\ torn \subseteq torn' /\ pc[c] \in Busy
      /\ \E cmds \in {Executes(c), <<>>} :
           /\ Serve(HostOf(c), cmds)
           /\ pc[c] \in {"write"} \cup Quiets \/ cmds = <<>> \/ Crossed(c) \subseteq torn'
  <2>1. CASE Throw(c)
    BY <2>1 DEF Throw, Tear, Ask, Busy, Steps, Quiets
  <2>2. CASE Lose(c)
    <3>1. PICK reached \in BOOLEAN :
            /\ Serve(HostOf(c), IF reached THEN Executes(c) ELSE <<>>)
            /\ reached => Crossed(c) \subseteq torn'
      BY <1>1, <2>2, LoseParts
    <3>2. /\ Go(c, "idle", NoFrame) /\ op' = [op EXCEPT ![c] = NoOp] /\ rehashed' = rehashed
          /\ torn \subseteq torn' /\ pc[c] \in Busy
      BY <1>1, <2>2, LoseParts
    <3>3. CASE reached
      BY <3>1, <3>2, <3>3
    <3>4. CASE ~reached
      BY <3>1, <3>2, <3>4
    <3>. QED BY <3>3, <3>4
  <2>. QED BY <2>1, <2>2
<1>3. op'[c].m # "_rehash" /\ \A d \in Clients : d # c => op'[d] = op[d]
  <2>1. NoOp.m # "_rehash"
    BY DEF NoOp
  <2> HIDE DEF NoOp
  <2>. QED BY <1>1, <1>2, <2>1 DEF CallInv, Typed
<1>. QED BY <1>2, <1>3, ServeMoves

\* A server fills, or nothing happens.
LEMMA RestMoves ==
  ASSUME MoveInv, CallInv', (\E h \in Servers : Fill(h)) \/ UNCHANGED vars
  PROVE  MoveInv'
<1>1. UNCHANGED <<db, pc, op, frame, rehashed, torn>>
  BY DEF Fill, vars
<1>2. IndexCovers' /\ OffHomeIndexed' /\ RehashedHome' /\ Shrinks
  BY <1>1, StillHolds DEF Holds
<1>3. \A c \in Clients : Rehashing(c)'
  BY <1>1, <1>2 DEF MoveInv, Rehashing, Rehashes, Comes, Shrinks
<1>. QED BY <1>1, <1>2, <1>3 DEF MoveInv

\* Every step keeps the invariant of the migration.
LEMMA MoveSteps ==
  ASSUME MoveInv, [Next]_vars
  PROVE  MoveInv'
<1>1. CallInv'
  BY CallSteps DEF MoveInv
<1>2. ASSUME NEW c \in Clients, CallKeys(c) \/ CallRehash(c) \/ CallMulti(c) \/ CallEnd(c)
      PROVE  MoveInv'
  BY <1>1, <1>2, CallKeysMove, CallRehashMoves, OtherCallsMove
<1>3. ASSUME NEW c \in Clients, Step(c) PROVE MoveInv'
  <2>1. CASE Forward(c) \/ Write(c) \/ Read(c) \/ ReadPrev(c) \/ Mget(c)
    BY <1>1, <2>1, UsersMove
  <2>2. CASE List(c) \/ Scan(c) \/ Return(c)
    BY <1>1, <2>2, ListMoves, ScanMoves, ReturnMoves
  <2>3. CASE Move(c)
    BY <1>1, <2>3, MoveTypeMoves, MoveMultiMoves, MoveFetchMoves, ThrownMoves,
       MoveStoreMoves, MoveDeleteMoves, MoveExecMoves DEF Move
  <2>. QED BY <1>3, <2>1, <2>2, <2>3 DEF Step
<1>4. ASSUME NEW c \in Clients, Lose(c) PROVE MoveInv'
  BY <1>1, <1>4, ThrownMoves
<1>5. CASE (\E h \in Servers : Fill(h)) \/ UNCHANGED vars
  BY <1>1, <1>5, RestMoves
<1>. QED BY <1>2, <1>3, <1>4, <1>5 DEF Next

\* The invariant of the migration holds at first.
LEMMA StartMoves ==
  ASSUME Init
  PROVE  MoveInv
<1>1. CallInv /\ \A h \in Servers : ServerAtFirst(db[h], h)
  BY StartCall, StartOfServers
<1>2. IndexCovers /\ OffHomeIndexed
  BY <1>1 DEF IndexCovers, OffHomeIndexed, At, ServerAtFirst
<1>3. rehashed = FALSE /\ \A c \in Clients : op[c] = NoOp
  BY DEF Init
<1>4. NoOp.m # "_rehash"
  BY DEF NoOp
<1>5. \A c \in Clients : Rehashing(c)
  BY <1>3, <1>4 DEF Rehashing
<1>. QED BY <1>1, <1>2, <1>3, <1>5 DEF MoveInv, RehashedHome

\* The index of each server names what it holds, while no transaction of the application has torn
\* it; and once a _rehash() has returned nothing is left where only the fallback finds it.
THEOREM RehashingFindsAll == Spec => []RehashFindsAll
<1>1. Init => MoveInv
  BY StartMoves
<1>2. MoveInv /\ [Next]_vars => MoveInv'
  BY MoveSteps
<1>3. MoveInv => RehashFindsAll
  BY DEF MoveInv, RehashFindsAll
<1>. QED BY <1>1, <1>2, <1>3, PTL DEF Spec

-----------------------------------------------------------------------------
(* Types. *)

\* The history and the counters.
SeenTyped == seen \in [Clients -> [Keys -> SUBSET Value]]
Counted == /\ torn \subseteq Tears
           /\ calls \in Nat /\ faults \in Nat /\ calls + faults <= MaxEvents /\ faults <= MaxFaults

\* Values in the hands of a process, and what the applications see.
LEMMA ItemType ==
  ASSUME NEW f \in Locals
  PROVE  [f.item EXCEPT !.ttl = IF f.ttl > 0 THEN f.ttl ELSE -1] \in Value
<1> DEFINE t == IF f.ttl > 0 THEN f.ttl ELSE -1  x == f.item
<1>1. t \in {-1, 0, 1} /\ x \in Value
  BY LocalFields
<1> HIDE DEF t, x
<1>2. [x EXCEPT !.ttl = t] \in Value
  BY <1>1, ValueFields
<1>. QED BY <1>2 DEF t, x

\* What the applications see of a key is a value.
LEMMA LogicalType ==
  ASSUME CallInv', NEW k \in Keys
  PROVE  Logical(k)' \in Value
<1>1. (db \in [Servers -> Server])' /\ (frame \in [Clients -> Locals])'
  BY DEF CallInv, Typed
<1>2. At(HomeOf(k), k)' \in Value
  BY <1>1, Homes DEF At, Server
<1>3. Before(k)' \in Value
  <2>1. CASE PrevHosts = <<>>
    BY <2>1, ValueFields DEF Before
  <2>2. CASE PrevHosts # <<>>
    BY <1>1, <2>2, Homes DEF Before, At, Server
  <2>. QED BY <2>1, <2>2
<1>4. ASSUME NEW c \in Clients PROVE Item(c)' \in Value
  BY <1>1, <1>4, ItemType DEF Item
<1>5. Carried(k)' => Item(CHOOSE c \in Clients : Carrying(c, k))' \in Value
  <2>1. Carried(k)' => \E d \in Clients : Carrying(d, k)'
    BY DEF Carried
  <2>2. Carried(k)' => (CHOOSE c \in Clients : Carrying(c, k)') \in Clients
    BY <2>1
  <2>. QED BY <1>4, <2>2
<1>6. Nil \in Value
  BY ValueFields
<1>. QED BY <1>2, <1>3, <1>5, <1>6 DEF Logical

\* What a call has seen are values.
LEMMA ObserveType ==
  ASSUME CallInv', SeenTyped, Observe
  PROVE  SeenTyped'
<1>1. \A k \in Keys : Logical(k)' \in Value
  BY LogicalType
<1>2. Nil \in Value
  BY ValueFields
<1>3. ASSUME NEW c \in Clients, NEW k \in Keys
      PROVE  seen[c][k] \cup {Logical(k)'}
               \cup (IF \/ \E d \in Clients : Carrying(d, k)'
                        \/ Before(k) # Nil /\ Before(k)' = Nil
                        \/ op'[c].m # "get" /\ At(HomeOf(k), k)' = Nil
                     THEN {Nil} ELSE {}) \subseteq Value
  BY <1>1, <1>2 DEF SeenTyped
<1>. QED BY <1>3 DEF Observe, SeenTyped

\* What the steps of a process do to the history and the counters.
Starts(c) == CallKeys(c) \/ CallRehash(c) \/ CallMulti(c) \/ CallEnd(c)
Goings(c) == Starts(c) \/ Step(c) \/ Lose(c)

\* What tears an array is one of the listed events.
LEMMA Events ==
  ASSUME NEW c
  PROVE  Crossed(c) \subseteq Tears /\ Moved(c) \subseteq Tears
<1>1. Crossed(c) \subseteq {"resurrected", "split", "unindexed"}
  BY DEF Crossed
<1>2. Moved(c) \subseteq {"lostInMove", "overwrote", "lateDelete", "movedTwice", "staleTtl", "persisted",
                        "execByMove"}
  BY DEF Moved
<1>. QED BY <1>1, <1>2 DEF Tears

\* Every step of a process observes the keys.
LEMMA StepsObserve ==
  ASSUME NEW c \in Clients, Goings(c)
  PROVE  Observe
<1>1. CASE Starts(c)
  BY <1>1 DEF Starts, CallKeys, CallRehash, CallMulti, CallEnd
<1>2. CASE Step(c)
  BY <1>2 DEF Step, Forward, Write, Read, ReadPrev, Mget, List, Scan, Return, Move, MoveType,
     MoveMulti, MoveFetch, Throw, MoveStore, MoveDelete, MoveExec, MoveStep
<1>3. CASE Lose(c)
  BY <1>3 DEF Lose
<1>. QED BY <1>1, <1>2, <1>3 DEF Goings

\* A call is counted.
LEMMA StartsCount ==
  ASSUME Counted, NEW c \in Clients, Starts(c)
  PROVE  Counted'
<1>1. calls' = calls + 1 /\ faults' = faults /\ calls + faults < MaxEvents
  BY DEF Starts, CallKeys, CallRehash, CallMulti, CallEnd, Enter, CanCall
<1>2. torn' \subseteq torn \cup {"multiTwice"}
  BY DEF Starts, CallKeys, CallRehash, CallMulti, CallEnd, Tear
<1>3. torn' \subseteq Tears
  BY <1>2 DEF Counted, Tears
<1>. QED BY <1>1, <1>3, BoundAssumption DEF Counted

\* Steps within a call are not counted.
LEMMA StepsCount ==
  ASSUME Counted, NEW c \in Clients, Step(c)
  PROVE  Counted'
<1>1. UNCHANGED <<calls, faults>>
  BY DEF Step, Forward, Write, Read, ReadPrev, Mget, List, Scan, Return, Move, MoveType,
     MoveMulti, MoveFetch, Throw, MoveStore, MoveDelete, MoveExec, MoveStep, Quiet
<1>2. torn' \subseteq torn \cup Crossed(c) \cup Moved(c) \cup {"leftOpen"}
  BY DEF Step, Forward, Write, Read, ReadPrev, Mget, List, Scan, Return, Move, MoveType,
     MoveMulti, MoveFetch, Throw, MoveStore, MoveDelete, MoveExec, MoveStep, Tear
<1>3. torn' \subseteq Tears
  BY <1>2, Events DEF Counted, Tears
<1>. QED BY <1>1, <1>3 DEF Counted

\* A fault is counted.
LEMMA FaultsCount ==
  ASSUME Counted, (\E c \in Clients : Lose(c)) \/ (\E h \in Servers : Fill(h))
  PROVE  Counted'
<1>1. faults' = faults + 1 /\ calls' = calls /\ calls + faults < MaxEvents /\ faults < MaxFaults
  BY DEF Lose, Fill, CanFail
<1>2. torn' \subseteq Tears
  <2>1. ASSUME NEW c \in Clients, Lose(c) PROVE torn' \subseteq Tears
    <3>1. torn' \subseteq torn \cup Crossed(c) \cup Moved(c) \cup {"leftOpen", "lostInMove"}
      BY <2>1 DEF Lose, Tear
    <3>. QED BY <3>1, Events DEF Counted, Tears
  <2>2. ASSUME NEW h \in Servers, Fill(h) PROVE torn' \subseteq Tears
    BY <2>2 DEF Fill, Counted
  <2>. QED BY <2>1, <2>2
<1>. QED BY <1>1, <1>2, BoundAssumption DEF Counted

\* What TypeOK needs.
TypedInv == MoveInv /\ SeenTyped /\ Counted

\* Every step keeps the types.
LEMMA TypedSteps ==
  ASSUME TypedInv, [Next]_vars
  PROVE  TypedInv'
<1>1. MoveInv' /\ CallInv'
  BY MoveSteps DEF TypedInv, MoveInv
<1>2. Counted'
  <2>1. CASE UNCHANGED vars
    BY <2>1 DEF vars, TypedInv, Counted
  <2>. QED BY <2>1, StartsCount, StepsCount, FaultsCount DEF Next, Starts, TypedInv
<1>3. SeenTyped'
  <2>1. CASE UNCHANGED seen
    BY <2>1 DEF TypedInv, SeenTyped
  <2>2. CASE Observe
    BY <1>1, <2>2, ObserveType DEF TypedInv
  <2>3. Observe \/ UNCHANGED seen
    BY StepsObserve DEF Next, Goings, Starts, Fill, vars
  <2>. QED BY <2>1, <2>2, <2>3
<1>. QED BY <1>1, <1>2, <1>3 DEF TypedInv

\* The types hold at first.
LEMMA StartTyped ==
  ASSUME Init
  PROVE  TypedInv
<1>1. MoveInv
  BY StartMoves
<1>2. SeenTyped
  BY DEF Init, SeenTyped
<1>3. Counted
  BY BoundAssumption DEF Init, Counted
<1>. QED BY <1>1, <1>2, <1>3 DEF TypedInv

\* The invariant has the types of all variables.
LEMMA TypedIsTypeOK ==
  ASSUME TypedInv
  PROVE  TypeOK
<1>1. Typed /\ SeenTyped /\ Counted /\ rehashed \in BOOLEAN
  BY DEF TypedInv, MoveInv, CallInv
<1>2. db \in [Servers -> [data : [Keys -> Value], index : SUBSET Keys]]
  BY <1>1 DEF Typed, Server
<1>3. ASSUME NEW c \in Clients
      PROVE  /\ op[c].m \in AllMethods \cup {"none"} /\ op[c].keys \in Seq(Keys)
             /\ op[c].host \in ToSet(Hosts) \cup {None} /\ op[c].n \in Nat /\ op[c].ttl \in {-1, 0, 1}
             /\ frame[c].nodes \in Seq(Servers) /\ frame[c].keys \subseteq Keys
             /\ frame[c].key \in Keys \cup {None}
             /\ {frame[c].from, frame[c].to} \subseteq Connections \cup {None}
             /\ frame[c].ttl \in {-1, 0, 1} /\ frame[c].item \in Value
             /\ frame[c].success \in BOOLEAN
             /\ got[c] \in Seq(Value)
  <2>1. op[c] \in Op /\ frame[c] \in Locals /\ got[c] \in Seq(Value)
    BY <1>1, TypedFields
  <2>2. /\ op[c].m \in AllMethods \cup {"none"} /\ op[c].keys \in Seq(Keys)
        /\ op[c].host \in ToSet(Hosts) \cup {None} /\ op[c].n \in Nat /\ op[c].ttl \in {-1, 0, 1}
    BY <2>1, OpFields
  <2>3. /\ frame[c].nodes \in Seq(Servers) /\ frame[c].keys \subseteq Keys
        /\ frame[c].key \in Keys \cup {None} /\ frame[c].from \in Connections \cup {None}
        /\ frame[c].to \in Connections \cup {None}
        /\ frame[c].ttl \in {-1, 0, 1} /\ frame[c].item \in Value /\ frame[c].success \in BOOLEAN
    BY <2>1, LocalFields
  <2>. QED BY <2>1, <2>2, <2>3
<1>4. calls \in 0 .. MaxEvents /\ faults \in 0 .. MaxFaults
  BY <1>1, BoundAssumption DEF Counted
<1>5. /\ full \subseteq Servers /\ conn \in [Clients -> [Connections -> Connection]]
      /\ multi \in [Clients -> ToSet(Hosts) \cup {None}] /\ pc \in [Clients -> Steps]
      /\ seen \in [Clients -> [Keys -> SUBSET Value]] /\ torn \subseteq Tears
  BY <1>1 DEF Typed, SeenTyped, Counted
<1>. QED BY <1>1, <1>2, <1>3, <1>4, <1>5 DEF TypeOK

\* Every variable keeps its type, the counters their bounds.
THEOREM ArrayTypes == Spec => []TypeOK
<1>1. Init => TypedInv
  BY StartTyped
<1>2. TypedInv /\ [Next]_vars => TypedInv'
  BY TypedSteps
<1>3. TypedInv => TypeOK
  BY TypedIsTypeOK
<1>. QED BY <1>1, <1>2, <1>3, PTL DEF Spec

-----------------------------------------------------------------------------
(* What reads return. *)

\* A step adds to the values a key of a read has had.
Watched(c, k) ==
  /\ seen[c][k] \subseteq seen'[c][k]
  /\ At(HomeOf(k), k)' # Nil => At(HomeOf(k), k)' \in seen'[c][k]
  /\ At(HomeOf(k), k)' = Nil /\ Before(k)' # Nil => Before(k)' \in seen'[c][k]
  /\ At(HomeOf(k), k)' = Nil /\ Before(k)' = Nil => Nil \in seen'[c][k]
  /\ Before(k) # Nil /\ Before(k)' = Nil => Nil \in seen'[c][k]
  /\ op'[c].m # "get" /\ At(HomeOf(k), k)' = Nil => Nil \in seen'[c][k]

\* Every step watches the keys of every read under way.
LEMMA WatchedKeys ==
  ASSUME Observe, NEW c \in Clients, pc'[c] # "idle", op'[c].m \in Reads,
         op'[c].keys \in Seq(Keys), NEW i \in 1 .. Len(op'[c].keys),
         NEW k \in Keys, k = op'[c].keys[i]
  PROVE  Watched(c, k)
<1>1. Contains(op'[c].keys, k)
  BY DEF Contains
<1> DEFINE more == IF \/ \E d \in Clients : Carrying(d, k)'
                      \/ Before(k) # Nil /\ Before(k)' = Nil
                      \/ op'[c].m # "get" /\ At(HomeOf(k), k)' = Nil
                   THEN {Nil} ELSE {}
<1>2. seen'[c][k] = seen[c][k] \cup {Logical(k)'} \cup more
  BY <1>1 DEF Observe
<1>3. /\ At(HomeOf(k), k)' # Nil => Logical(k)' = At(HomeOf(k), k)'
      /\ At(HomeOf(k), k)' = Nil /\ Before(k)' # Nil => Logical(k)' = Before(k)'
      /\ At(HomeOf(k), k)' = Nil /\ Before(k)' = Nil /\ ~Carried(k)' => Logical(k)' = Nil
  BY DEF Logical
<1>4. Carried(k)' => \E d \in Clients : Carrying(d, k)'
  BY DEF Carried
<1>. QED BY <1>2, <1>3, <1>4 DEF Watched

\* A process between calls, or with nothing read so far.
LEMMA NothingRead ==
  ASSUME CallInv', NEW c \in Clients, got'[c] = <<>>, pc'[c] \notin {"mget", "readPrev"}
  PROVE  Reading(c)'
<1>1. op'[c].keys \in Seq(Keys)
  <2>1. op'[c] \in Op
    BY DEF CallInv, Typed
  <2>. QED BY <2>1, OpFields
<1> DEFINE none == <<>>
<1>2. Len(none) = 0 /\ DOMAIN none = {} /\ Len(none) <= Len(op'[c].keys)
  <2>1. Len(op'[c].keys) \in Nat
    BY <1>1
  <2>. QED BY <2>1
<1> HIDE DEF none
<1>3. got'[c] = none
  BY DEF none
<1>4. none = <<>>
  BY DEF none
<1>. QED BY <1>2, <1>3, <1>4 DEF Reading

\* A key that is not at its home comes no more to the previous ring.
Fades == \A k \in Keys : PrevHosts # <<>> /\ PrevOf(k) # HomeOf(k) => Before(k)' \in {Before(k), Nil}

\* The other processes go on reading.
LEMMA OthersRead ==
  ASSUME ReadInv, CallInv', Observe, NEW c \in Clients,
         pc'[c] = pc[c], op'[c] = op[c], frame'[c] = frame[c], got'[c] = got[c],
         Fades
  PROVE  Reading(c)'
<1> DEFINE o == op[c]  g == got[c]
<1>1. /\ Reading(c) /\ o \in Op /\ o.keys \in Seq(Keys) /\ g \in Seq(Value)
      /\ CallIs(pc[c], op[c], frame[c], multi[c])
  <2>1. CallInv /\ Reading(c)
    BY DEF ReadInv, MoveInv
  <2>. QED BY <2>1, CallFacts, TypedFields, OpFields
<1>2. ASSUME pc[c] # "idle", o.m \in Reads, NEW i \in 1 .. Len(o.keys), NEW k \in Keys, k = o.keys[i]
      PROVE  Watched(c, k)
  BY <1>1, <1>2, WatchedKeys
<1>3. /\ Len(g) \in Nat /\ Len(o.keys) \in Nat /\ DOMAIN g = 1 .. Len(g)
      /\ DOMAIN o.keys = 1 .. Len(o.keys) /\ \A i \in 1 .. Len(o.keys) : o.keys[i] \in Keys
  BY <1>1
<1>4. ASSUME NEW i \in 1 .. Len(o.keys), pc[c] # "idle", o.m \in Reads, Known(c, i) PROVE Known(c, i)'
  BY <1>2, <1>3, <1>4 DEF Known, Watched
<1>5. ASSUME NEW i \in DOMAIN g, pc[c] \in {"return"} \cup Moves PROVE Known(c, i)'
  <2>1. o.m \in Reads /\ pc[c] # "idle" /\ Known(c, i) /\ Len(g) <= Len(o.keys)
    BY <1>1, <1>5 DEF Reading, Moves
  <2>2. i \in 1 .. Len(o.keys)
    BY <1>3, <2>1
  <2>. QED BY <1>4, <2>1, <2>2
<1>6. ASSUME NEW i \in DOMAIN o.keys, pc[c] = "mget", HomeOf(o.keys[i]) \notin ToSet(frame[c].nodes)
      PROVE  Known(c, i)'
  <2>1. o.m \in Reads /\ pc[c] # "idle" /\ Known(c, i)
    BY <1>1, <1>6 DEF Reading, CallIs, Reads
  <2>. QED BY <1>3, <1>4, <2>1
<1>7. ASSUME pc[c] = "readPrev", NEW k \in Keys, k = o.keys[1], PrevOf(k) # HomeOf(k)
      PROVE  Before(k)' \in seen'[c][k]
  <2>1. /\ o.m \in Reads /\ PrevHosts # <<>> /\ o.keys # <<>> /\ Before(k) \in seen[c][k]
    BY <1>1, <1>7 DEF Reading, CallIs, Reads
  <2>2. 1 \in 1 .. Len(o.keys)
    BY <1>1, <1>3, <2>1
  <2>3. Watched(c, k)
    BY <1>2, <1>7, <2>1, <2>2
  <2>. QED BY <1>7, <2>1, <2>3 DEF Watched, Fades
<1>8. pc[c] = "readPrev" => o.keys[1] \in Keys
  <2>1. pc[c] = "readPrev" => o.keys # <<>>
    BY <1>1 DEF CallIs, Reads
  <2>. QED BY <1>1, <2>1
<1>. QED BY <1>1, <1>5, <1>6, <1>7, <1>8 DEF Reading

\* No request puts a key at the previous ring, unless it lives there.
LEMMA ServesFade ==
  ASSUME CallInv, NEW c \in Clients, pc[c] \in Busy, NEW cmds, cmds \in {Executes(c), <<>>},
         Serve(HostOf(c), cmds)
  PROVE  Fades
<1>1. ASSUME NEW k \in Keys, PrevHosts # <<>>, PrevOf(k) # HomeOf(k)
      PROVE  Before(k)' \in {Before(k), Nil}
  <2>1. PrevOf(k) \in Servers
    BY <1>1, Homes
  <2>2. Far(PrevOf(k), k) \/ db'[PrevOf(k)].data[k] = Nil
    BY <1>1, <2>1, FarStays
  <2>. QED BY <1>1, <2>2 DEF Before, At, Far
<1>. QED BY <1>1 DEF Fades

\* One process takes a step.
LEMMA OneReads ==
  ASSUME ReadInv, CallInv', Observe, Fades, NEW c \in Clients, NEW w, NEW f, Go(c, w, f),
         \A d \in Clients : d # c => op'[d] = op[d] /\ got'[d] = got[d],
         Reading(c)'
  PROVE  \A d \in Clients : Reading(d)'
<1>1. ASSUME NEW d \in Clients, d # c PROVE Reading(d)'
  <2>1. pc'[d] = pc[d] /\ frame'[d] = frame[d] /\ op'[d] = op[d] /\ got'[d] = got[d]
    BY <1>1 DEF ReadInv, MoveInv, CallInv, Typed, Go
  <2>. QED BY <1>1, <2>1, OthersRead
<1>. QED BY <1>1

\* Steps that end the call, or take none of its values.
LEMMA EndsReading ==
  ASSUME ReadInv, CallInv', Observe, Fades, NEW c \in Clients, NEW w, NEW f, Go(c, w, f),
         w \notin {"mget", "readPrev"},
         \A d \in Clients : d # c => op'[d] = op[d] /\ got'[d] = got[d],
         got'[c] = <<>>
  PROVE  \A d \in Clients : Reading(d)'
<1>1. pc'[c] = w
  BY DEF ReadInv, MoveInv, CallInv, Typed, Go
<1>. QED BY <1>1, NothingRead, OneReads

\* A call starts with nothing read.
LEMMA StartsReading ==
  ASSUME ReadInv, CallInv', NEW c \in Clients, Starts(c)
  PROVE  \A d \in Clients : Reading(d)'
<1>1. /\ Observe /\ UNCHANGED <<db, got>> /\ pc[c] = "idle"
      /\ \E o : op' = [op EXCEPT ![c] = o]
      /\ \E w, f : Go(c, w, f)
  <2>1. Observe /\ UNCHANGED <<db, got>> /\ pc[c] = "idle"
    BY DEF Starts, CallKeys, CallRehash, CallMulti, CallEnd, Enter, CanCall
  <2>2. \E o : op' = [op EXCEPT ![c] = o]
    BY DEF Starts, CallKeys, CallRehash, CallMulti, CallEnd, Enter
  <2>3. \E w, f : Go(c, w, f)
    <3>1. CallKeys(c) => \E w, f : Go(c, w, f)
      <4>1. CallKeys(c) => \E o \in KeyCalls :
              IF multi[c] # None THEN Go(c, "forward", NoFrame)
              ELSE Go(c, CASE o.m \in Writes -> "write" [] o.m = "mget" -> "mget" [] OTHER -> "read",
                      [NoFrame EXCEPT !.nodes = NodesOf(o.keys)])
        BY DEF CallKeys
      <4>. QED BY <4>1
    <3>2. CallRehash(c) => \E w, f : Go(c, w, f)
      BY DEF CallRehash
    <3>3. CallMulti(c) \/ CallEnd(c) => \E w, f : Go(c, w, f)
      BY DEF CallMulti, CallEnd
    <3>. QED BY <3>1, <3>2, <3>3 DEF Starts
  <2>. QED BY <2>1, <2>2, <2>3
<1>2. Fades
  BY <1>1 DEF Fades, Before, At
<1>3. CallInv /\ Typed /\ Reading(c) /\ got'[c] = got[c] /\ got[c] = <<>>
  BY <1>1 DEF ReadInv, MoveInv, CallInv, Reading
<1>4. \A d \in Clients : d # c => op'[d] = op[d] /\ got'[d] = got[d]
  BY <1>1, <1>3 DEF Typed
<1>5. PICK w, f : Go(c, w, f)
  BY <1>1
<1>6. CASE w \notin {"mget", "readPrev"}
  BY <1>1, <1>2, <1>3, <1>4, <1>5, <1>6, EndsReading
<1>7. CASE w \in {"mget", "readPrev"}
  <2>1. PICK o \in KeyCalls : /\ <<o.m, o.keys>> \in Inputs /\ op' = [op EXCEPT ![c] = o]
                              /\ w = "mget" /\ f = [NoFrame EXCEPT !.nodes = NodesOf(o.keys)]
                              /\ o.m = "mget"
    <3>1. pc'[c] = w /\ frame'[c] = f
      BY <1>3, <1>5 DEF Typed, Go
    <3>2. CASE CallKeys(c)
      <4>1. PICK o \in KeyCalls :
              /\ Enter(c, o)
              /\ IF multi[c] # None THEN Go(c, "forward", NoFrame)
                 ELSE Go(c, CASE o.m \in Writes -> "write" [] o.m = "mget" -> "mget" [] OTHER -> "read",
                         [NoFrame EXCEPT !.nodes = NodesOf(o.keys)])
        BY <3>2 DEF CallKeys
      <4>2. multi[c] = None
        <5>1. Go(c, "forward", NoFrame) => pc'[c] = "forward"
          BY <1>3 DEF Typed, Go
        <5>. QED BY <1>7, <3>1, <4>1, <5>1
      <4> DEFINE v == CASE o.m \in Writes -> "write" [] o.m = "mget" -> "mget" [] OTHER -> "read"
                 g == [NoFrame EXCEPT !.nodes = NodesOf(o.keys)]
      <4>3. Go(c, v, g)
        BY <4>1, <4>2
      <4>4. v \in {"write", "read"} \/ (v = "mget" /\ o.m = "mget")
        OBVIOUS
      <4> HIDE DEF v, g
      <4>5. pc'[c] = v /\ frame'[c] = g
        BY <1>3, <4>3 DEF Typed, Go
      <4>6. w = "mget" /\ f = g /\ o.m = "mget"
        BY <1>7, <3>1, <4>4, <4>5
      <4>. QED BY <4>1, <4>6 DEF Enter, g
    <3>3. CASE CallRehash(c)
      <4>1. pc'[c] \in {"return", "list"}
        BY <1>3, <3>3 DEF CallRehash, Typed, Go
      <4>. QED BY <1>7, <3>1, <4>1
    <3>4. CASE CallMulti(c)
      <4>1. pc'[c] = "multi"
        BY <1>3, <3>4 DEF CallMulti, Typed, Go
      <4>. QED BY <1>7, <3>1, <4>1
    <3>5. CASE CallEnd(c)
      <4>1. PICK m \in {"exec", "discard"} : Go(c, IF multi[c] = None THEN "return" ELSE m, NoFrame)
        BY <3>5 DEF CallEnd
      <4>2. pc'[c] \in {"return", "exec", "discard"}
        BY <1>3, <4>1 DEF Typed, Go
      <4>. QED BY <1>7, <3>1, <4>2
    <3>. QED BY <3>2, <3>3, <3>4, <3>5 DEF Starts
  <2>2. o.keys \in Seq(Keys) /\ o.keys # <<>> /\ op'[c] = o
    <3>1. <<o.m, o.keys>>[1] = "mget" /\ <<o.m, o.keys>>[2] = o.keys
      BY <2>1
    <3>2. o.keys \in Seq(Keys) /\ o.keys # <<>>
      BY <2>1, <3>1, OptionAssumption DEF Reads
    <3>. QED BY <1>3, <2>1, <3>2 DEF Typed
  <2>3. f.nodes = NodesOf(o.keys) /\ pc'[c] = w /\ frame'[c] = f
    <3>1. NodesOf(o.keys) \in Seq(Servers)
      BY <2>2, NodesOfKeys
    <3> DEFINE x == NodesOf(o.keys)
    <3>2. Fields([NoFrame EXCEPT !.nodes = x], x, {}, None, None, None, -1, Nil, FALSE)
      <4> HIDE DEF x
      <4>1. NoFrame \in Locals
        BY FrameBetween
      <4>. QED BY <3>1, <4>1, LocalSteps DEF x
    <3>. QED BY <1>3, <1>5, <2>1, <3>2 DEF Fields, Typed, Go
  <2>4. \A i \in DOMAIN o.keys : HomeOf(o.keys[i]) \in ToSet(f.nodes)
    <3>1. ToSet(NodesOf(o.keys)) = {HomeOf(k) : k \in ToSet(o.keys)}
      BY <2>2, NodesOfKeys
    <3>. QED BY <2>3, <3>1 DEF ToSet
  <2> DEFINE none == <<>>
  <2>5. /\ Len(none) = 0 /\ DOMAIN none = {} /\ Len(o.keys) \in Nat /\ got'[c] = none
    BY <1>3, <2>2
  <2>6. none = <<>>
    OBVIOUS
  <2> HIDE DEF none
  <2>7. w \notin {"return", "readPrev"} \cup Moves /\ w = "mget"
    BY <2>1 DEF Moves
  <2>8. Reading(c)'
    BY <2>2, <2>3, <2>4, <2>5, <2>6, <2>7 DEF Reading
  <2>. QED BY <1>1, <1>2, <1>4, <1>5, <2>8, OneReads
<1>. QED BY <1>6, <1>7

\* Methods that read nothing have no values.
LEMMA NothingGot ==
  ASSUME ReadInv, NEW c \in Clients,
         pc[c] \in {"forward", "multi", "exec", "discard", "read", "readPrev", "write", "list", "scan"}
  PROVE  got[c] = <<>>
<1>1. CallInv /\ Reading(c)
  BY DEF ReadInv, MoveInv
<1>2. CallIs(pc[c], op[c], frame[c], multi[c])
  BY <1>1, CallFacts
<1>3. pc[c] \in {"write", "list", "scan"} => op[c].m \notin Reads
  BY <1>2 DEF CallIs, Reads, Writes
<1>. QED BY <1>1, <1>3 DEF Reading

\* Steps that read no value.
LEMMA OthersReading ==
  ASSUME ReadInv, CallInv', NEW c \in Clients,
         Forward(c) \/ Write(c) \/ List(c) \/ Scan(c) \/ Return(c) \/ Throw(c) \/ Lose(c)
  PROVE  \A d \in Clients : Reading(d)'
<1>1. CallInv /\ Typed
  BY DEF ReadInv, MoveInv, CallInv
<1>2. Observe
  BY StepsObserve DEF Goings, Step, Move
<1>3. Fades
  <2>1. CASE UNCHANGED db
    BY <2>1 DEF Fades, Before, At
  <2>2. CASE Forward(c) \/ Write(c) \/ List(c) \/ Throw(c)
    <3>1. pc[c] \in Busy /\ Serve(HostOf(c), Executes(c))
      BY <2>2 DEF Forward, Write, List, Throw, Ask, Busy, Steps
    <3>. QED BY <1>1, <3>1, ServesFade
  <2>3. CASE Lose(c)
    <3>1. pc[c] \in Busy /\ \E reached \in BOOLEAN : Serve(HostOf(c), IF reached THEN Executes(c) ELSE <<>>)
      BY <1>1, <2>3, LoseParts
    <3>2. Serve(HostOf(c), Executes(c)) \/ Serve(HostOf(c), <<>>)
      BY <3>1
    <3>. QED BY <1>1, <3>1, <3>2, ServesFade
  <2>4. Scan(c) \/ Return(c) => UNCHANGED db
    BY DEF Scan, Return
  <2>. QED BY <2>1, <2>2, <2>3, <2>4
<1>4. \E w, f : Go(c, w, f) /\ w \notin {"mget", "readPrev"}
  <2>1. CASE Forward(c)
    BY <2>1 DEF Forward
  <2>2. CASE Write(c)
    BY <2>2 DEF Write, NextNode
  <2>3. CASE List(c)
    BY <2>3 DEF List
  <2>4. CASE Scan(c)
    <3> DEFINE f == frame[c]
    <3>1. \A k : Moving(f, k, Prev(Head(f.nodes)), Ring(HomeOf(k))).keys = f.keys
      BY DEF Moving
    <3>2. \/ \E k \in f.keys :
               IF HomeOf(k) = Head(f.nodes) THEN Go(c, "scan", [f EXCEPT !.keys = @ \ {k}])
               ELSE Go(c, "type", [Moving(f, k, Prev(Head(f.nodes)), Ring(HomeOf(k)))
                                    EXCEPT !.keys = f.keys \ {k}])
          \/ NextNode(c, "list")
      BY <2>4, <3>1 DEF Scan
    <3>3. ASSUME NextNode(c, "list") PROVE \E w, g : Go(c, w, g) /\ w \notin {"mget", "readPrev"}
      BY <3>3 DEF NextNode
    <3>4. ASSUME NEW k, NEW g1, NEW g2,
                 IF HomeOf(k) = Head(f.nodes) THEN Go(c, "scan", g1) ELSE Go(c, "type", g2)
          PROVE  \E w, g : Go(c, w, g) /\ w \notin {"mget", "readPrev"}
      BY <3>4
    <3> HIDE DEF f
    <3>. QED BY <3>2, <3>3, <3>4
  <2>5. CASE Return(c) \/ Throw(c) \/ Lose(c)
    BY <2>5 DEF Return, Throw, Lose
  <2>. QED BY <2>1, <2>2, <2>3, <2>4, <2>5
<1>5. \A d \in Clients : d # c => op'[d] = op[d]
  <2>1. op' = op \/ op' = [op EXCEPT ![c] = NoOp]
    BY DEF Forward, Write, List, Scan, Return, Throw, Lose, Quiet
  <2>. QED BY <1>1, <2>1 DEF Typed
<1>6. got'[c] = <<>> /\ \A d \in Clients : d # c => got'[d] = got[d]
  <2> DEFINE none == <<>>
  <2>1. CASE Return(c) \/ Throw(c) \/ Lose(c)
    <3>1. got' = [got EXCEPT ![c] = none]
      BY <2>1 DEF Return, Throw, Lose
    <3> DEFINE S == Seq(Value)
    <3>2. got \in [Clients -> S]
      BY <1>1 DEF Typed
    <3> HIDE DEF none, S
    <3>3. got'[c] = none /\ \A d \in Clients : d # c => got'[d] = got[d]
      BY <3>1, <3>2
    <3>. QED BY <3>3 DEF none
  <2>2. CASE Forward(c) \/ Write(c) \/ List(c) \/ Scan(c)
    <3>1. got' = got /\ pc[c] \in {"forward", "multi", "exec", "discard", "write", "list", "scan"}
      BY <2>2 DEF Forward, Write, List, Scan
    <3>. QED BY <3>1, NothingGot
  <2>. QED BY <2>1, <2>2
<1>7. PICK w, f : Go(c, w, f) /\ w \notin {"mget", "readPrev"}
  BY <1>4
<1>. QED BY <1>2, <1>3, <1>5, <1>6, <1>7, EndsReading

\* A move leaves the value that started it.
LEMMA MovesReading ==
  ASSUME ReadInv, CallInv', NEW c \in Clients, NEW here \in Moves, NEW w \in {"scan", "return"} \cup Moves,
         NEW f, MoveStep(c, here, w, f)
  PROVE  \A d \in Clients : Reading(d)'
<1>1. CallInv /\ Typed /\ Reading(c)
  BY DEF ReadInv, MoveInv, CallInv
<1>2. /\ pc[c] = here /\ Ask(c) /\ got' = got /\ Go(c, w, f) /\ op'[c] = op[c] /\ pc[c] \in Busy
      /\ \A d \in Clients : d # c => op'[d] = op[d]
      /\ CallIs(pc[c], op[c], frame[c], multi[c])
  BY <1>1, MoveStepIs
<1>3. Observe /\ Fades
  <2>1. Serve(HostOf(c), Executes(c))
    BY <1>2 DEF Ask
  <2>. QED BY <1>1, <1>2, <2>1, ServesFade DEF MoveStep
<1>4. pc'[c] = w /\ w \notin {"mget", "readPrev", "idle", "forward", "multi", "exec", "discard", "read"}
  BY <1>1, <1>2 DEF Typed, Go, Moves
<1> DEFINE o == op[c]  g == got[c]
<1>5. /\ o.keys \in Seq(Keys) /\ g \in Seq(Value) /\ Len(g) <= Len(o.keys)
  <2>1. op[c] \in Op /\ got[c] \in Seq(Value)
    BY <1>1, TypedFields
  <2>. QED BY <1>1, <2>1, OpFields DEF Reading
<1>6. /\ Len(g) \in Nat /\ Len(o.keys) \in Nat /\ DOMAIN g = 1 .. Len(g)
      /\ \A i \in 1 .. Len(o.keys) : o.keys[i] \in Keys
  BY <1>5
<1>7. ASSUME NEW i \in DOMAIN g PROVE Known(c, i)'
  <2>1. o.m \in Reads /\ Known(c, i)
    BY <1>1, <1>2, <1>7 DEF Reading
  <2>2. i \in 1 .. Len(o.keys)
    BY <1>5, <1>6, <1>7
  <2>3. PICK k \in Keys : k = o.keys[i]
    BY <1>6, <2>2
  <2>4. Watched(c, k)
    BY <1>2, <1>3, <1>4, <1>5, <2>1, <2>2, <2>3, WatchedKeys
  <2>. QED BY <1>2, <2>1, <2>3, <2>4 DEF Known, Watched
<1>8. Reading(c)'
  BY <1>1, <1>2, <1>4, <1>7 DEF Reading
<1>. QED BY <1>2, <1>3, <1>8, OneReads

\* The step of a read on the servers.
LEMMA ReadStepIs ==
  ASSUME ReadInv, NEW c \in Clients, Read(c) \/ ReadPrev(c) \/ Mget(c)
  PROVE  /\ CallInv /\ Typed /\ Reading(c) /\ Observe /\ Fades /\ db' = db /\ ~Of(c).tx
         /\ CallIs(pc[c], op[c], frame[c], multi[c]) /\ Goes(c) /\ pc[c] \in Busy
         /\ op'[c] = op[c] /\ op[c].keys \in Seq(Keys) /\ op[c].keys # <<>> /\ op[c].m \in Reads
         /\ \A d \in Clients : d # c => op'[d] = op[d]
<1>1. CallInv /\ Typed /\ Reading(c)
  BY DEF ReadInv, MoveInv, CallInv
<1>2. pc[c] \in {"read", "readPrev", "mget"} /\ Ask(c) /\ Observe /\ op' = op
  BY DEF Read, ReadPrev, Mget, Quiet
<1>3. pc[c] \in Busy /\ pc[c] \in Quiets /\ Serve(HostOf(c), Executes(c))
  BY <1>2 DEF Busy, Steps, Quiets, Ask
<1>4. db' = db /\ ~Of(c).tx
  BY <1>1, <1>2, <1>3, ReadingLeaves, NotOpen
<1>5. Fades
  BY <1>1, <1>3, ServesFade
<1>6. CallIs(pc[c], op[c], frame[c], multi[c]) /\ Goes(c) /\ op[c] \in Op
  BY <1>1, CallFacts, RequestGoes, TypedFields
<1>7. op[c].m \in Reads /\ op[c].keys # <<>>
  BY <1>2, <1>6 DEF CallIs, Reads
<1>8. op[c].keys \in Seq(Keys)
  BY <1>6, OpFields
<1>. QED BY <1>1, <1>2, <1>3, <1>4, <1>5, <1>6, <1>7, <1>8

\* A read of one key comes to have one value, which is known.
LEMMA OneValue ==
  ASSUME ReadInv, CallInv', NEW c \in Clients, pc'[c] \notin {"mget", "readPrev", "idle", "forward",
           "multi", "exec", "discard", "read"}, op'[c].m \in Reads,
         op'[c].keys \in Seq(Keys), op'[c].keys # <<>>, NEW v \in Value, got'[c] = <<v>>,
         v \in seen'[c][op'[c].keys[1]]
  PROVE  Reading(c)'
<1> DEFINE one == <<v>>
<1>1. Len(one) = 1 /\ DOMAIN one = {1} /\ one[1] = v /\ Len(one) <= Len(op'[c].keys)
  <2>1. Len(op'[c].keys) \in Nat /\ Len(op'[c].keys) # 0
    OBVIOUS
  <2>. QED BY <2>1
<1> HIDE DEF one
<1>2. got'[c] = one
  BY DEF one
<1>3. \A i \in DOMAIN one : Known(c, i)'
  BY <1>1, <1>2 DEF Known
<1>. QED BY <1>1, <1>2, <1>3 DEF Reading

\* The value at the ring is the present one; without it the fallback will be.
LEMMA ReadReading ==
  ASSUME ReadInv, CallInv', NEW c \in Clients, Read(c)
  PROVE  \A d \in Clients : Reading(d)'
<1>1. /\ CallInv /\ Typed /\ Reading(c) /\ Observe /\ Fades /\ db' = db /\ ~Of(c).tx
      /\ CallIs(pc[c], op[c], frame[c], multi[c]) /\ Goes(c) /\ pc[c] \in Busy
      /\ op'[c] = op[c] /\ op[c].keys \in Seq(Keys) /\ op[c].keys # <<>> /\ op[c].m \in Reads
      /\ \A d \in Clients : d # c => op'[d] = op[d]
  BY ReadStepIs
<1> DEFINE v == Fetched(c)
<1>2. /\ pc[c] = "read"
      /\ \/ PrevHosts # <<>> /\ v = Nil /\ Go(c, "readPrev", frame[c]) /\ got' = got
         \/ /\ ~(PrevHosts # <<>> /\ v = Nil /\ op[c].m # "exists")
            /\ Go(c, "return", NoFrame) /\ Gives(c, <<v>>)
  BY <1>1 DEF Read, ra_call_failed
<1>3. PICK k \in Keys : k = op[c].keys[1]
  BY <1>1
<1>4. v = At(HomeOf(k), k)' /\ v \in Value
  <2>1. HostOf(c) = HomeOf(k)
    BY <1>1, <1>2, <1>3, ConnectionsApart, Homes DEF Goes, HostOf
  <2>2. v = At(HostOf(c), k) /\ v \in Value
    BY <1>1, <1>2, <1>3, FetchedIs
  <2>. QED BY <1>1, <2>1, <2>2 DEF At
<1>5. 1 \in 1 .. Len(op'[c].keys) /\ op'[c].keys[1] = k
  BY <1>1, <1>3
<1>6. ASSUME pc'[c] # "idle" PROVE Watched(c, k)
  BY <1>1, <1>5, <1>6, WatchedKeys
<1> HIDE DEF v
<1>7. CASE PrevHosts # <<>> /\ v = Nil /\ Go(c, "readPrev", frame[c]) /\ got' = got
  <2>1. pc'[c] = "readPrev" /\ got'[c] = got[c] /\ got[c] = <<>>
    BY <1>1, <1>2, <1>7, NothingGot DEF Typed, Go
  <2>2. Before(k)' \in seen'[c][k]
    BY <1>4, <1>6, <1>7, <2>1 DEF Watched
  <2> DEFINE none == <<>>  w == "readPrev"
  <2>3. Len(none) = 0 /\ DOMAIN none = {} /\ Len(op[c].keys) \in Nat /\ w = "readPrev"
        /\ w \notin {"return", "mget"} \cup Moves /\ none = <<>>
    BY <1>1 DEF Moves
  <2> HIDE DEF none, w
  <2>4. pc'[c] = w /\ got'[c] = none
    BY <2>1, <2>3
  <2>5. Reading(c)'
    BY <1>1, <1>3, <1>5, <2>2, <2>3, <2>4 DEF Reading
  <2>6. \A d \in Clients : d # c => got'[d] = got[d]
    BY <1>7
  <2>. QED BY <1>1, <1>7, <2>5, <2>6, OneReads
<1>8. CASE /\ ~(PrevHosts # <<>> /\ v = Nil /\ op[c].m # "exists")
           /\ Go(c, "return", NoFrame) /\ Gives(c, <<v>>)
  <2>1. pc'[c] = "return"
    BY <1>1, <1>8 DEF Typed, Go
  <2>2. got'[c] = <<v>> /\ \A d \in Clients : d # c => got'[d] = got[d]
    <3> DEFINE one == <<v>>
    <3>1. one \in Seq(Value) /\ Gives(c, one)
      BY <1>4, <1>8, ValueSeqs
    <3> HIDE DEF one
    <3>2. got'[c] = one /\ \A d \in Clients : d # c => got'[d] = got[d]
      BY <1>1, <3>1, GotOne
    <3>. QED BY <3>2 DEF one
  <2>3. v \in seen'[c][k]
    <3>1. PrevHosts = <<>> => Before(k)' = Nil
      BY DEF Before
    <3>. QED BY <1>1, <1>4, <1>6, <1>8, <2>1, <3>1 DEF Watched
  <2>4. Reading(c)'
    BY <1>1, <1>4, <1>5, <2>1, <2>2, <2>3, OneValue
  <2>. QED BY <1>1, <1>8, <2>2, <2>4, OneReads
<1>. QED BY <1>2, <1>7, <1>8

\* The value at the previous ring is the present one, or was when the ring was read.
LEMMA ReadPrevReading ==
  ASSUME ReadInv, CallInv', NEW c \in Clients, ReadPrev(c)
  PROVE  \A d \in Clients : Reading(d)'
<1>1. /\ CallInv /\ Typed /\ Reading(c) /\ Observe /\ Fades /\ db' = db /\ ~Of(c).tx
      /\ CallIs(pc[c], op[c], frame[c], multi[c]) /\ Goes(c) /\ pc[c] \in Busy
      /\ op'[c] = op[c] /\ op[c].keys \in Seq(Keys) /\ op[c].keys # <<>> /\ op[c].m \in Reads
      /\ \A d \in Clients : d # c => op'[d] = op[d]
  BY ReadStepIs
<1> DEFINE v == Fetched(c)
<1>2. /\ pc[c] = "readPrev" /\ Gives(c, <<v>>)
      /\ \E w \in {"type", "return"} : \E f : Go(c, w, f)
  BY DEF ReadPrev
<1>3. PICK k \in Keys : k = op[c].keys[1]
  BY <1>1
<1>4. v = Before(k)' /\ v \in Value /\ PrevHosts # <<>> /\ Before(k)' = Before(k)
  <2>1. PrevHosts # <<>>
    BY <1>1, <1>2 DEF CallIs
  <2>2. HostOf(c) = PrevOf(k)
    BY <1>1, <1>2, <1>3, <2>1, ConnectionsApart, Homes DEF Goes, HostOf
  <2>3. v = At(HostOf(c), k) /\ v \in Value
    BY <1>1, <1>2, <1>3, FetchedIs
  <2>. QED BY <1>1, <2>1, <2>2, <2>3 DEF At, Before
<1>5. 1 \in 1 .. Len(op'[c].keys) /\ op'[c].keys[1] = k
  BY <1>1, <1>3
<1>6. PICK w \in {"type", "return"} : \E f : Go(c, w, f)
  BY <1>2
<1>7. pc'[c] = w
  BY <1>1, <1>6 DEF Typed, Go
<1>12. PICK f : Go(c, w, f)
  BY <1>6
<1>8. Watched(c, k)
  BY <1>1, <1>5, <1>7, WatchedKeys
<1> HIDE DEF v
<1>9. v \in seen'[c][k]
  <2>1. CASE PrevOf(k) # HomeOf(k)
    BY <1>1, <1>2, <1>3, <1>4, <1>8, <2>1 DEF Reading, Watched
  <2>2. CASE PrevOf(k) = HomeOf(k)
    <3>1. Before(k)' = At(HomeOf(k), k)'
      BY <1>4, <2>2 DEF Before
    <3>. QED BY <1>4, <1>8, <3>1 DEF Watched
  <2>. QED BY <2>1, <2>2
<1>10. got'[c] = <<v>> /\ \A d \in Clients : d # c => got'[d] = got[d]
  <2> DEFINE one == <<v>>
  <2>1. one \in Seq(Value) /\ Gives(c, one)
    BY <1>2, <1>4, ValueSeqs
  <2> HIDE DEF one
  <2>2. got'[c] = one /\ \A d \in Clients : d # c => got'[d] = got[d]
    BY <1>1, <2>1, GotOne
  <2>. QED BY <2>2 DEF one
<1>11. Reading(c)'
  BY <1>1, <1>4, <1>5, <1>7, <1>9, <1>10, OneValue
<1>. QED BY <1>1, <1>12, <1>10, <1>11, OneReads

\* Each value of mget() is that of its own key.
LEMMA MgetReading ==
  ASSUME ReadInv, CallInv', NEW c \in Clients, Mget(c)
  PROVE  \A d \in Clients : Reading(d)'
<1>1. /\ CallInv /\ Typed /\ Reading(c) /\ Observe /\ Fades /\ db' = db /\ ~Of(c).tx
      /\ CallIs(pc[c], op[c], frame[c], multi[c]) /\ Goes(c) /\ pc[c] \in Busy
      /\ op'[c] = op[c] /\ op[c].keys \in Seq(Keys) /\ op[c].keys # <<>> /\ op[c].m \in Reads
      /\ \A d \in Clients : d # c => op'[d] = op[d]
  BY ReadStepIs
<1> DEFINE ks == Asked(c)[1].keys  h == Head(frame[c].nodes)
           vs == Placed(c, [i \in DOMAIN ks |-> At(HostOf(c), ks[i])])
<1>2. pc[c] = "mget" /\ Gives(c, vs) /\ NextNode(c, "mget")
  BY <1>1 DEF Mget
<1>3. PlacedWell(c, vs, h) /\ op[c].m = "mget"
  BY <1>1, <1>2, PlacedIs DEF CallIs
<1> HIDE DEF vs
<1>4. /\ got'[c] = vs /\ (\A d \in Clients : d # c => got'[d] = got[d])
      /\ vs \in Seq(Value) /\ DOMAIN vs = DOMAIN op[c].keys
  BY <1>1, <1>2, <1>3, GotOne DEF PlacedWell
<1>5. PICK w \in {"return", "mget"}, f \in Locals :
         /\ Go(c, w, f)
         /\ w = "mget" => f.nodes = Tail(frame[c].nodes) /\ f.nodes # <<>>
         /\ w = "return" => Len(frame[c].nodes) = 1
  BY <1>1, <1>2, NextNodeIs
<1>6. pc'[c] = w /\ frame'[c] = f
  BY <1>1, <1>5 DEF Typed, Go
<1>7. /\ DOMAIN vs = 1 .. Len(op[c].keys) /\ Len(vs) = Len(op[c].keys) /\ Len(vs) \in Nat
      /\ \A i \in 1 .. Len(op[c].keys) : op[c].keys[i] \in Keys
  BY <1>1, <1>4
<1>8. ASSUME NEW i \in DOMAIN vs,
             HomeOf(op[c].keys[i]) = h \/ HomeOf(op[c].keys[i]) \notin ToSet(frame[c].nodes)
      PROVE  Known(c, i)'
  <2>1. PICK k \in Keys : k = op[c].keys[i]
    BY <1>7, <1>8
  <2>2. Watched(c, k)
    BY <1>1, <1>6, <1>7, <1>8, <2>1, WatchedKeys
  <2>3. CASE HomeOf(k) = h
    <3>1. vs[i] = At(HomeOf(k), k)'
      BY <1>1, <1>3, <1>8, <2>1, <2>3 DEF PlacedWell, At
    <3>2. vs[i] \in seen'[c][k]
      BY <1>1, <1>3, <2>2, <3>1 DEF Watched
    <3>. QED BY <1>1, <1>4, <1>8, <2>1, <3>2 DEF Known
  <2>4. CASE HomeOf(k) # h
    <3>1. Known(c, i)
      BY <1>1, <1>2, <1>4, <1>8, <2>1, <2>4 DEF Reading
    <3>2. vs[i] = got[c][i]
      BY <1>3, <1>8, <2>1, <2>4, <3>1 DEF PlacedWell, Known
    <3>. QED BY <1>1, <1>4, <1>8, <2>1, <2>2, <3>1, <3>2 DEF Known, Watched
  <2>. QED BY <2>3, <2>4
<1>9. /\ frame[c].nodes \in Seq(Servers) /\ frame[c].nodes # <<>>
      /\ ToSet(frame[c].nodes) = {h} \cup ToSet(Tail(frame[c].nodes))
  <2>1. frame[c].nodes \in Seq(Servers) /\ frame[c].nodes # <<>>
    BY <1>1, <1>2, TypedFields, LocalFields DEF CallIs
  <2>. QED BY <2>1, FirstNode
<1>10. Reading(c)'
  <2>1. CASE w = "mget"
    <3>1. \A i \in DOMAIN op[c].keys : HomeOf(op[c].keys[i]) \notin ToSet(f.nodes) => Known(c, i)'
      BY <1>4, <1>5, <1>8, <1>9, <2>1
    <3> DEFINE x == "mget"
    <3>2. x \notin {"idle", "forward", "multi", "exec", "discard", "read", "readPrev", "return"} \cup Moves
      BY DEF Moves
    <3>3. pc'[c] = x
      BY <1>6, <2>1
    <3> HIDE DEF x
    <3>. QED BY <1>1, <1>3, <1>4, <1>6, <1>7, <3>1, <3>2, <3>3 DEF Reading
  <2>2. CASE w = "return"
    <3>1. ToSet(frame[c].nodes) = {h}
      <4> DEFINE s == frame[c].nodes
      <4>1. s \in Seq(Servers) /\ Len(s) = 1 /\ ToSet(s) = {s[i] : i \in 1 .. Len(s)} /\ Head(s) = s[1]
        BY <1>5, <1>9, <2>2 DEF ToSet
      <4> HIDE DEF s
      <4>2. ToSet(s) = {Head(s)}
        BY <4>1
      <4>. QED BY <4>2 DEF s
    <3>2. \A i \in DOMAIN vs : Known(c, i)'
      BY <1>8, <3>1
    <3> DEFINE x == "return"
    <3>3. x \notin {"idle", "forward", "multi", "exec", "discard", "read", "readPrev", "mget"}
      OBVIOUS
    <3>4. pc'[c] = x
      BY <1>6, <2>2
    <3> HIDE DEF x
    <3>. QED BY <1>1, <1>3, <1>4, <1>6, <1>7, <3>2, <3>3, <3>4 DEF Reading
  <2>. QED BY <2>1, <2>2
<1>. QED BY <1>1, <1>4, <1>5, <1>10, OneReads

\* A server fills, or nothing happens.
LEMMA RestReading ==
  ASSUME ReadInv, (\E h \in Servers : Fill(h)) \/ UNCHANGED vars
  PROVE  \A d \in Clients : Reading(d)'
<1>1. UNCHANGED <<db, pc, op, frame, got, seen>>
  BY DEF Fill, vars
<1>. QED BY <1>1 DEF ReadInv, Reading, Known, Before, At

\* Every step keeps the invariant of the reads.
LEMMA ReadSteps ==
  ASSUME ReadInv, [Next]_vars
  PROVE  ReadInv'
<1>1. MoveInv' /\ CallInv'
  BY MoveSteps DEF ReadInv, MoveInv
<1>2. ASSUME NEW c \in Clients, Starts(c) PROVE \A d \in Clients : Reading(d)'
  BY <1>1, <1>2, StartsReading
<1>3. ASSUME NEW c \in Clients, Step(c) PROVE \A d \in Clients : Reading(d)'
  <2>1. CASE Forward(c) \/ Write(c) \/ List(c) \/ Scan(c) \/ Return(c) \/ Throw(c)
    BY <1>1, <2>1, OthersReading
  <2>2. CASE Read(c) \/ ReadPrev(c) \/ Mget(c)
    BY <1>1, <2>2, ReadReading, ReadPrevReading, MgetReading
  <2>3. CASE MoveType(c) \/ MoveMulti(c) \/ MoveFetch(c) \/ MoveStore(c) \/ MoveDelete(c) \/ MoveExec(c)
    <3>1. \E here \in Moves, w \in {"scan", "return"} \cup Moves : \E f : MoveStep(c, here, w, f)
      <4>1. CASE MoveType(c) \/ MoveMulti(c)
        BY <4>1 DEF MoveType, MoveMulti, Moves
      <4>2. CASE MoveFetch(c)
        BY <4>2 DEF MoveFetch, Moves
      <4>3. CASE MoveStore(c) \/ MoveDelete(c) \/ MoveExec(c)
        BY <4>3 DEF MoveStore, MoveDelete, MoveExec, Moves
      <4>. QED BY <2>3, <4>1, <4>2, <4>3
    <3>. QED BY <1>1, <3>1, MovesReading
  <2>. QED BY <1>3, <2>1, <2>2, <2>3 DEF Step, Move
<1>4. ASSUME NEW c \in Clients, Lose(c) PROVE \A d \in Clients : Reading(d)'
  BY <1>1, <1>4, OthersReading
<1>5. ASSUME (\E h \in Servers : Fill(h)) \/ UNCHANGED vars PROVE \A d \in Clients : Reading(d)'
  BY <1>5, RestReading
<1>6. \A d \in Clients : Reading(d)'
  BY <1>2, <1>3, <1>4, <1>5 DEF Next, Starts
<1>. QED BY <1>1, <1>6 DEF ReadInv

\* The invariant of the reads holds at first.
LEMMA StartReading ==
  ASSUME Init
  PROVE  ReadInv
<1>1. MoveInv
  BY StartMoves
<1> DEFINE none == <<>>  w == "idle"
<1>2. \A c \in Clients : pc[c] = w /\ op[c].keys \in Seq(Keys) /\ got[c] = none
  <2>1. \A c \in Clients : op[c] \in Op
    BY <1>1 DEF MoveInv, CallInv, Typed
  <2>2. \A c \in Clients : op[c].keys \in Seq(Keys)
    BY <2>1, OpFields
  <2>. QED BY <2>2 DEF Init
<1>3. Len(none) = 0 /\ DOMAIN none = {} /\ none = <<>> /\ w \notin {"return", "mget", "readPrev"} \cup Moves
  BY DEF Moves
<1> HIDE DEF none, w
<1>4. \A c \in Clients : Len(op[c].keys) \in Nat
  BY <1>2
<1>5. \A c \in Clients : Reading(c)
  BY <1>2, <1>3, <1>4 DEF Reading
<1>. QED BY <1>1, <1>5 DEF ReadInv

\* A read returns what its key was at some moment of the call, each value of mget() for its own
\* key, however it races with the writes and the moves of the other processes.
THEOREM ReadsGiveFreshValues == Spec => []ReadsFresh
<1>1. Init => ReadInv
  BY StartReading
<1>2. ReadInv /\ [Next]_vars => ReadInv'
  BY ReadSteps
<1>3. ReadInv => ReadsFresh
  BY DEF ReadInv, ReadsFresh, Reading, Known
<1>. QED BY <1>1, <1>2, <1>3, PTL DEF Spec

=============================================================================
