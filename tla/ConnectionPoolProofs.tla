------------------------ MODULE ConnectionPoolProofs ------------------------
(***************************************************************************)
(* Persistent streams for any number of objects, streams, users, databases  *)
(* and settings: type correctness, one owner and one count for each stream, *)
(* no reply read by another object, and the session an object chose.        *)
(***************************************************************************)
EXTENDS ConnectionPool, FiniteSetTheorems, SequenceTheorems, TLAPS

-----------------------------------------------------------------------------
(* Types. *)

Statuses == {"DISCONNECTED", "FAILED", "CONNECTED", "AUTHENTICATED", "READY"}
Socks == [exists : BOOLEAN, stream : Streams \cup {None}, status : Statuses,
          mode : {"ATOMIC", "MULTI", "PIPELINE"}, watching : BOOLEAN, db : AllDbs, auth : Creds]
\* The state of a stream; an alive one is open.
Servers ==
  {s \in [open : BOOLEAN, alive : BOOLEAN, db : AllDbs, user : Creds, tx : BOOLEAN, watch : BOOLEAN,
          left : {"none", "own", "other", "slipped"}, where : {"none", "late", "socket", "buffer"},
          reused : BOOLEAN, astray : BOOLEAN] : s.alive => s.open}
Methods == {"pconnect", "reconnect"} \cup MethodNames
CallRecs == [o : Objects \cup {None}, m : Methods \cup {"none"}, arg : AllDbs \cup Users,
             pc : {"idle", "connect", "open", "auth", "select", "run"},
             via : {"none", "pconnect", "open", "eof", "reconnect"},
             resume : {"none", "auth", "select", "run"}]

SockType   == sock \in [Objects -> Socks]
PoolType   == pool \in [Creds -> [idle : Seq(Streams), active : Int]]
ServerType == server \in [Streams -> Servers]
CallType   == call \in CallRecs
RestType   == ini \in Settings /\ rekeys \in 0..MaxRekeys /\ torn \subseteq {"other", "slipped"}

Types == SockType /\ PoolType /\ ServerType /\ CallType /\ RestType

LEMMA TypeParts == Types <=> SockType /\ PoolType /\ ServerType /\ CallType /\ RestType
BY DEF Types

LEMMA TypePartsNext == Types' <=> SockType' /\ PoolType' /\ ServerType' /\ CallType' /\ RestType'
BY DEF Types

\* A RedisSock has a stream exactly when its status says so.
StatusSays(k) == k.stream = None <=> k.status \in {"DISCONNECTED", "FAILED"}

\* What a call under way has, by its step.
Underway ==
  /\ call.o \in Objects /\ call.m \in Methods /\ call.via # "none"
  /\ call.m = "select" => call.arg \in AllDbs
  /\ call.m = "auth" => call.arg \in Users
  /\ call.m \in {"select", "auth", "watch", "multi", "pipeline"} => mine.mode = "ATOMIC"
  /\ call.via = "pconnect" <=> call.m = "pconnect"
  /\ call.via = "reconnect" <=> call.m = "reconnect"
  /\ call.via = "eof" <=> call.resume # "none"
  /\ call.pc \in {"connect", "open"} <=> stream = None
  /\ call.pc \in {"auth", "select", "run"} => call.via # "pconnect"
  /\ call.pc = "auth" => mine.status \in {"CONNECTED", "READY"}
  /\ call.pc = "select" => mine.status \in {"AUTHENTICATED", "READY"}
  /\ call.pc = "run" => call.via = "open" /\ mine.status = "READY"

Shape ==
  /\ \A o \in Objects : StatusSays(sock[o])
  /\ IF At("idle") THEN call = NoCall ELSE Underway

Typed == Types /\ Shape

LEMMA RecordTypes ==
  /\ Closed \in Servers /\ Opened \in Servers
  /\ NoSock \in Socks /\ StatusSays(NoSock)
  /\ \A a \in Creds : NewSock(a) \in Socks /\ StatusSays(NewSock(a)) /\ NewSock(a).stream = None
  /\ NoCall \in CallRecs
BY DEF Closed, Opened, Servers, NoSock, NewSock, Socks, NoCall, CallRecs, Creds, AllDbs, Statuses, StatusSays

LEMMA WithoutTypes ==
  ASSUME NEW k \in Socks, NEW reset \in BOOLEAN
  PROVE  /\ Without(k, reset) \in Socks /\ StatusSays(Without(k, reset)) /\ Without(k, reset).stream = None
         /\ FailedSock(k) \in Socks /\ StatusSays(FailedSock(k)) /\ FailedSock(k).stream = None
BY DEF Without, FailedSock, Socks, Statuses, StatusSays

LEMMA PoolOfType ==
  ASSUME NEW k \in Socks
  PROVE  PoolOf(k) \in Creds
BY DEF PoolOf, Socks, Creds

LEMMA SelfTypes ==
  ASSUME Typed, ~At("idle")
  PROVE  /\ self \in Objects /\ mine \in Socks /\ own \in Creds
         /\ stream \in Streams \cup {None}
         /\ ~(At("connect") \/ At("open")) => stream \in Streams
         /\ Underway
<1>1. Underway /\ self \in Objects
  BY DEF Typed, Shape, Underway, self
<1>2. mine \in Socks
  BY <1>1, TypeParts DEF Typed, SockType, mine
<1>3. own \in Creds
  BY <1>2, PoolOfType DEF own
<1>4. call.pc \in {"idle", "connect", "open", "auth", "select", "run"}
  BY TypeParts DEF Typed, CallType, CallRecs
<1>. QED
  BY <1>1, <1>2, <1>3, <1>4 DEF stream, Socks, Underway, At

LEMMA DisconnectsTypes ==
  ASSUME Types, NEW o \in Objects, NEW force \in BOOLEAN, Disconnects(o, force)
  PROVE  PoolType' /\ ServerType'
<1> DEFINE s == sock[o].stream
           p == PoolOf(sock[o])
<1>1. sock[o] \in Socks /\ s \in Streams \cup {None} /\ p \in Creds
  BY TypeParts, PoolOfType DEF SockType, Socks
<1>2. CASE s = None
  BY <1>2, TypeParts DEF Disconnects, PoolType, ServerType
<1>3. CASE s # None /\ (force \/ sock[o].mode # "ATOMIC")
  <2>1. server' = [server EXCEPT ![s] = Closed] /\ pool' = [pool EXCEPT ![p].active = @ - 1]
    BY <1>3 DEF Disconnects
  <2>2. PoolType'
    BY <1>1, <2>1, TypeParts DEF PoolType
  <2>3. ServerType'
    BY <1>1, <1>3, <2>1, TypeParts, RecordTypes DEF ServerType
  <2>. QED BY <2>2, <2>3
<1>4. CASE s # None /\ ~(force \/ sock[o].mode # "ATOMIC")
  <2>1. /\ server' = [server EXCEPT ![s].left = IF @ = "none" THEN @ ELSE "other"]
        /\ pool' = [pool EXCEPT ![p].idle = <<s>> \o @]
    BY <1>4 DEF Disconnects
  <2>2. ServerType'
    BY <1>1, <1>4, <2>1, TypeParts DEF ServerType, Servers
  <2>3. <<s>> \o pool[p].idle \in Seq(Streams)
    BY <1>1, <1>4, TypeParts DEF PoolType
  <2>4. PoolType'
    BY <1>1, <2>1, <2>3, TypeParts DEF PoolType
  <2>. QED BY <2>2, <2>4
<1>. QED BY <1>2, <1>3, <1>4

LEMMA ExchangeTypes ==
  ASSUME Types, stream \in Streams, NEW done \in Servers, Exchange(done)
  PROVE  PoolType' /\ ServerType' /\ RestType'
<1>1. UNCHANGED <<ini, pool, rekeys>> /\ server[stream] \in Servers
  BY TypeParts DEF Exchange, ServerType
<1>2. \E d \in Servers : server' = [server EXCEPT ![stream] = d]
  <2>1. \A w \in {"socket", "buffer"} : [done EXCEPT !.left = "own", !.where = w, !.astray = TRUE] \in Servers
    BY DEF Servers
  <2>. QED BY <2>1 DEF Exchange
<1>3. ServerType'
  BY <1>2, TypeParts DEF ServerType
<1>4. torn' \subseteq {"other", "slipped"}
  BY <1>1, TypeParts DEF Exchange, RestType, Servers
<1>. QED
  BY <1>1, <1>3, <1>4, TypeParts DEF PoolType, RestType

LEMMA DoneTypes ==
  ASSUME Typed, ~(At("idle") \/ At("connect") \/ At("open"))
  PROVE  /\ server[stream] \in Servers /\ Authed \in Servers /\ Selected \in Servers
         /\ call.m = "select" => [server[stream] EXCEPT !.db = call.arg] \in Servers
         /\ [server[stream] EXCEPT !.watch = TRUE] \in Servers
         /\ [server[stream] EXCEPT !.tx = TRUE] \in Servers
         /\ [server[stream] EXCEPT !.tx = FALSE, !.watch = FALSE] \in Servers
         /\ [server[stream] EXCEPT !.astray = TRUE] \in Servers
<1>1. stream \in Streams /\ server \in [Streams -> Servers] /\ mine \in Socks /\ Underway
  BY SelfTypes, TypeParts DEF Typed, ServerType
<1>2. server[stream] \in Servers
  BY <1>1
<1>. QED
  BY <1>1, <1>2 DEF Servers, Authed, Selected, Socks, Underway

\* A step that gives object o the RedisSock k and ends the call.
LEMMA EndsTyped ==
  ASSUME Typed, NEW o \in Objects, NEW k \in Socks, StatusSays(k),
         sock' = [sock EXCEPT ![o] = k], call' = NoCall, PoolType', ServerType', RestType'
  PROVE  Typed'
<1>1. SockType'
  BY TypeParts DEF Typed, SockType
<1>2. CallType'
  BY RecordTypes DEF CallType
<1>3. Shape'
  BY TypeParts DEF Typed, Shape, At, NoCall, SockType
<1>. QED BY <1>1, <1>2, <1>3, TypePartsNext DEF Typed

LEMMA EndsKept ==
  ASSUME Typed, UNCHANGED sock, call' = NoCall, PoolType', ServerType', RestType'
  PROVE  Typed'
BY TypeParts, TypePartsNext, RecordTypes DEF Typed, SockType, CallType, Shape, At, NoCall

\* A step that leaves the call under way.
LEMMA GoesTyped ==
  ASSUME Typed, NEW o \in Objects, NEW k \in Socks, StatusSays(k),
         sock' = [sock EXCEPT ![o] = k], CallType', Underway', call'.pc # "idle", PoolType', ServerType', RestType'
  PROVE  Typed'
<1>1. SockType'
  BY TypeParts DEF Typed, SockType
<1>3. Shape'
  BY TypeParts DEF Typed, Shape, At, SockType
<1>. QED BY <1>1, <1>3, TypePartsNext DEF Typed

\* A step that changes neither.
LEMMA StaysTyped ==
  ASSUME Typed, UNCHANGED <<sock, call>>, PoolType', ServerType', RestType'
  PROVE  Typed'
BY TypeParts, TypePartsNext DEF Typed, SockType, CallType, Shape, Underway, StatusSays, At, self, mine, stream

LEMMA StaysRest ==
  ASSUME Types, Stays
  PROVE  RestType'
BY TypeParts DEF Stays, RestType

LEMMA NetKept ==
  ASSUME Types, UNCHANGED <<pool, server>>
  PROVE  PoolType' /\ ServerType'
BY TypeParts DEF PoolType, ServerType

LEMMA GivesUpTyped ==
  ASSUME Typed, ~At("idle"), GivesUp
  PROVE  Typed'
<1>1. PoolType' /\ ServerType'
  BY SelfTypes, DisconnectsTypes DEF GivesUp, Typed
<1>2. RestType'
  BY StaysRest DEF GivesUp, Typed
<1>3. self \in Objects /\ FailedSock(mine) \in Socks /\ StatusSays(FailedSock(mine))
  BY SelfTypes, WithoutTypes
<1>4. sock' = [sock EXCEPT ![self] = FailedSock(mine)] /\ call' = NoCall
  BY DEF GivesUp, Becomes, Returns
<1>. QED
  BY <1>1, <1>2, <1>3, <1>4, EndsTyped

LEMMA PconnectTyped ==
  ASSUME Typed, NEW o \in Objects, NEW a \in Creds, Pconnect(o, a)
  PROVE  Typed'
<1>1. PoolType' /\ ServerType' /\ RestType'
  BY DisconnectsTypes, StaysRest DEF Pconnect, Typed
<1>2. sock' = [sock EXCEPT ![o] = NewSock(a)] /\ call' = [o |-> o, m |-> "pconnect", arg |-> 0, pc |-> "connect", via |-> "pconnect", resume |-> "none"]
  BY DEF Pconnect, Begin
<1>3. CallType'
  BY <1>2 DEF CallType, CallRecs, Methods, AllDbs
<1>4. sock'[o] = NewSock(a)
  BY <1>2, TypeParts DEF Typed, SockType
<1>5. Underway'
  BY <1>2, <1>4, RecordTypes DEF Underway, Methods, self, mine, stream
<1>. QED
  BY <1>1, <1>2, <1>3, <1>5, RecordTypes, GoesTyped

LEMMA DestroyTyped ==
  ASSUME Typed, NEW o \in Objects, Destroy(o)
  PROVE  Typed'
<1>1. PoolType' /\ ServerType' /\ RestType'
  BY DisconnectsTypes, StaysRest DEF Destroy, Typed
<1>2. sock' = [sock EXCEPT ![o] = NoSock] /\ call' = NoCall
  BY DEF Destroy, Typed, Shape
<1>. QED
  BY <1>1, <1>2, RecordTypes, EndsTyped

LEMMA ReconnectTyped ==
  ASSUME Typed, NEW o \in Objects, Reconnect(o)
  PROVE  Typed'
<1> DEFINE k == Without(sock[o], TRUE)
<1>1. PoolType' /\ ServerType' /\ RestType'
  BY DisconnectsTypes, StaysRest DEF Reconnect, Typed
<1>2. sock' = [sock EXCEPT ![o] = k] /\ call' = [o |-> o, m |-> "reconnect", arg |-> 0, pc |-> "connect", via |-> "reconnect", resume |-> "none"]
  BY DEF Reconnect, Begin
<1>3. CallType'
  BY <1>2 DEF CallType, CallRecs, Methods, AllDbs
<1>4. k \in Socks /\ StatusSays(k) /\ k.stream = None /\ sock'[o] = k
  BY <1>2, WithoutTypes, TypeParts DEF Typed, SockType
<1>5. Underway'
  BY <1>2, <1>4 DEF Underway, Methods, self, mine, stream
<1> HIDE DEF k
<1>. QED
  BY <1>1, <1>2, <1>3, <1>4, <1>5, GoesTyped

LEMMA MethodTyped ==
  ASSUME Typed, NEW o \in Objects, Method(o)
  PROVE  Typed'
<1>1. PoolType' /\ ServerType' /\ RestType' /\ UNCHANGED sock
  BY StaysRest, NetKept DEF Method, Typed
<1>2. sock[o] \in Socks /\ StatusSays(sock[o])
  BY TypeParts DEF Typed, SockType, Shape
<1>3. PICK c \in Calls(o) : c.m \in ini.uses /\
        Begin(o, c.m, c.arg,
             CASE sock[o].status \in {"FAILED", "DISCONNECTED"} -> "connect"
               [] sock[o].status = "CONNECTED"                  -> "auth"
               [] sock[o].status = "AUTHENTICATED"              -> "select"
               [] sock[o].status = "READY"                      -> "run",
             "open")
  BY DEF Method
<1>4. /\ c.m \in MethodNames /\ c.arg \in AllDbs \cup Users
      /\ c.m = "select" => c.arg \in AllDbs
      /\ c.m = "auth" => c.arg \in Users
      /\ c.m \in {"select", "auth", "watch", "multi", "pipeline"} => sock[o].mode = "ATOMIC"
  BY DEF Calls, MethodNames, AllDbs
<1>5. /\ call'.o = o /\ call'.m = c.m /\ call'.arg = c.arg /\ call'.via = "open" /\ call'.resume = "none"
      /\ CallType'
      /\ sock[o].status \in {"FAILED", "DISCONNECTED"} => call'.pc = "connect"
      /\ sock[o].status = "CONNECTED" => call'.pc = "auth"
      /\ sock[o].status = "AUTHENTICATED" => call'.pc = "select"
      /\ sock[o].status = "READY" => call'.pc = "run"
  BY <1>2, <1>3, <1>4 DEF Begin, Socks, Statuses, CallType, CallRecs, Methods
<1>6. Underway' /\ call'.pc # "idle"
  BY <1>1, <1>2, <1>4, <1>5 DEF Underway, self, mine, stream, StatusSays, Methods, MethodNames, Socks, Statuses
<1>7. sock' = [sock EXCEPT ![o] = sock[o]]
  BY <1>1, TypeParts DEF Typed, SockType
<1>. QED
  BY <1>1, <1>2, <1>5, <1>6, <1>7, GoesTyped

LEMMA IdleTypes ==
  ASSUME Typed, ~At("idle")
  PROVE  /\ Idle \in Seq(Streams)
         /\ Idle # <<>> => oldest \in Streams /\ Front(Idle) \in Seq(Streams)
<1>1. Idle \in Seq(Streams)
  BY SelfTypes, TypeParts DEF Typed, PoolType, Idle
<1>2. ASSUME Idle # <<>>
      PROVE  oldest \in Streams /\ Front(Idle) \in Seq(Streams)
  <2>1. Len(Idle) \in Nat \ {0}
    BY <1>1, <1>2, EmptySeq
  <2>2. oldest \in Streams
    BY <1>1, <2>1 DEF oldest, Last
  <2>3. Front(Idle) \in Seq(Streams)
    BY <1>1, <2>1 DEF Front
  <2>. QED BY <2>2, <2>3
<1>. QED BY <1>1, <1>2

LEMMA ConnectedTyped ==
  ASSUME Typed, At("connect") \/ At("open"), NEW s \in Streams, NEW status \in {"CONNECTED", "AUTHENTICATED"},
         status = "AUTHENTICATED" => call.via = "pconnect",
         Connected(s, status), PoolType', ServerType', RestType'
  PROVE  Typed'
<1> DEFINE k == [mine EXCEPT !.stream = s, !.status = status]
<1>1. self \in Objects /\ mine \in Socks /\ Underway /\ call \in CallRecs
  BY SelfTypes, TypeParts DEF At, Typed, CallType
<1>2. k \in Socks /\ StatusSays(k) /\ k.stream = s /\ k.status = status /\ k.mode = mine.mode
  BY <1>1, NoneAssumption DEF Socks, Statuses, StatusSays
<1>3. sock' = [sock EXCEPT ![self] = k]
  BY DEF Connected, Becomes
<1> HIDE DEF k
<1>4. CASE call.via = "pconnect"
  BY <1>1, <1>2, <1>3, <1>4, EndsTyped DEF Connected, Returns
<1>5. CASE call.via # "pconnect"
  <2>1. call' = [call EXCEPT !.pc = "auth"]
    BY <1>5 DEF Connected, GoTo
  <2>2. CallType' /\ call'.pc = "auth"
    BY <1>1, <2>1 DEF CallType, CallRecs
  <2>3. sock'[self] = k
    BY <1>1, <1>3, TypeParts DEF Typed, SockType
  <2>4. Underway'
    BY <1>1, <1>2, <1>5, <2>1, <2>3, NoneAssumption DEF Underway, CallRecs, self, mine, stream
  <2>. QED BY <1>1, <1>2, <1>3, <2>2, <2>4, GoesTyped
<1>. QED BY <1>4, <1>5

LEMMA HandedTypes ==
  ASSUME Typed, ~At("idle"), NEW s \in Streams
  PROVE  Handed(s) \in Servers
<1>1. server[s] \in Servers /\ mine \in Socks
  BY SelfTypes, TypeParts DEF Typed, ServerType
<1>. QED BY <1>1 DEF Handed, Servers, Socks

LEMMA BorrowTyped ==
  ASSUME Typed, Borrow
  PROVE  Typed'
<1>1. At("connect") /\ call.via # "reconnect" /\ Idle # <<>> /\ ~At("idle")
  BY DEF Borrow, Borrows, At
<1>2. oldest \in Streams /\ Front(Idle) \in Seq(Streams) /\ Handed(oldest) \in Servers /\ own \in Creds
  BY <1>1, IdleTypes, HandedTypes, SelfTypes
<1>3. /\ server' = [server EXCEPT ![oldest] = Handed(oldest)]
      /\ pool' = [pool EXCEPT ![own].idle = Front(Idle)]
      /\ Connected(oldest, IF Probed THEN "AUTHENTICATED" ELSE "CONNECTED")
  BY DEF Borrow, Idle
<1>4. PoolType' /\ ServerType' /\ RestType'
  BY <1>2, <1>3, StaysRest, TypeParts DEF Typed, PoolType, ServerType, Borrow
<1>. QED
  BY <1>1, <1>2, <1>3, <1>4, ConnectedTyped DEF Probed

LEMMA BorrowFailsTyped ==
  ASSUME Typed, BorrowFails
  PROVE  Typed'
<1> DEFINE k == [mine EXCEPT !.status = "DISCONNECTED"]
<1>1. At("connect") /\ call.via # "reconnect" /\ Idle # <<>> /\ ~At("idle")
  BY DEF BorrowFails, Borrows, At
<1>2. /\ oldest \in Streams /\ Front(Idle) \in Seq(Streams) /\ own \in Creds
      /\ self \in Objects /\ mine \in Socks /\ Underway /\ call \in CallRecs /\ stream = None
  BY <1>1, IdleTypes, SelfTypes, TypeParts DEF Typed, CallType, Underway, At
<1>3. /\ server' = [server EXCEPT ![oldest] = Closed]
      /\ pool' = [pool EXCEPT ![own] = [idle |-> Front(Idle), active |-> @.active - 1]]
      /\ sock' = [sock EXCEPT ![self] = k] /\ call' = [call EXCEPT !.pc = "open"]
  BY DEF BorrowFails, Becomes, GoTo
<1>4. pool[own].active - 1 \in Int
  BY <1>2, TypeParts DEF Typed, PoolType
<1>5. PoolType' /\ ServerType' /\ RestType'
  BY <1>2, <1>3, <1>4, StaysRest, TypeParts, RecordTypes DEF Typed, PoolType, ServerType, BorrowFails
<1>6. k \in Socks /\ StatusSays(k) /\ k.stream = None /\ k.mode = mine.mode
  BY <1>2 DEF Socks, Statuses, StatusSays, stream
<1> HIDE DEF k
<1>7. CallType' /\ call'.pc = "open" /\ sock'[self] = k
  BY <1>2, <1>3, TypeParts DEF Typed, CallType, CallRecs, SockType
<1>8. Underway'
  BY <1>2, <1>3, <1>6, <1>7 DEF Underway, CallRecs, self, mine, stream
<1>. QED
  BY <1>2, <1>3, <1>5, <1>6, <1>7, <1>8, GoesTyped

LEMMA OpenTyped ==
  ASSUME Typed, Open
  PROVE  Typed'
<1>1. (At("connect") \/ At("open")) /\ ~At("idle")
  BY DEF Open, Opens, At
<1>2. PICK s \in Streams : server' = [server EXCEPT ![s] = Opened] /\ Connected(s, "CONNECTED")
  BY DEF Open
<1>3. pool' = [pool EXCEPT ![own].active = @ + 1] /\ own \in Creds
  BY <1>1, SelfTypes DEF Open
<1>4. pool[own].active + 1 \in Int
  BY <1>3, TypeParts DEF Typed, PoolType
<1>5. PoolType' /\ ServerType' /\ RestType'
  BY <1>2, <1>3, <1>4, StaysRest, TypeParts, RecordTypes DEF Typed, PoolType, ServerType, Open
<1>. QED
  BY <1>1, <1>2, <1>5, ConnectedTyped

LEMMA OpenFailsTyped ==
  ASSUME Typed, OpenFails
  PROVE  Typed'
<1>1. (At("connect") \/ At("open")) /\ ~At("idle")
  BY DEF OpenFails, Opens, At
<1>2. self \in Objects /\ Underway /\ call \in CallRecs
  BY <1>1, SelfTypes, TypeParts DEF Typed, CallType
<1>3. call.via \in {"pconnect", "open", "eof", "reconnect"}
  BY <1>2 DEF Underway, CallRecs
<1>4. CASE call.via = "pconnect"
  <2>1. sock' = [sock EXCEPT ![self] = NoSock] /\ call' = NoCall /\ UNCHANGED <<pool, server>> /\ Stays
    BY <1>4 DEF OpenFails, Becomes, Returns
  <2>. QED BY <1>2, <2>1, NetKept, StaysRest, RecordTypes, EndsTyped DEF Typed
<1>5. CASE call.via = "open"
  <2>1. call' = NoCall /\ UNCHANGED <<sock, pool, server>> /\ Stays
    BY <1>5 DEF OpenFails, Returns
  <2>. QED BY <2>1, NetKept, StaysRest, EndsKept DEF Typed
<1>6. CASE call.via = "eof" /\ ~GivesUp
  <2>1. call' = [call EXCEPT !.pc = "connect"] /\ UNCHANGED <<sock, pool, server>> /\ Stays
    BY <1>6 DEF OpenFails, GoTo
  <2>2. sock[self] \in Socks /\ StatusSays(sock[self]) /\ sock' = [sock EXCEPT ![self] = sock[self]]
    BY <1>2, <2>1, TypeParts DEF Typed, SockType, Shape
  <2>3. CallType' /\ call'.pc = "connect"
    BY <1>2, <2>1 DEF CallType, CallRecs
  <2>4. stream = None
    BY <1>1, <1>2 DEF Underway, At
  <2>5. Underway'
    BY <1>2, <2>1, <2>3, <2>4 DEF Underway, CallRecs, self, mine, stream
  <2>. QED BY <1>2, <2>1, <2>2, <2>3, <2>5, NetKept, StaysRest, GoesTyped DEF Typed
<1>7. CASE GivesUp
  BY <1>1, <1>7, GivesUpTyped
<1>8. CASE call.via = "reconnect"
  BY <1>1, <1>8, GivesUpTyped DEF OpenFails
<1>. QED BY <1>3, <1>4, <1>5, <1>6, <1>7, <1>8

LEMMA WritesAfterConnect ==
  ASSUME Typed, Writes
  PROVE  ~(At("idle") \/ At("connect") \/ At("open")) /\ self \in Objects /\ mine \in Socks
         /\ stream \in Streams /\ Underway /\ call \in CallRecs
<1>1. ~(At("idle") \/ At("connect") \/ At("open"))
  BY DEF Writes, At
<1>. QED BY <1>1, SelfTypes, TypeParts DEF Typed, CallType

LEMMA FindsEofTyped ==
  ASSUME Typed, FindsEof
  PROVE  Typed'
<1>1. /\ ~(At("idle") \/ At("connect") \/ At("open")) /\ self \in Objects /\ mine \in Socks
      /\ stream \in Streams /\ Underway /\ call \in CallRecs
  BY WritesAfterConnect DEF FindsEof
<1>2. CASE GivesUp
  BY <1>1, <1>2, GivesUpTyped
<1>3. CASE ~GivesUp
  <2> DEFINE k == Without(mine, FALSE)
             r == IF call.via = "eof" THEN call.resume ELSE call.pc
  <2>1. /\ call.via # "reconnect" /\ Disconnects(self, TRUE) /\ sock' = [sock EXCEPT ![self] = k] /\ Stays
        /\ call' = [call EXCEPT !.pc = "connect", !.via = "eof",
                                !.resume = IF call.via = "eof" THEN @ ELSE call.pc]
    BY <1>3 DEF FindsEof, Becomes
  <2>2. PoolType' /\ ServerType' /\ RestType'
    BY <1>1, <2>1, DisconnectsTypes, StaysRest DEF Typed
  <2>3. k \in Socks /\ StatusSays(k) /\ k.stream = None /\ k.mode = mine.mode
    BY <1>1, WithoutTypes DEF Without, Socks
  <2> HIDE DEF k
  <2>4. sock'[self] = k
    BY <1>1, <2>1, TypeParts DEF Typed, SockType
  <2>5. call.pc \in {"auth", "select", "run"}
    BY <1>1 DEF CallRecs, At
  <2>6. call.resume # "none" \/ call.via # "eof"
    BY <1>1 DEF Underway
  <2>7. call'.pc = "connect" /\ call'.via = "eof" /\ call'.resume \in {"auth", "select", "run"} /\ CallType'
        /\ call'.o = call.o /\ call'.m = call.m /\ call'.arg = call.arg
    BY <1>1, <2>1, <2>5, <2>6 DEF CallType, CallRecs
  <2>8. call.via # "pconnect"
    BY <1>1, <2>5 DEF Underway
  <2>9. Underway'
    BY <1>1, <2>1, <2>3, <2>4, <2>7, <2>8 DEF Underway, self, mine, stream
  <2>. QED BY <1>1, <2>1, <2>2, <2>3, <2>7, <2>9, GoesTyped
<1>. QED BY <1>2, <1>3

LEMMA ReadFailsTyped ==
  ASSUME Typed, ReadFails
  PROVE  Typed'
<1>1. ~At("idle") /\ self \in Objects /\ mine \in Socks
  BY WritesAfterConnect DEF ReadFails
<1>2. PoolType' /\ ServerType' /\ RestType' /\ call' = NoCall
  BY <1>1, DisconnectsTypes, StaysRest DEF ReadFails, Typed, Returns
<1>3. \E k \in Socks : StatusSays(k) /\ sock' = [sock EXCEPT ![self] = k]
  BY <1>1, WithoutTypes DEF ReadFails, Becomes
<1>. QED BY <1>1, <1>2, <1>3, EndsTyped

\* The step of an exchange that ends the call, with the RedisSock k.
LEMMA ExchangeEndsTyped ==
  ASSUME Typed, Exchange(server[stream]) \/ \E d \in Servers : Exchange(d),
         NEW k \in Socks, StatusSays(k), sock' = [sock EXCEPT ![self] = k], call' = NoCall
  PROVE  Typed'
<1>1. Writes
  BY DEF Exchange
<1>2. self \in Objects /\ stream \in Streams
  BY <1>1, WritesAfterConnect
<1>3. server[stream] \in Servers
  BY <1>2, TypeParts DEF Typed, ServerType
<1>4. PoolType' /\ ServerType' /\ RestType'
  BY <1>2, <1>3, ExchangeTypes DEF Typed
<1>. QED BY <1>2, <1>4, EndsTyped

LEMMA ExchangeKeepsTyped ==
  ASSUME Typed, NEW d \in Servers, Exchange(d), UNCHANGED sock, call' = NoCall
  PROVE  Typed'
<1>1. stream \in Streams
  BY WritesAfterConnect DEF Exchange
<1>2. PoolType' /\ ServerType' /\ RestType'
  BY <1>1, ExchangeTypes DEF Typed
<1>. QED BY <1>2, EndsKept

LEMMA RefusedTyped ==
  ASSUME Typed, NEW d \in Servers, Refused(d), UNCHANGED sock, call' = NoCall
  PROVE  Typed'
<1>1. Writes
  BY DEF Refused, Exchange
<1>2. server[stream] \in Servers
  BY <1>1, WritesAfterConnect, TypeParts DEF Typed, ServerType
<1>. QED BY <1>2, ExchangeKeepsTyped DEF Refused

\* A step of the handshake goes on with the RedisSock k.
LEMMA AuthTyped ==
  ASSUME Typed, Auth
  PROVE  Typed'
<1> DEFINE k == [mine EXCEPT !.status = "AUTHENTICATED"]
<1>1. At("auth") /\ ~(At("idle") \/ At("connect") \/ At("open"))
  BY DEF Auth, At
<1>2. /\ self \in Objects /\ mine \in Socks /\ stream \in Streams /\ Underway /\ call \in CallRecs
      /\ Authed \in Servers
  BY <1>1, SelfTypes, DoneTypes, TypeParts DEF Typed, CallType
<1>3. PoolType' /\ ServerType' /\ RestType'
  BY <1>2, ExchangeTypes, NetKept, StaysRest DEF Auth, Typed
<1>4. sock' = [sock EXCEPT ![self] = k] /\ call' = [call EXCEPT !.pc = "select"]
  BY DEF Auth, Authenticated, Becomes, GoTo
<1>5. k \in Socks /\ StatusSays(k) /\ k.stream = stream /\ k.status = "AUTHENTICATED" /\ k.mode = mine.mode
  BY <1>2, NoneAssumption DEF Socks, Statuses, StatusSays, stream
<1> HIDE DEF k
<1>6. sock'[self] = k
  BY <1>2, <1>4, TypeParts DEF Typed, SockType
<1>7. CallType' /\ call'.pc = "select"
  BY <1>2, <1>4 DEF CallType, CallRecs
<1>8. Underway'
  BY <1>1, <1>2, <1>4, <1>5, <1>6, <1>7, NoneAssumption DEF Underway, CallRecs, self, mine, stream, At
<1>. QED BY <1>2, <1>3, <1>4, <1>5, <1>7, <1>8, GoesTyped

LEMMA SelectTyped ==
  ASSUME Typed, Select
  PROVE  Typed'
<1> DEFINE k == [mine EXCEPT !.status = "READY"]
<1>1. At("select") /\ ~(At("idle") \/ At("connect") \/ At("open"))
  BY DEF Select, At
<1>2. /\ self \in Objects /\ mine \in Socks /\ stream \in Streams /\ Underway /\ call \in CallRecs
      /\ Selected \in Servers
  BY <1>1, SelfTypes, DoneTypes, TypeParts DEF Typed, CallType
<1>3. PoolType' /\ ServerType' /\ RestType'
  BY <1>2, ExchangeTypes, NetKept, StaysRest DEF Select, Typed
<1>4. sock' = [sock EXCEPT ![self] = k]
  BY DEF Select, Ready, Becomes
<1>5. k \in Socks /\ StatusSays(k) /\ k.stream = stream /\ k.status = "READY" /\ k.mode = mine.mode
  BY <1>2, NoneAssumption DEF Socks, Statuses, StatusSays, stream
<1> HIDE DEF k
<1>6. sock'[self] = k
  BY <1>2, <1>4, TypeParts DEF Typed, SockType
<1>7. call.via \in {"open", "eof", "reconnect"}
  BY <1>1, <1>2 DEF Underway, CallRecs, At
<1>8. CASE call.via = "open"
  <2>1. call' = [call EXCEPT !.pc = "run"]
    BY <1>8 DEF Select, Ready, GoTo
  <2>2. CallType' /\ call'.pc = "run"
    BY <1>2, <2>1 DEF CallType, CallRecs
  <2>3. Underway'
    BY <1>1, <1>2, <1>5, <1>6, <1>8, <2>1, <2>2, NoneAssumption DEF Underway, CallRecs, self, mine, stream, At
  <2>. QED BY <1>2, <1>3, <1>4, <1>5, <2>2, <2>3, GoesTyped
<1>9. CASE call.via = "eof"
  <2>1. call' = [call EXCEPT !.pc = call.resume, !.via = "open", !.resume = "none"]
    BY <1>9 DEF Select, Ready
  <2>2. call.resume \in {"auth", "select", "run"}
    BY <1>2, <1>9 DEF Underway, CallRecs
  <2>3. /\ CallType' /\ call'.pc \in {"auth", "select", "run"} /\ call'.o = call.o /\ call'.m = call.m
        /\ call'.arg = call.arg /\ call'.via = "open" /\ call'.resume = "none"
    BY <1>2, <2>1, <2>2 DEF CallType, CallRecs
  <2>4. Underway'
    BY <1>1, <1>2, <1>5, <1>6, <1>9, <2>3, NoneAssumption DEF Underway, self, mine, stream, At
  <2>. QED BY <1>2, <1>3, <1>4, <1>5, <2>3, <2>4, GoesTyped
<1>10. CASE call.via = "reconnect"
  <2>1. call' = NoCall
    BY <1>10 DEF Select, Ready, Returns
  <2>. QED BY <1>2, <1>3, <1>4, <1>5, <2>1, EndsTyped
<1>. QED BY <1>7, <1>8, <1>9, <1>10

LEMMA HandshakeRefusedTyped ==
  ASSUME Typed, HandshakeRefused
  PROVE  Typed'
<1>1. ~(At("idle") \/ At("connect") \/ At("open"))
  BY DEF HandshakeRefused, At
<1>2. CASE call.via = "open"
  <2>1. Authed \in Servers /\ Selected \in Servers
    BY <1>1, DoneTypes
  <2>2. UNCHANGED sock /\ call' = NoCall /\ \E d \in Servers : Refused(d)
    BY <1>2, <2>1 DEF HandshakeRefused, Returns
  <2>. QED BY <2>2, RefusedTyped
<1>3. CASE call.via # "open"
  BY <1>1, <1>3, GivesUpTyped DEF HandshakeRefused
<1>. QED BY <1>2, <1>3

\* The methods, all of which run with a RedisSock that is ready.
LEMMA RunningTypes ==
  ASSUME Typed, At("run")
  PROVE  /\ ~(At("idle") \/ At("connect") \/ At("open"))
         /\ self \in Objects /\ mine \in Socks /\ stream \in Streams /\ Underway /\ call \in CallRecs
         /\ server[stream] \in Servers /\ StatusSays(mine) /\ sock[self] = mine
<1>1. ~(At("idle") \/ At("connect") \/ At("open"))
  BY DEF At
<1>. QED BY <1>1, SelfTypes, DoneTypes, TypeParts DEF Typed, CallType, Shape, mine

LEMMA RunsTyped ==
  ASSUME Typed, Runs
  PROVE  Typed'
<1>1. At("run")
  BY DEF Runs, Command, CommandStopsShort, SelectDb, StoreAuth, SendAuth, Watch, Multi, Pipeline, Exec, Close,
         Running
<1>2. /\ ~(At("idle") \/ At("connect") \/ At("open"))
      /\ self \in Objects /\ mine \in Socks /\ stream \in Streams /\ Underway /\ call \in CallRecs
      /\ server[stream] \in Servers /\ StatusSays(mine)
  BY <1>1, RunningTypes
<1>3. CASE Command
  <2>1. UNCHANGED sock /\ call' = NoCall
    BY <1>3 DEF Command, Returns
  <2>2. CASE Writes
    BY <1>2, <1>3, <2>1, <2>2, ExchangeKeepsTyped DEF Command
  <2>3. CASE ~Writes
    BY <1>3, <2>1, <2>3, EndsKept, NetKept, StaysRest DEF Command, Typed
  <2>. QED BY <2>2, <2>3
<1>4. CASE CommandStopsShort
  <2>1. /\ server' = [server EXCEPT ![stream].left = "own", ![stream].where = "late"]
        /\ call' = NoCall /\ UNCHANGED <<sock, pool>> /\ Stays
    BY <1>4 DEF CommandStopsShort, Returns
  <2>2. server' = [server EXCEPT ![stream] = [server[stream] EXCEPT !.left = "own", !.where = "late"]]
    BY <1>2, <2>1, TypeParts DEF Typed, ServerType, Servers
  <2>3. [server[stream] EXCEPT !.left = "own", !.where = "late"] \in Servers
    BY <1>2 DEF Servers
  <2>4. ServerType' /\ PoolType'
    BY <1>2, <2>1, <2>2, <2>3, TypeParts DEF Typed, ServerType, PoolType
  <2>. QED BY <2>1, <2>4, StaysRest, EndsKept DEF Typed
<1>5. CASE SelectDb
  <2> DEFINE k == [mine EXCEPT !.db = call.arg]
             d == [server[stream] EXCEPT !.db = call.arg]
  <2>1. d \in Servers /\ call.arg \in AllDbs /\ call' = NoCall
    BY <1>2, <1>5, DoneTypes DEF SelectDb, Running, Returns, Underway
  <2>2. k \in Socks /\ StatusSays(k)
    BY <1>2, <2>1 DEF Socks, StatusSays
  <2>3. (Exchange(d) /\ sock' = [sock EXCEPT ![self] = k]) \/ (Refused(d) /\ UNCHANGED sock)
    BY <1>5 DEF SelectDb, Becomes
  <2> HIDE DEF k, d
  <2>. QED BY <1>2, <2>1, <2>2, <2>3, ExchangeEndsTyped, RefusedTyped
<1>6. CASE StoreAuth
  <2> DEFINE k == [mine EXCEPT !.auth = call.arg]
  <2>1. call.arg \in Creds
    BY <1>2, <1>6 DEF StoreAuth, Running, Underway, Creds
  <2>2. k \in Socks /\ StatusSays(k) /\ k.stream = stream /\ k.status = mine.status /\ k.mode = mine.mode
    BY <1>2, <2>1 DEF Socks, StatusSays, stream
  <2>3. sock' = [sock EXCEPT ![self] = k] /\ UNCHANGED <<ini, pool, server, call, torn>>
    BY <1>6 DEF StoreAuth, Becomes
  <2>4. rekeys' \in 0..MaxRekeys
    BY <1>6, TypeParts, BoundAssumption DEF StoreAuth, Typed, RestType
  <2>5. RestType' /\ PoolType' /\ ServerType' /\ CallType'
    BY <2>3, <2>4, TypeParts DEF Typed, RestType, PoolType, ServerType, CallType
  <2> HIDE DEF k
  <2>6. sock'[self] = k
    BY <1>2, <2>3, TypeParts DEF Typed, SockType
  <2>7. Underway' /\ call'.pc # "idle"
    BY <1>1, <1>2, <2>2, <2>3, <2>6 DEF Underway, self, mine, stream, At
  <2>. QED BY <1>2, <2>2, <2>3, <2>5, <2>7, GoesTyped
<1>7. CASE SendAuth
  <2>1. UNCHANGED sock /\ call' = NoCall /\ \E d \in Servers : Exchange(d)
    BY <1>2, <1>7, DoneTypes DEF SendAuth, Returns
  <2>. QED BY <2>1, ExchangeKeepsTyped
<1>8. CASE Watch
  <2> DEFINE k == [mine EXCEPT !.watching = TRUE]
             d == [server[stream] EXCEPT !.watch = TRUE]
  <2>1. d \in Servers /\ call' = NoCall
    BY <1>2, <1>8, DoneTypes DEF Watch, Returns
  <2>2. k \in Socks /\ StatusSays(k)
    BY <1>2 DEF Socks, StatusSays
  <2>3. (Exchange(d) /\ sock' = [sock EXCEPT ![self] = k]) \/ (Refused(d) /\ UNCHANGED sock)
    BY <1>8 DEF Watch, Becomes
  <2> HIDE DEF k, d
  <2>. QED BY <1>2, <2>1, <2>2, <2>3, ExchangeEndsTyped, RefusedTyped
<1>9. CASE Multi
  <2> DEFINE k == [mine EXCEPT !.mode = "MULTI"]
             d == [server[stream] EXCEPT !.tx = TRUE]
  <2>1. d \in Servers /\ call' = NoCall
    BY <1>2, <1>9, DoneTypes DEF Multi, Returns
  <2>2. k \in Socks /\ StatusSays(k)
    BY <1>2 DEF Socks, StatusSays
  <2>3. (Exchange(d) /\ sock' = [sock EXCEPT ![self] = k]) \/ (Refused(d) /\ UNCHANGED sock)
    BY <1>9 DEF Multi, Becomes
  <2> HIDE DEF k, d
  <2>. QED BY <1>2, <2>1, <2>2, <2>3, ExchangeEndsTyped, RefusedTyped
<1>10. CASE Pipeline
  <2> DEFINE k == [mine EXCEPT !.mode = "PIPELINE"]
  <2>1. k \in Socks /\ StatusSays(k)
    BY <1>2 DEF Socks, StatusSays
  <2>2. sock' = [sock EXCEPT ![self] = k] /\ call' = NoCall /\ UNCHANGED <<pool, server>> /\ Stays
    BY <1>10 DEF Pipeline, Becomes, Returns
  <2>. QED BY <1>2, <2>1, <2>2, NetKept, StaysRest, EndsTyped DEF Typed
<1>11. CASE Exec
  <2> DEFINE k == [mine EXCEPT !.mode = "ATOMIC", !.watching = IF mine.mode = "MULTI" THEN FALSE ELSE @]
             d == IF mine.mode = "MULTI" THEN [server[stream] EXCEPT !.tx = FALSE, !.watch = FALSE] ELSE server[stream]
  <2>1. d \in Servers
    BY <1>2, DoneTypes
  <2>2. k \in Socks /\ StatusSays(k)
    BY <1>2 DEF Socks, StatusSays
  <2>3. Exchange(d) /\ sock' = [sock EXCEPT ![self] = k] /\ call' = NoCall
    BY <1>11 DEF Exec, Becomes, Returns
  <2> HIDE DEF k, d
  <2>. QED BY <2>1, <2>2, <2>3, ExchangeEndsTyped
<1>12. CASE Close
  <2>1. /\ Disconnects(self, TRUE) /\ sock' = [sock EXCEPT ![self] = Without(mine, TRUE)]
        /\ call' = NoCall /\ Stays
    BY <1>12 DEF Close, Becomes, Returns
  <2>2. PoolType' /\ ServerType' /\ RestType'
    BY <1>2, <2>1, DisconnectsTypes, StaysRest DEF Typed
  <2>. QED BY <1>2, <2>1, <2>2, WithoutTypes, EndsTyped
<1>. QED BY <1>3, <1>4, <1>5, <1>6, <1>7, <1>8, <1>9, <1>10, <1>11, <1>12 DEF Runs

LEMMA NetTyped ==
  ASSUME Typed, NEW s \in Streams, ServerCloses(s) \/ LateReplyArrives(s)
  PROVE  Typed'
<1>1. [Closed EXCEPT !.open = TRUE] \in Servers /\ [server[s] EXCEPT !.where = "socket"] \in Servers
  BY RecordTypes, TypeParts DEF Servers, Typed, ServerType
<1>2. UNCHANGED <<sock, pool, call>> /\ Stays /\ \E d \in Servers : server' = [server EXCEPT ![s] = d]
  BY <1>1, TypeParts DEF ServerCloses, LateReplyArrives, Typed, ServerType
<1>3. PoolType' /\ ServerType' /\ RestType'
  BY <1>2, StaysRest, TypeParts DEF Typed, PoolType, ServerType
<1>. QED BY <1>2, <1>3, StaysTyped

LEMMA StutterTyped ==
  ASSUME Typed, UNCHANGED vars
  PROVE  Typed'
BY NetKept, StaysTyped, TypeParts DEF vars, Typed, RestType

LEMMA InitTyped == Init => Typed
<1> SUFFICES ASSUME Init PROVE Typed
  OBVIOUS
<1>1. SockType /\ ServerType /\ CallType
  BY RecordTypes DEF Init, SockType, ServerType, CallType
<1>2. PoolType
  <2>1. [idle |-> <<>>, active |-> 0] \in [idle : Seq(Streams), active : Int]
    OBVIOUS
  <2>. QED BY <2>1 DEF Init, PoolType
<1>3. RestType
  BY BoundAssumption DEF Init, RestType
<1>4. Shape
  BY RecordTypes DEF Init, Shape, At, NoCall
<1>. QED BY <1>1, <1>2, <1>3, <1>4, TypeParts DEF Typed

LEMMA NextTyped == Typed /\ [Next]_vars => Typed'
<1> SUFFICES ASSUME Typed, [Next]_vars PROVE Typed'
  OBVIOUS
<1>1. ASSUME NEW o \in Objects, Destroy(o) \/ Reconnect(o) \/ Method(o) \/ \E a \in Creds : Pconnect(o, a)
      PROVE  Typed'
  BY <1>1, DestroyTyped, ReconnectTyped, MethodTyped, PconnectTyped
<1>2. CASE Connecting
  BY <1>2, BorrowTyped, BorrowFailsTyped, OpenTyped, OpenFailsTyped DEF Connecting
<1>3. CASE Handshake
  BY <1>3, AuthTyped, SelectTyped, HandshakeRefusedTyped DEF Handshake
<1>4. CASE FindsEof \/ ReadFails
  BY <1>4, FindsEofTyped, ReadFailsTyped
<1>5. CASE Runs
  BY <1>5, RunsTyped
<1>6. ASSUME NEW s \in Streams, ServerCloses(s) \/ LateReplyArrives(s)
      PROVE  Typed'
  BY <1>6, NetTyped
<1>7. CASE UNCHANGED vars
  BY <1>7, StutterTyped
<1>. QED BY <1>1, <1>2, <1>3, <1>4, <1>5, <1>6, <1>7 DEF Next

LEMMA AlwaysTyped == Spec => []Typed
BY InitTyped, NextTyped, PTL DEF Spec

\* The objects, the pools, the streams and the call under way have their types in every reachable
\* state, however many there are (RedisSock of common.h, ConnectionPool, redis_sock_get).
THEOREM TypeCorrect == Spec => []TypeOK
<1>1. Typed => TypeOK
  BY DEF Typed, Types, TypeOK, SockType, PoolType, ServerType, CallType, RestType, Socks, Servers, CallRecs,
         Methods, MethodNames, Statuses
<1>. QED BY <1>1, AlwaysTyped, PTL

-----------------------------------------------------------------------------
(* Owners. *)

\* A stream is with an object, or in a pool.
Held(s)   == \E o \in Objects : sock[o].stream = s
Pooled(s) == \E a \in Creds : \E i \in 1..Len(pool[a].idle) : pool[a].idle[i] = s

\* Each stream that is open is with one object or at one place of one pool, the others nowhere.
OneHolder == \A o, u \in Objects : sock[o].stream # None /\ sock[o].stream = sock[u].stream => o = u
OnePlace  == \A a, b \in Creds : \A i \in 1..Len(pool[a].idle), j \in 1..Len(pool[b].idle) :
               pool[a].idle[i] = pool[b].idle[j] => a = b /\ i = j
NotBoth   == \A o \in Objects, a \in Creds : \A i \in 1..Len(pool[a].idle) : sock[o].stream # pool[a].idle[i]
SomeOwner == \A s \in Streams : server[s].open <=> Held(s) \/ Pooled(s)
Owners == OneHolder /\ OnePlace /\ NotBoth /\ SomeOwner

\* Steps that move no stream, those that take one from an object, and the three of
\* redis_sock_connect_impl that move one.
SameOwners ==
  /\ UNCHANGED <<ini, pool>>
  /\ \A o \in Objects : sock'[o].stream = sock[o].stream
  /\ \A s \in Streams : server'[s].open = server[s].open
  /\ rekeys' = 0 => /\ rekeys = 0
                    /\ \A o \in Objects : sock[o].stream # None => PoolOf(sock[o])' = PoolOf(sock[o])

TakenFrom(o, force) ==
  /\ Disconnects(o, force)
  /\ \E k \in Socks : k.stream = None /\ sock' = [sock EXCEPT ![o] = k]
  /\ UNCHANGED <<ini, rekeys>>

Kind == SameOwners \/ (\E o \in Objects, force \in BOOLEAN : TakenFrom(o, force)) \/ Borrow \/ BorrowFails \/ Open

LEMMA GivesUpKind ==
  ASSUME Typed, ~At("idle"), GivesUp
  PROVE  Kind
<1>1. self \in Objects /\ FailedSock(mine) \in Socks /\ FailedSock(mine).stream = None
  BY SelfTypes, WithoutTypes
<1>2. TakenFrom(self, TRUE)
  BY <1>1 DEF GivesUp, TakenFrom, Becomes, Stays
<1>. QED BY <1>1, <1>2 DEF Kind

\* A step that moves no stream may change the rest of one RedisSock.
LEMMA SameSocks ==
  ASSUME Typed, NEW o \in Objects, NEW k \in Socks, k.stream = sock[o].stream,
         k.stream = None \/ k.auth = sock[o].auth,
         sock' = [sock EXCEPT ![o] = k], UNCHANGED <<ini, pool, rekeys>>,
         \A s \in Streams : server'[s].open = server[s].open
  PROVE  SameOwners
<1>1. sock \in [Objects -> Socks]
  BY TypeParts DEF Typed, SockType
<1>2. \A u \in Objects : sock'[u].stream = sock[u].stream
  BY <1>1
<1>3. \A u \in Objects : sock[u].stream # None => sock'[u].auth = sock[u].auth
  BY <1>1
<1>. QED BY <1>2, <1>3 DEF SameOwners, PoolOf

LEMMA NoneChanged ==
  ASSUME UNCHANGED <<sock, ini, pool, rekeys>>, \A s \in Streams : server'[s].open = server[s].open
  PROVE  SameOwners
BY DEF SameOwners, PoolOf

\* An exchange opens and closes nothing.
LEMMA ExchangeOpens ==
  ASSUME Typed, NEW done \in Servers, Exchange(done), done.open = server[stream].open
  PROVE  UNCHANGED <<ini, pool, rekeys>> /\ \A s \in Streams : server'[s].open = server[s].open
<1>1. server \in [Streams -> Servers]
  BY TypeParts DEF Typed, ServerType
<1>2. UNCHANGED <<ini, pool, rekeys>>
  BY DEF Exchange
<1>3. PICK d \in Servers : server' = [server EXCEPT ![stream] = d] /\ d.open = done.open
  <2>1. \A w \in {"socket", "buffer"} :
          LET d == [done EXCEPT !.left = "own", !.where = w, !.astray = TRUE]
          IN  d \in Servers /\ d.open = done.open
    BY DEF Servers
  <2>. QED BY <2>1 DEF Exchange
<1>. QED BY <1>1, <1>2, <1>3

LEMMA RefusedOpens ==
  ASSUME Typed, NEW done \in Servers, Refused(done), done.open = server[stream].open
  PROVE  UNCHANGED <<ini, pool, rekeys>> /\ \A s \in Streams : server'[s].open = server[s].open
<1>1. server[stream] \in Servers
  BY WritesAfterConnect, TypeParts DEF Typed, ServerType, Refused, Exchange
<1>. QED BY <1>1, ExchangeOpens DEF Refused

LEMMA DoneOpen ==
  ASSUME Typed, ~(At("idle") \/ At("connect") \/ At("open"))
  PROVE  /\ Authed.open = server[stream].open /\ Selected.open = server[stream].open
         /\ \A x : [server[stream] EXCEPT !.db = x].open = server[stream].open
         /\ [server[stream] EXCEPT !.watch = TRUE].open = server[stream].open
         /\ [server[stream] EXCEPT !.tx = TRUE].open = server[stream].open
         /\ [server[stream] EXCEPT !.tx = FALSE, !.watch = FALSE].open = server[stream].open
         /\ [server[stream] EXCEPT !.astray = TRUE].open = server[stream].open
<1>1. server[stream] \in Servers
  BY DoneTypes
<1>. QED BY <1>1 DEF Servers, Authed, Selected

LEMMA HandshakeKind ==
  ASSUME Typed, Handshake
  PROVE  Kind
<1>1. ~(At("idle") \/ At("connect") \/ At("open"))
  BY DEF Handshake, Auth, Select, HandshakeRefused, At
<1>2. /\ self \in Objects /\ mine \in Socks /\ mine = sock[self]
      /\ Authed \in Servers /\ Selected \in Servers
      /\ Authed.open = server[stream].open /\ Selected.open = server[stream].open
  BY <1>1, SelfTypes, DoneTypes, DoneOpen DEF mine
<1>3. CASE Auth
  <2> DEFINE k == [mine EXCEPT !.status = "AUTHENTICATED"]
  <2>1. sock' = [sock EXCEPT ![self] = k]
    BY <1>3 DEF Auth, Authenticated, Becomes
  <2>2. k \in Socks /\ k.stream = sock[self].stream /\ k.auth = sock[self].auth
    BY <1>2 DEF Socks, Statuses
  <2>3. UNCHANGED <<ini, pool, rekeys>> /\ \A s \in Streams : server'[s].open = server[s].open
    BY <1>2, <1>3, ExchangeOpens DEF Auth, Stays
  <2> HIDE DEF k
  <2>. QED BY <1>2, <2>1, <2>2, <2>3, SameSocks DEF Kind
<1>4. CASE Select
  <2> DEFINE k == [mine EXCEPT !.status = "READY"]
  <2>1. sock' = [sock EXCEPT ![self] = k]
    BY <1>4 DEF Select, Ready, Becomes
  <2>2. k \in Socks /\ k.stream = sock[self].stream /\ k.auth = sock[self].auth
    BY <1>2 DEF Socks, Statuses
  <2>3. UNCHANGED <<ini, pool, rekeys>> /\ \A s \in Streams : server'[s].open = server[s].open
    BY <1>2, <1>4, ExchangeOpens DEF Select, Stays
  <2> HIDE DEF k
  <2>. QED BY <1>2, <2>1, <2>2, <2>3, SameSocks DEF Kind
<1>5. CASE HandshakeRefused /\ call.via = "open"
  BY <1>2, <1>5, RefusedOpens, NoneChanged DEF HandshakeRefused, Kind
<1>6. CASE HandshakeRefused /\ call.via # "open"
  BY <1>1, <1>6, GivesUpKind DEF HandshakeRefused
<1>. QED BY <1>3, <1>4, <1>5, <1>6 DEF Handshake

LEMMA RunsKind ==
  ASSUME Typed, Runs
  PROVE  Kind
<1>1. At("run")
  BY DEF Runs, Command, CommandStopsShort, SelectDb, StoreAuth, SendAuth, Watch, Multi, Pipeline, Exec, Close,
         Running
<1>2. /\ ~(At("idle") \/ At("connect") \/ At("open"))
      /\ self \in Objects /\ mine \in Socks /\ mine = sock[self] /\ stream \in Streams
      /\ server[stream] \in Servers /\ server \in [Streams -> Servers] /\ Underway
  BY <1>1, RunningTypes, TypeParts DEF Typed, ServerType
<1>3. CASE Command
  <2>1. UNCHANGED <<sock, ini, pool, rekeys>> /\ \A s \in Streams : server'[s].open = server[s].open
    BY <1>2, <1>3, ExchangeOpens DEF Command, Stays
  <2>. QED BY <2>1, NoneChanged DEF Kind
<1>4. CASE CommandStopsShort
  <2>1. UNCHANGED <<sock, ini, pool, rekeys>>
    BY <1>4 DEF CommandStopsShort, Stays
  <2>2. \A s \in Streams : server'[s].open = server[s].open
    BY <1>2, <1>4 DEF CommandStopsShort, Servers
  <2>. QED BY <2>1, <2>2, NoneChanged DEF Kind
<1>5. CASE SelectDb
  <2> DEFINE k == [mine EXCEPT !.db = call.arg]
             d == [server[stream] EXCEPT !.db = call.arg]
  <2>1. d \in Servers /\ d.open = server[stream].open /\ call.arg \in AllDbs
    BY <1>2, <1>5, DoneTypes, DoneOpen DEF SelectDb, Running, Underway
  <2>2. k \in Socks /\ k.stream = sock[self].stream /\ k.auth = sock[self].auth
    BY <1>2, <2>1 DEF Socks
  <2>3. (Exchange(d) /\ sock' = [sock EXCEPT ![self] = k]) \/ (Refused(d) /\ UNCHANGED sock)
    BY <1>5 DEF SelectDb, Becomes
  <2> HIDE DEF k, d
  <2>. QED BY <1>2, <2>1, <2>2, <2>3, ExchangeOpens, RefusedOpens, SameSocks, NoneChanged DEF Kind
<1>6. CASE StoreAuth
  <2> DEFINE k == [mine EXCEPT !.auth = call.arg]
  <2>1. /\ sock' = [sock EXCEPT ![self] = k] /\ UNCHANGED <<ini, pool, server>>
        /\ rekeys' = IF ini.byAuth THEN rekeys + 1 ELSE rekeys
    BY <1>6 DEF StoreAuth, Becomes
  <2>2. sock \in [Objects -> Socks] /\ rekeys \in Nat /\ k.stream = sock[self].stream
    BY <1>2, TypeParts, BoundAssumption DEF Typed, SockType, RestType, Socks
  <2> HIDE DEF k
  <2>3. \A o \in Objects : sock'[o].stream = sock[o].stream
    BY <1>2, <2>1, <2>2
  <2>4. rekeys' = 0 => rekeys = 0 /\ ~ini.byAuth
    BY <2>1, <2>2
  <2>5. rekeys' = 0 => \A o \in Objects : PoolOf(sock[o])' = PoolOf(sock[o])
    BY <2>1, <2>4 DEF PoolOf
  <2>6. SameOwners
    BY <2>1, <2>3, <2>4, <2>5 DEF SameOwners
  <2>. QED BY <2>6 DEF Kind
<1>7. CASE SendAuth
  <2>1. UNCHANGED <<sock, ini, pool, rekeys>> /\ \A s \in Streams : server'[s].open = server[s].open
    BY <1>2, <1>7, ExchangeOpens, DoneTypes, DoneOpen DEF SendAuth
  <2>. QED BY <2>1, NoneChanged DEF Kind
<1>8. CASE Watch
  <2> DEFINE k == [mine EXCEPT !.watching = TRUE]
             d == [server[stream] EXCEPT !.watch = TRUE]
  <2>1. d \in Servers /\ d.open = server[stream].open
    BY <1>2, DoneTypes, DoneOpen
  <2>2. k \in Socks /\ k.stream = sock[self].stream /\ k.auth = sock[self].auth
    BY <1>2 DEF Socks
  <2>3. (Exchange(d) /\ sock' = [sock EXCEPT ![self] = k]) \/ (Refused(d) /\ UNCHANGED sock)
    BY <1>8 DEF Watch, Becomes
  <2> HIDE DEF k, d
  <2>. QED BY <1>2, <2>1, <2>2, <2>3, ExchangeOpens, RefusedOpens, SameSocks, NoneChanged DEF Kind
<1>9. CASE Multi
  <2> DEFINE k == [mine EXCEPT !.mode = "MULTI"]
             d == [server[stream] EXCEPT !.tx = TRUE]
  <2>1. d \in Servers /\ d.open = server[stream].open
    BY <1>2, DoneTypes, DoneOpen
  <2>2. k \in Socks /\ k.stream = sock[self].stream /\ k.auth = sock[self].auth
    BY <1>2 DEF Socks
  <2>3. (Exchange(d) /\ sock' = [sock EXCEPT ![self] = k]) \/ (Refused(d) /\ UNCHANGED sock)
    BY <1>9 DEF Multi, Becomes
  <2> HIDE DEF k, d
  <2>. QED BY <1>2, <2>1, <2>2, <2>3, ExchangeOpens, RefusedOpens, SameSocks, NoneChanged DEF Kind
<1>10. CASE Pipeline
  <2> DEFINE k == [mine EXCEPT !.mode = "PIPELINE"]
  <2>1. k \in Socks /\ k.stream = sock[self].stream /\ k.auth = sock[self].auth
    BY <1>2 DEF Socks
  <2>2. sock' = [sock EXCEPT ![self] = k] /\ UNCHANGED <<ini, pool, server, rekeys>>
    BY <1>10 DEF Pipeline, Becomes, Stays
  <2> HIDE DEF k
  <2>. QED BY <1>2, <2>1, <2>2, SameSocks DEF Kind
<1>11. CASE Exec
  <2> DEFINE k == [mine EXCEPT !.mode = "ATOMIC", !.watching = IF mine.mode = "MULTI" THEN FALSE ELSE @]
             d == IF mine.mode = "MULTI" THEN [server[stream] EXCEPT !.tx = FALSE, !.watch = FALSE] ELSE server[stream]
  <2>1. d \in Servers /\ d.open = server[stream].open
    BY <1>2, DoneTypes, DoneOpen
  <2>2. k \in Socks /\ k.stream = sock[self].stream /\ k.auth = sock[self].auth
    BY <1>2 DEF Socks
  <2>3. Exchange(d) /\ sock' = [sock EXCEPT ![self] = k]
    BY <1>11 DEF Exec, Becomes
  <2> HIDE DEF k, d
  <2>. QED BY <1>2, <2>1, <2>2, <2>3, ExchangeOpens, SameSocks DEF Kind
<1>12. CASE Close
  <2>1. TakenFrom(self, TRUE)
    BY <1>2, <1>12, WithoutTypes DEF Close, TakenFrom, Becomes, Stays
  <2>. QED BY <1>2, <2>1 DEF Kind
<1>. QED BY <1>3, <1>4, <1>5, <1>6, <1>7, <1>8, <1>9, <1>10, <1>11, <1>12 DEF Runs

LEMMA Kinds ==
  ASSUME Typed, [Next]_vars
  PROVE  Kind
<1>1. ASSUME NEW o \in Objects, Destroy(o) \/ Reconnect(o) \/ \E a \in Creds : Pconnect(o, a)
      PROVE  Kind
  <2>1. sock[o] \in Socks
    BY TypeParts DEF Typed, SockType
  <2>2. \E force \in BOOLEAN : TakenFrom(o, force)
    BY <1>1, <2>1, RecordTypes, WithoutTypes DEF Destroy, Reconnect, Pconnect, TakenFrom, Stays, NoSock
  <2>. QED BY <2>2 DEF Kind
<1>2. ASSUME NEW o \in Objects, Method(o)
      PROVE  Kind
  BY <1>2, NoneChanged DEF Method, Stays, Kind
<1>3. CASE OpenFails
  <2>1. (At("connect") \/ At("open")) /\ ~At("idle")
    BY <1>3 DEF OpenFails, Opens, At
  <2>2. self \in Objects /\ sock[self].stream = None /\ call.via \in {"pconnect", "open", "eof", "reconnect"}
    BY <2>1, SelfTypes, TypeParts DEF Typed, CallType, CallRecs, Underway, At, mine, stream
  <2>3. CASE GivesUp
    BY <2>1, <2>3, GivesUpKind
  <2>4. CASE call.via = "pconnect"
    <3>1. sock' = [sock EXCEPT ![self] = NoSock] /\ UNCHANGED <<ini, pool, server, rekeys>>
      BY <1>3, <2>4 DEF OpenFails, Becomes, Stays
    <3>2. NoSock \in Socks /\ NoSock.stream = None
      BY RecordTypes DEF NoSock
    <3>. QED BY <2>2, <3>1, <3>2, SameSocks DEF Kind
  <2>5. CASE call.via \in {"open", "eof", "reconnect"} /\ ~GivesUp
    <3>1. UNCHANGED <<sock, ini, pool, server, rekeys>>
      BY <1>3, <2>5 DEF OpenFails, Stays
    <3>. QED BY <3>1, NoneChanged DEF Kind
  <2>. QED BY <2>2, <2>3, <2>4, <2>5
<1>4. CASE FindsEof
  <2>1. ~At("idle") /\ self \in Objects /\ mine \in Socks
    BY <1>4, WritesAfterConnect DEF FindsEof
  <2>2. GivesUp \/ TakenFrom(self, TRUE)
    BY <1>4, <2>1, WithoutTypes DEF FindsEof, TakenFrom, Becomes, Stays
  <2>. QED BY <2>1, <2>2, GivesUpKind DEF Kind
<1>5. CASE ReadFails
  <2>1. self \in Objects /\ mine \in Socks
    BY <1>5, WritesAfterConnect DEF ReadFails
  <2>2. TakenFrom(self, TRUE)
    BY <1>5, <2>1, WithoutTypes DEF ReadFails, TakenFrom, Becomes, Stays
  <2>. QED BY <2>1, <2>2 DEF Kind
<1>6. ASSUME NEW s \in Streams, ServerCloses(s) \/ LateReplyArrives(s)
      PROVE  Kind
  <2>1. UNCHANGED <<sock, ini, pool, rekeys>>
    BY <1>6 DEF ServerCloses, LateReplyArrives, Stays
  <2>2. server \in [Streams -> Servers]
    BY TypeParts DEF Typed, ServerType
  <2>3. CASE ServerCloses(s)
    <3>1. server' = [server EXCEPT ![s] = [Closed EXCEPT !.open = TRUE]] /\ [Closed EXCEPT !.open = TRUE].open
      BY <2>3 DEF ServerCloses, Closed
    <3>2. server[s].open
      BY <2>2, <2>3 DEF ServerCloses, Servers
    <3>. QED BY <2>1, <2>2, <3>1, <3>2, NoneChanged DEF Kind
  <2>4. CASE LateReplyArrives(s)
    <3>1. \A x \in Streams : server'[x].open = server[x].open
      BY <2>2, <2>4 DEF LateReplyArrives, Servers
    <3>. QED BY <2>1, <3>1, NoneChanged DEF Kind
  <2>. QED BY <1>6, <2>3, <2>4
<1>7. CASE UNCHANGED vars
  BY <1>7, NoneChanged DEF vars, Kind
<1>8. CASE Connecting
  BY <1>3, <1>8 DEF Connecting, Kind
<1>. QED BY <1>1, <1>2, <1>4, <1>5, <1>6, <1>7, <1>8, HandshakeKind, RunsKind DEF Next

\* What putting a stream into a pool and taking the oldest one out do to the sequence.
LEMMA PutFirst ==
  ASSUME NEW q \in Seq(Streams), NEW s \in Streams
  PROVE  LET r == <<s>> \o q
         IN  /\ r \in Seq(Streams) /\ Len(r) = Len(q) + 1 /\ r[1] = s
             /\ \A i \in 1..Len(q) : r[i + 1] = q[i]
             /\ \A i \in 2..Len(r) : i - 1 \in 1..Len(q) /\ r[i] = q[i - 1]
OBVIOUS

LEMMA TakeLast ==
  ASSUME NEW q \in Seq(Streams), q # <<>>
  PROVE  /\ Len(q) \in Nat \ {0} /\ Last(q) = q[Len(q)]
         /\ Front(q) \in Seq(Streams) /\ Len(Front(q)) = Len(q) - 1
         /\ \A i \in 1..Len(q) - 1 : Front(q)[i] = q[i]
<1>1. Len(q) \in Nat \ {0}
  BY EmptySeq
<1>2. Last(q) = q[Len(q)] /\ Front(q) = SubSeq(q, 1, Len(q) - 1)
  BY DEF Last, Front
<1>3. /\ SubSeq(q, 1, Len(q) - 1) \in Seq(Streams) /\ Len(SubSeq(q, 1, Len(q) - 1)) = Len(q) - 1
      /\ \A i \in 1..Len(q) - 1 : SubSeq(q, 1, Len(q) - 1)[i] = q[i]
  <2>1. \A i \in 1..Len(q) - 1 : q[i] \in Streams
    BY <1>1
  <2> DEFINE n == Len(q) - 1
             z == SubSeq(q, 1, n)
  <2>2. /\ z \in Seq(Streams) /\ Len(z) = IF 1 <= n THEN n - 1 + 1 ELSE 0
        /\ \A i \in 1..n - 1 + 1 : z[i] = q[1 + i - 1]
    BY <1>1, <2>1, SubSeqProperties
  <2>3. n \in Nat
    BY <1>1
  <2> HIDE DEF z, n
  <2>4. Len(z) = n /\ 1..n - 1 + 1 = 1..n /\ \A i \in 1..n : 1 + i - 1 = i
    BY <2>2, <2>3
  <2>5. \A i \in 1..n : z[i] = q[i]
    BY <2>2, <2>4
  <2>. QED BY <2>2, <2>4, <2>5 DEF z, n
<1>. QED BY <1>1, <1>2, <1>3

LEMMA PutFirstHas ==
  ASSUME NEW q \in Seq(Streams), NEW s \in Streams
  PROVE  \A x : (\E i \in 1..Len(<<s>> \o q) : (<<s>> \o q)[i] = x) <=> x = s \/ \E i \in 1..Len(q) : q[i] = x
<1> DEFINE r == <<s>> \o q
<1>1. /\ Len(q) \in Nat /\ Len(r) = Len(q) + 1 /\ r[1] = s
      /\ \A i \in 1..Len(q) : r[i + 1] = q[i]
      /\ \A i \in 2..Len(r) : i - 1 \in 1..Len(q) /\ r[i] = q[i - 1]
  BY PutFirst
<1> HIDE DEF r
<1>2. 1 \in 1..Len(r) /\ \A i \in 1..Len(q) : i + 1 \in 1..Len(r)
  BY <1>1
<1>3. ASSUME NEW x, NEW i \in 1..Len(q), q[i] = x PROVE \E j \in 1..Len(r) : r[j] = x
  BY <1>1, <1>2, <1>3
<1>4. ASSUME NEW x, NEW i \in 1..Len(r), r[i] = x PROVE x = s \/ \E j \in 1..Len(q) : q[j] = x
  BY <1>1, <1>4
<1>5. \E i \in 1..Len(r) : r[i] = s
  BY <1>1, <1>2
<1>6. \A x : (\E i \in 1..Len(r) : r[i] = x) <=> x = s \/ \E i \in 1..Len(q) : q[i] = x
  BY <1>3, <1>4, <1>5
<1>. QED BY <1>6 DEF r

LEMMA TakeLastHas ==
  ASSUME NEW q \in Seq(Streams), q # <<>>
  PROVE  \A x : (\E i \in 1..Len(q) : q[i] = x) <=> x = Last(q) \/ \E i \in 1..Len(Front(q)) : Front(q)[i] = x
<1> DEFINE f == Front(q)
<1>1. /\ Len(q) \in Nat \ {0} /\ Last(q) = q[Len(q)] /\ Len(f) = Len(q) - 1
      /\ \A i \in 1..Len(q) - 1 : f[i] = q[i]
  BY TakeLast
<1> HIDE DEF f
<1>2. Len(q) \in 1..Len(q) /\ \A i \in 1..Len(q) : i = Len(q) \/ i \in 1..Len(f)
  BY <1>1
<1>3. \A i \in 1..Len(f) : i \in 1..Len(q) /\ f[i] = q[i]
  BY <1>1
<1>4. \A x : (\E i \in 1..Len(q) : q[i] = x) <=> x = Last(q) \/ \E i \in 1..Len(f) : f[i] = x
  BY <1>1, <1>2, <1>3
<1>. QED BY <1>4 DEF f

LEMMA Lengths ==
  ASSUME Typed
  PROVE  \A a \in Creds : pool[a].idle \in Seq(Streams) /\ Len(pool[a].idle) \in Nat
BY TypeParts DEF Typed, PoolType

LEMMA OwnersSame ==
  ASSUME Typed, Owners, SameOwners
  PROVE  Owners'
BY DEF Owners, OneHolder, OnePlace, NotBoth, SomeOwner, Held, Pooled, SameOwners

\* A stream taken from an object is closed, or is then first in the object's pool.
LEMMA OwnersTaken ==
  ASSUME Typed, Owners, NEW o \in Objects, NEW force \in BOOLEAN, TakenFrom(o, force)
  PROVE  Owners'
<1> DEFINE s == sock[o].stream
           p == PoolOf(sock[o])
<1>1. /\ sock \in [Objects -> Socks] /\ server \in [Streams -> Servers]
      /\ pool \in [Creds -> [idle : Seq(Streams), active : Int]]
      /\ s \in Streams \cup {None} /\ p \in Creds
  BY TypeParts, PoolOfType DEF Typed, SockType, ServerType, PoolType, Socks
<1>2. PICK k \in Socks : k.stream = None /\ sock' = [sock EXCEPT ![o] = k]
  BY DEF TakenFrom
<1>3. \A u \in Objects : sock'[u].stream = IF u = o THEN None ELSE sock[u].stream
  BY <1>1, <1>2
<1>4. OneHolder'
  BY <1>3 DEF Owners, OneHolder
<1>5. \A x \in Streams : Held(x)' <=> Held(x) /\ x # s
  BY <1>3, NoneAssumption DEF Owners, OneHolder, Held
<1>6. \A a \in Creds : \A i \in 1..Len(pool[a].idle) : pool[a].idle[i] \in Streams /\ pool[a].idle[i] # s
  BY <1>1 DEF Owners, NotBoth
<1>7. CASE s = None
  <2>1. UNCHANGED <<pool, server>>
    BY <1>7 DEF TakenFrom, Disconnects
  <2>2. \A x \in Streams : Pooled(x)' <=> Pooled(x)
    BY <2>1 DEF Pooled
  <2>3. SomeOwner'
    BY <1>5, <1>7, <2>1, <2>2, NoneAssumption DEF Owners, SomeOwner
  <2>4. NotBoth'
    BY <1>3, <1>6, <2>1, NoneAssumption DEF Owners, NotBoth
  <2>5. OnePlace'
    BY <2>1 DEF Owners, OnePlace
  <2>. QED BY <1>4, <2>3, <2>4, <2>5 DEF Owners
<1>8. CASE s # None /\ (force \/ sock[o].mode # "ATOMIC")
  <2>1. server' = [server EXCEPT ![s] = Closed] /\ pool' = [pool EXCEPT ![p].active = @ - 1]
    BY <1>8 DEF TakenFrom, Disconnects
  <2>2. \A a \in Creds : pool'[a].idle = pool[a].idle
    BY <1>1, <2>1
  <2>3. \A x \in Streams : server'[x].open <=> server[x].open /\ x # s
    BY <1>1, <1>8, <2>1 DEF Closed, Servers
  <2>4. \A x \in Streams : Pooled(x)' <=> Pooled(x)
    BY <2>2 DEF Pooled
  <2>5. ~Pooled(s)
    BY <1>6 DEF Pooled
  <2> HIDE DEF s
  <2>6. SomeOwner'
    BY <1>5, <2>3, <2>4, <2>5 DEF Owners, SomeOwner
  <2>7. NotBoth'
    BY <1>3, <1>6, <2>2, NoneAssumption DEF Owners, NotBoth
  <2>8. OnePlace'
    BY <2>2 DEF Owners, OnePlace
  <2>. QED BY <1>4, <2>6, <2>7, <2>8 DEF Owners
<1>9. CASE s # None /\ ~(force \/ sock[o].mode # "ATOMIC")
  <2>1. /\ server' = [server EXCEPT ![s].left = IF @ = "none" THEN @ ELSE "other"]
        /\ pool' = [pool EXCEPT ![p].idle = <<s>> \o @]
    BY <1>9 DEF TakenFrom, Disconnects
  <2> DEFINE q == pool[p].idle
             r == <<s>> \o q
  <2>2. \A a \in Creds : pool'[a].idle = IF a = p THEN r ELSE pool[a].idle
    BY <1>1, <2>1
  <2>3. \A x \in Streams : server'[x].open <=> server[x].open
    BY <1>1, <1>9, <2>1 DEF Servers
  <2>4. /\ r \in Seq(Streams) /\ Len(r) = Len(q) + 1 /\ r[1] = s
        /\ \A i \in 1..Len(q) : r[i + 1] = q[i]
        /\ \A i \in 2..Len(r) : i - 1 \in 1..Len(q) /\ r[i] = q[i - 1]
    BY <1>1, <1>9, PutFirst
  <2>5. Len(q) \in Nat /\ \A i \in 1..Len(q) : q[i] # s /\ q[i] \in Streams
    BY <1>1, <1>6
  <2> HIDE DEF r
  <2>6. \A i \in 1..Len(r) : \/ i = 1 /\ r[i] = s
                             \/ i - 1 \in 1..Len(q) /\ r[i] = q[i - 1] /\ r[i] # s
    <3>1. ASSUME NEW i \in 1..Len(r), i # 1
          PROVE  i - 1 \in 1..Len(q) /\ r[i] = q[i - 1] /\ r[i] # s
      <4>1. i \in 2..Len(r)
        BY <2>4, <2>5, <3>1
      <4>. QED BY <2>4, <2>5, <4>1
    <3>. QED BY <2>4, <3>1
  <2>7. \A x \in Streams : (\E i \in 1..Len(r) : r[i] = x) <=> x = s \/ \E i \in 1..Len(q) : q[i] = x
    <3>1. 1 \in 1..Len(r) /\ \A i \in 1..Len(q) : i + 1 \in 1..Len(r)
      BY <2>4, <2>5
    <3>2. ASSUME NEW x, NEW i \in 1..Len(q), q[i] = x PROVE \E j \in 1..Len(r) : r[j] = x
      BY <2>4, <3>1, <3>2
    <3>3. ASSUME NEW x, NEW i \in 1..Len(r), r[i] = x PROVE x = s \/ \E j \in 1..Len(q) : q[j] = x
      BY <2>6, <3>3
    <3>4. \E i \in 1..Len(r) : r[i] = s
      BY <2>4, <3>1
    <3>. QED BY <3>2, <3>3, <3>4
  <2> HIDE DEF q, p, s
  <2>8. \A x \in Streams : Pooled(x)' <=> Pooled(x) \/ x = s
    <3>1. \A x \in Streams : Pooled(x)' <=> \E a \in Creds : \E i \in 1..Len(IF a = p THEN r ELSE pool[a].idle) :
                                              (IF a = p THEN r ELSE pool[a].idle)[i] = x
      BY <2>2 DEF Pooled
    <3>. QED BY <1>1, <2>7, <3>1 DEF Pooled, q
  <2>9. Held(s)
    BY DEF Held, s
  <2>10. SomeOwner'
    BY <1>1, <1>5, <2>3, <2>8, <2>9 DEF Owners, SomeOwner
  <2>11. NotBoth'
    <3>1. ASSUME NEW a \in Creds, NEW i \in 1..Len(pool'[a].idle)
          PROVE  pool'[a].idle[i] \in Streams
                 /\ (pool'[a].idle[i] = s \/ \E j \in 1..Len(pool[a].idle) : pool'[a].idle[i] = pool[a].idle[j])
      <4>1. CASE a = p
        BY <1>1, <1>9, <2>2, <2>5, <2>6, <4>1 DEF q
      <4>2. CASE a # p
        BY <1>6, <2>2, <4>2
      <4>. QED BY <4>1, <4>2
    <3>2. ASSUME NEW u \in Objects, NEW a \in Creds, NEW i \in 1..Len(pool'[a].idle),
                 sock'[u].stream = pool'[a].idle[i]
          PROVE  FALSE
      <4>1. u # o /\ sock[u].stream = pool'[a].idle[i]
        BY <1>3, <3>1, <3>2, NoneAssumption
      <4>2. sock[u].stream # s
        BY <1>9, <4>1 DEF Owners, OneHolder, s
      <4>3. \A j \in 1..Len(pool[a].idle) : sock[u].stream # pool[a].idle[j]
        BY DEF Owners, NotBoth
      <4>. QED BY <3>1, <4>1, <4>2, <4>3
    <3>. QED BY <3>2 DEF NotBoth
  <2>12. ASSUME NEW a \in Creds, NEW b \in Creds, NEW i \in 1..Len(pool'[a].idle), NEW j \in 1..Len(pool'[b].idle),
                pool'[a].idle[i] = pool'[b].idle[j]
         PROVE  a = b /\ i = j
    <3>1. CASE a = p /\ b = p
      <4>1. i \in 1..Len(r) /\ j \in 1..Len(r) /\ r[i] = r[j]
        BY <2>2, <2>12, <3>1
      <4>2. i = 1 <=> j = 1
        BY <2>6, <4>1
      <4>3. ASSUME i # 1 PROVE i = j
        <5>1. i - 1 \in 1..Len(q) /\ j - 1 \in 1..Len(q) /\ q[i - 1] = q[j - 1]
          BY <2>6, <4>1, <4>2, <4>3
        <5>2. \A v, w \in 1..Len(q) : q[v] = q[w] => v = w
          BY <1>1 DEF Owners, OnePlace, q
        <5>3. i - 1 = j - 1
          BY <5>1, <5>2
        <5>. QED BY <4>1, <5>3
      <4>. QED BY <3>1, <4>2, <4>3
    <3>2. CASE a = p /\ b # p
      <4>1. i \in 1..Len(r) /\ j \in 1..Len(pool[b].idle) /\ r[i] = pool[b].idle[j]
        BY <2>2, <2>12, <3>2
      <4>2. i - 1 \in 1..Len(q) /\ q[i - 1] = pool[b].idle[j]
        BY <1>6, <2>6, <4>1
      <4>. QED BY <1>1, <3>2, <4>1, <4>2 DEF Owners, OnePlace, q
    <3>3. CASE a # p /\ b = p
      <4>1. i \in 1..Len(pool[a].idle) /\ j \in 1..Len(r) /\ pool[a].idle[i] = r[j]
        BY <2>2, <2>12, <3>3
      <4>2. j - 1 \in 1..Len(q) /\ q[j - 1] = pool[a].idle[i]
        BY <1>6, <2>6, <4>1
      <4>. QED BY <1>1, <3>3, <4>1, <4>2 DEF Owners, OnePlace, q
    <3>4. CASE a # p /\ b # p
      BY <2>2, <2>12, <3>4 DEF Owners, OnePlace
    <3>. QED BY <3>1, <3>2, <3>3, <3>4
  <2>13. OnePlace'
    BY <2>12 DEF OnePlace
  <2>. QED BY <1>4, <2>10, <2>11, <2>13 DEF Owners
<1>. QED BY <1>7, <1>8, <1>9

\* The oldest stream of a pool leaves it: for the object that runs, or for good.
LEMMA OwnersOldest ==
  ASSUME Typed, Owners, ~At("idle"), Idle # <<>>, stream = None,
         \A a \in Creds : pool'[a].idle = IF a = own THEN Front(Idle) ELSE pool[a].idle,
         \/ /\ \A x \in Streams : server'[x].open = server[x].open
            /\ \A o \in Objects : sock'[o].stream = IF o = self THEN oldest ELSE sock[o].stream
         \/ /\ \A x \in Streams : server'[x].open = (server[x].open /\ x # oldest)
            /\ \A o \in Objects : sock'[o].stream = sock[o].stream
  PROVE  Owners'
<1> DEFINE n == Len(Idle)
<1>1. /\ self \in Objects /\ own \in Creds /\ sock[self].stream = None
      /\ pool \in [Creds -> [idle : Seq(Streams), active : Int]]
      /\ pool[own].idle = Idle /\ Idle \in Seq(Streams) /\ oldest \in Streams
  BY SelfTypes, IdleTypes, TypeParts DEF Typed, PoolType, stream, mine, Idle
<1>2. /\ n \in Nat \ {0} /\ oldest = Idle[n]
      /\ Len(Front(Idle)) = n - 1 /\ \A i \in 1..n - 1 : Front(Idle)[i] = Idle[i]
  BY <1>1, TakeLast DEF oldest
<1> DEFINE f == Front(Idle)
<1> HIDE DEF n, f
<1>3. /\ \A i \in 1..n : Idle[i] = oldest => i = n
      /\ \A a \in Creds : a # own => \A i \in 1..Len(pool[a].idle) : pool[a].idle[i] # oldest
      /\ \A o \in Objects : sock[o].stream # oldest
  BY <1>1, <1>2 DEF Owners, OnePlace, NotBoth, n
<1>4. \A a \in Creds : \A i \in 1..Len(pool'[a].idle) :
        i \in 1..Len(pool[a].idle) /\ pool'[a].idle[i] = pool[a].idle[i] /\ pool[a].idle[i] # oldest
  <2>1. ASSUME NEW a \in Creds, a = own, NEW i \in 1..Len(pool'[a].idle)
        PROVE  i \in 1..Len(pool[a].idle) /\ pool'[a].idle[i] = pool[a].idle[i] /\ pool[a].idle[i] # oldest
    <3>1. i \in 1..n - 1 /\ pool'[a].idle[i] = Idle[i]
      BY <1>1, <1>2, <2>1
    <3>. QED BY <1>1, <1>2, <1>3, <2>1, <3>1 DEF n
  <2>2. ASSUME NEW a \in Creds, a # own, NEW i \in 1..Len(pool'[a].idle)
        PROVE  i \in 1..Len(pool[a].idle) /\ pool'[a].idle[i] = pool[a].idle[i] /\ pool[a].idle[i] # oldest
    <3>1. pool'[a].idle = pool[a].idle
      BY <2>2
    <3>. QED BY <1>3, <2>2, <3>1
  <2>. QED BY <2>1, <2>2
<1>5. \A a \in Creds : \A i \in 1..Len(pool[a].idle) :
        pool[a].idle[i] # oldest => i \in 1..Len(pool'[a].idle) /\ pool'[a].idle[i] = pool[a].idle[i]
  BY <1>1, <1>2, <1>3 DEF n
<1>6. OneHolder'
  BY <1>1, <1>3 DEF Owners, OneHolder
<1>7. NotBoth'
  BY <1>1, <1>4 DEF Owners, NotBoth
<1>8. OnePlace'
  BY <1>4 DEF Owners, OnePlace
<1>9. Pooled(oldest)
  <2>1. n \in 1..Len(pool[own].idle) /\ pool[own].idle[n] = oldest
    BY <1>1, <1>2 DEF n
  <2>. QED BY <1>1, <2>1 DEF Pooled
<1>10. \A x \in Streams : Pooled(x)' <=> Pooled(x) /\ x # oldest
  <2>1. ASSUME NEW x \in Streams, Pooled(x)' PROVE Pooled(x) /\ x # oldest
    BY <1>4, <2>1 DEF Pooled
  <2>2. ASSUME NEW x \in Streams, Pooled(x), x # oldest PROVE Pooled(x)'
    BY <1>5, <2>2 DEF Pooled
  <2>. QED BY <2>1, <2>2
<1>11. SomeOwner'
  <2>1. CASE /\ \A x \in Streams : server'[x].open = server[x].open
             /\ \A o \in Objects : sock'[o].stream = IF o = self THEN oldest ELSE sock[o].stream
    <3>1. \A x \in Streams : Held(x)' <=> Held(x) \/ x = oldest
      BY <1>1, <2>1, NoneAssumption DEF Held
    <3>. QED BY <1>1, <1>9, <1>10, <2>1, <3>1 DEF Owners, SomeOwner
  <2>2. CASE /\ \A x \in Streams : server'[x].open = (server[x].open /\ x # oldest)
             /\ \A o \in Objects : sock'[o].stream = sock[o].stream
    <3>1. \A x \in Streams : Held(x)' <=> Held(x)
      BY <2>2 DEF Held
    <3>2. ~Held(oldest)
      BY <1>3 DEF Held
    <3>. QED BY <1>1, <1>10, <2>2, <3>1, <3>2 DEF Owners, SomeOwner
  <2>. QED BY <2>1, <2>2
<1>. QED BY <1>6, <1>7, <1>8, <1>11 DEF Owners

LEMMA OwnersBorrow ==
  ASSUME Typed, Owners, Borrow
  PROVE  Owners'
<1>1. At("connect") /\ ~At("idle") /\ Idle # <<>>
  BY DEF Borrow, Borrows, At
<1>2. /\ stream = None /\ self \in Objects /\ own \in Creds /\ oldest \in Streams
      /\ sock \in [Objects -> Socks] /\ server \in [Streams -> Servers]
      /\ pool \in [Creds -> [idle : Seq(Streams), active : Int]] /\ mine \in Socks
  BY <1>1, SelfTypes, IdleTypes, TypeParts DEF Typed, SockType, ServerType, PoolType, Underway, At
<1>3. \A a \in Creds : pool'[a].idle = IF a = own THEN Front(Idle) ELSE pool[a].idle
  BY <1>2 DEF Borrow, Idle
<1>4. \A x \in Streams : server'[x].open = server[x].open
  BY <1>2 DEF Borrow, Handed, Servers
<1>5. \A o \in Objects : sock'[o].stream = IF o = self THEN oldest ELSE sock[o].stream
  BY <1>2 DEF Borrow, Connected, Becomes, Socks
<1>. QED BY <1>1, <1>2, <1>3, <1>4, <1>5, OwnersOldest

LEMMA OwnersBorrowFails ==
  ASSUME Typed, Owners, BorrowFails
  PROVE  Owners'
<1>1. At("connect") /\ ~At("idle") /\ Idle # <<>>
  BY DEF BorrowFails, Borrows, At
<1>2. /\ stream = None /\ self \in Objects /\ own \in Creds /\ oldest \in Streams
      /\ sock \in [Objects -> Socks] /\ server \in [Streams -> Servers]
      /\ pool \in [Creds -> [idle : Seq(Streams), active : Int]] /\ mine \in Socks /\ mine = sock[self]
  BY <1>1, SelfTypes, IdleTypes, TypeParts DEF Typed, SockType, ServerType, PoolType, Underway, At, mine
<1>3. \A a \in Creds : pool'[a].idle = IF a = own THEN Front(Idle) ELSE pool[a].idle
  BY <1>2 DEF BorrowFails
<1>4. \A x \in Streams : server'[x].open = (server[x].open /\ x # oldest)
  BY <1>2 DEF BorrowFails, Closed, Servers
<1>5. \A o \in Objects : sock'[o].stream = sock[o].stream
  BY <1>2 DEF BorrowFails, Becomes, Socks
<1>. QED BY <1>1, <1>2, <1>3, <1>4, <1>5, OwnersOldest

LEMMA OwnersOpen ==
  ASSUME Typed, Owners, Open
  PROVE  Owners'
<1>1. (At("connect") \/ At("open")) /\ ~At("idle")
  BY DEF Open, Opens, At
<1>2. /\ stream = None /\ self \in Objects /\ own \in Creds
      /\ sock \in [Objects -> Socks] /\ server \in [Streams -> Servers]
      /\ pool \in [Creds -> [idle : Seq(Streams), active : Int]] /\ mine \in Socks /\ mine = sock[self]
      /\ sock[self].stream = None
  BY <1>1, SelfTypes, TypeParts DEF Typed, SockType, ServerType, PoolType, Underway, At, mine, stream
<1>3. PICK s \in Streams : /\ ~server[s].open /\ server' = [server EXCEPT ![s] = Opened]
                           /\ Connected(s, "CONNECTED")
  BY DEF Open
<1>4. \A a \in Creds : pool'[a].idle = pool[a].idle
  BY <1>2 DEF Open
<1>5. \A x \in Streams : server'[x].open = (server[x].open \/ x = s)
  BY <1>2, <1>3 DEF Opened, Closed, Servers
<1>6. \A o \in Objects : sock'[o].stream = IF o = self THEN s ELSE sock[o].stream
  BY <1>2, <1>3 DEF Connected, Becomes, Socks
<1>7. ~Held(s) /\ ~Pooled(s)
  BY <1>3 DEF Owners, SomeOwner
<1>8. \A x \in Streams : (Held(x)' <=> Held(x) \/ x = s) /\ (Pooled(x)' <=> Pooled(x))
  BY <1>2, <1>4, <1>6, NoneAssumption DEF Held, Pooled
<1>9. OneHolder'
  BY <1>6, <1>7 DEF Owners, OneHolder, Held
<1>10. NotBoth'
  BY <1>4, <1>6, <1>7 DEF Owners, NotBoth, Pooled
<1>11. OnePlace'
  <2>1. ASSUME NEW a \in Creds, NEW b \in Creds, NEW i \in 1..Len(pool'[a].idle),
               NEW j \in 1..Len(pool'[b].idle), pool'[a].idle[i] = pool'[b].idle[j]
        PROVE  a = b /\ i = j
    <3>1. i \in 1..Len(pool[a].idle) /\ j \in 1..Len(pool[b].idle) /\ pool[a].idle[i] = pool[b].idle[j]
      BY <1>4, <2>1
    <3>. QED BY <3>1 DEF Owners, OnePlace
  <2>. QED BY <2>1 DEF OnePlace
<1>12. SomeOwner'
  BY <1>5, <1>8 DEF Owners, SomeOwner
<1>. QED BY <1>9, <1>10, <1>11, <1>12 DEF Owners

LEMMA OwnersNext ==
  ASSUME Typed, Owners, [Next]_vars
  PROVE  Owners'
BY Kinds, OwnersSame, OwnersTaken, OwnersBorrow, OwnersBorrowFails, OwnersOpen DEF Kind

LEMMA OwnersInit == Init => Owners
BY NoneAssumption DEF Init, Owners, OneHolder, OnePlace, NotBoth, SomeOwner, Held, Pooled, NoSock, Closed
-----------------------------------------------------------------------------
(* Counts. *)

LEMMA AllSeqs == \A q \in Seq(Streams) : \A x : x \in ToSet(q) <=> \E i \in 1..Len(q) : q[i] = x
BY DEF ToSet

\* The places of a stream lie within the number of streams, because each stream has one.
LEMMA IdleLength ==
  ASSUME Typed, Owners, NEW a \in Creds
  PROVE  Len(pool[a].idle) <= Cardinality(Streams)
<1> DEFINE q == pool[a].idle
<1>1. q \in Seq(Streams) /\ Len(q) \in Nat
  BY Lengths
<1>2. \A i, j \in 1..Len(q) : q[i] = q[j] => i = j
  BY DEF Owners, OnePlace
<1> HIDE DEF q
<1>3. q \in Injection(1..Len(q), Streams)
  <2>1. q \in [1..Len(q) -> Streams]
    BY <1>1
  <2>. QED BY <1>2, <2>1 DEF Injection, IsInjective
<1>4. \A m \in Nat : IsFiniteSet(1..m) /\ Cardinality(1..m) = m
  BY FS_Interval
<1>. QED BY <1>1, <1>3, <1>4, StreamsAssumption, FS_Injection DEF q

LEMMA OwnersOneOwner ==
  ASSUME Typed, Owners
  PROVE  OneOwner
<1> SUFFICES ASSUME NEW s \in Streams
             PROVE  Cardinality(Holders(s)) + Cardinality(Places(s)) = IF server[s].open THEN 1 ELSE 0
  BY DEF OneOwner
<1>1. s # None
  BY NoneAssumption
<1>2. Holders(s) # {} <=> Held(s)
  BY DEF Holders, Held
<1>3. Cardinality(Holders(s)) = IF Held(s) THEN 1 ELSE 0
  <2>1. \A o, u \in Holders(s) : o = u
    BY <1>1 DEF Holders, Owners, OneHolder
  <2>2. CASE Held(s)
    <3>1. \E o : Holders(s) = {o}
      BY <1>2, <2>1, <2>2
    <3>. QED BY <2>2, <3>1, FS_Singleton
  <2>3. CASE ~Held(s)
    BY <1>2, <2>3, FS_EmptySet
  <2>. QED BY <2>2, <2>3
<1>4. Places(s) # {} <=> Pooled(s)
  <2>1. ASSUME NEW a \in Creds, NEW i \in 1..Len(pool[a].idle), pool[a].idle[i] = s
        PROVE  Places(s) # {}
    <3>1. Len(pool[a].idle) \in Nat /\ Cardinality(Streams) \in Nat
      BY Lengths, StreamsAssumption, FS_CardinalityType
    <3>2. i \in 1..Cardinality(Streams) /\ i <= Len(pool[a].idle)
      BY <3>1, IdleLength
    <3>3. <<a, i>> \in Places(s)
      BY <2>1, <3>2 DEF Places
    <3>. QED BY <3>3
  <2>2. ASSUME NEW p \in Places(s)
        PROVE  Pooled(s)
    <3>1. p[1] \in Creds /\ p[2] \in 1..Cardinality(Streams) /\ p[2] <= Len(pool[p[1]].idle)
          /\ pool[p[1]].idle[p[2]] = s
      BY DEF Places
    <3>2. p[2] \in 1..Len(pool[p[1]].idle)
      BY <3>1, Lengths, StreamsAssumption, FS_CardinalityType
    <3>. QED BY <3>1, <3>2 DEF Pooled
  <2>. QED BY <2>1, <2>2 DEF Pooled
<1>5. Cardinality(Places(s)) = IF Pooled(s) THEN 1 ELSE 0
  <2>1. \A p, r \in Places(s) : p = r
    <3>1. \A p \in Places(s) : /\ p = <<p[1], p[2]>> /\ p[1] \in Creds /\ p[2] \in 1..Len(pool[p[1]].idle)
                               /\ pool[p[1]].idle[p[2]] = s
      BY Lengths, StreamsAssumption, FS_CardinalityType DEF Places
    <3>. QED BY <3>1 DEF Owners, OnePlace
  <2>2. CASE Pooled(s)
    <3>1. \E p : Places(s) = {p}
      BY <1>4, <2>1, <2>2
    <3>. QED BY <2>2, <3>1, FS_Singleton
  <2>3. CASE ~Pooled(s)
    BY <1>4, <2>3, FS_EmptySet
  <2>. QED BY <2>2, <2>3
<1>6. ~(Held(s) /\ Pooled(s))
  BY DEF Held, Pooled, Owners, NotBoth
<1>7. server[s].open <=> Held(s) \/ Pooled(s)
  BY DEF Owners, SomeOwner
<1>. QED BY <1>3, <1>5, <1>6, <1>7

\* The streams counted in a pool: idle there, or with an object whose pool it is.
HeldOf(a, x) == \E o \in Objects : sock[o].stream = x /\ PoolOf(sock[o]) = a

LEMMA StreamsOfSays ==
  ASSUME Typed, NEW a \in Creds
  PROVE  /\ StreamsOf(a) = {x \in Streams : (\E i \in 1..Len(pool[a].idle) : pool[a].idle[i] = x) \/ HeldOf(a, x)}
         /\ IsFiniteSet(StreamsOf(a)) /\ Cardinality(StreamsOf(a)) \in Nat
<1>1. pool[a].idle \in Seq(Streams)
  BY Lengths
<1>2. \A x : x \in ToSet(pool[a].idle) <=> x \in Streams /\ \E i \in 1..Len(pool[a].idle) : pool[a].idle[i] = x
  BY <1>1, AllSeqs
<1>3. StreamsOf(a) = {x \in Streams : (\E i \in 1..Len(pool[a].idle) : pool[a].idle[i] = x) \/ HeldOf(a, x)}
  BY <1>2 DEF StreamsOf, Holders, HeldOf
<1>4. StreamsOf(a) \in SUBSET Streams
  BY <1>3
<1>. QED BY <1>3, <1>4, StreamsAssumption, FS_Subset, FS_CardinalityType

LEMMA StreamsOfSaysNext ==
  ASSUME Typed', NEW a \in Creds
  PROVE  StreamsOf(a)' = {x \in Streams : (\E i \in 1..Len(pool'[a].idle) : pool'[a].idle[i] = x) \/ HeldOf(a, x)'}
<1>1. pool'[a].idle \in Seq(Streams)
  BY TypePartsNext DEF Typed, PoolType
<1>2. \A x : x \in ToSet(pool'[a].idle) <=> x \in Streams /\ \E i \in 1..Len(pool'[a].idle) : pool'[a].idle[i] = x
  BY <1>1, AllSeqs
<1>. QED BY <1>2 DEF StreamsOf, Holders, HeldOf

LEMMA OldestOnce ==
  ASSUME Typed, Owners, ~At("idle"), Idle # <<>>
  PROVE  Pooled(oldest) /\ ~Held(oldest) /\ ~\E i \in 1..Len(Front(Idle)) : Front(Idle)[i] = oldest
<1>1. own \in Creds /\ Idle = pool[own].idle /\ Idle \in Seq(Streams)
  BY SelfTypes, IdleTypes DEF Idle
<1> DEFINE f == Front(Idle)
           n == Len(Idle)
<1>2. n \in Nat \ {0} /\ oldest = Idle[n] /\ Len(f) = n - 1 /\ \A i \in 1..n - 1 : f[i] = Idle[i]
  BY <1>1, TakeLast DEF oldest
<1>3. n \in 1..Len(pool[own].idle) /\ pool[own].idle[n] = oldest
  BY <1>1, <1>2
<1>4. Pooled(oldest) /\ ~Held(oldest)
  BY <1>1, <1>3 DEF Pooled, Held, Owners, NotBoth
<1> HIDE DEF f
<1>5. ASSUME NEW i \in 1..Len(f), f[i] = oldest PROVE FALSE
  <2>1. i \in 1..n /\ i # n /\ Idle[i] = oldest
    BY <1>2, <1>5
  <2>. QED BY <1>1, <1>3, <2>1 DEF Owners, OnePlace
<1>. QED BY <1>4, <1>5 DEF f

\* A count that follows its set by one stream, if any.
LEMMA LessOne ==
  ASSUME Typed, NEW a \in Creds, NEW s, StreamsOf(a)' = StreamsOf(a) \ {s},
         pool[a].active = Cardinality(StreamsOf(a)),
         pool'[a].active = IF s \in StreamsOf(a) THEN pool[a].active - 1 ELSE pool[a].active
  PROVE  pool'[a].active = Cardinality(StreamsOf(a)')
<1>1. IsFiniteSet(StreamsOf(a)) /\ Cardinality(StreamsOf(a)) \in Nat
  BY StreamsOfSays
<1>2. Cardinality(StreamsOf(a) \ {s}) =
        IF s \in StreamsOf(a) THEN Cardinality(StreamsOf(a)) - 1 ELSE Cardinality(StreamsOf(a))
  BY <1>1, FS_RemoveElement
<1>. QED BY <1>2

LEMMA OldestLeaves ==
  ASSUME Typed, Owners, ~At("idle"), Idle # <<>>,
         \/ pool' = [pool EXCEPT ![own].idle = Front(@)]
         \/ pool' = [pool EXCEPT ![own] = [idle |-> Front(Idle), active |-> @.active - 1]]
  PROVE  \A x \in Streams : Pooled(x)' => Pooled(x) /\ x # oldest
<1>1. /\ own \in Creds /\ pool[own].idle = Idle /\ Idle \in Seq(Streams)
      /\ pool \in [Creds -> [idle : Seq(Streams), active : Int]]
  BY SelfTypes, IdleTypes, TypeParts DEF Typed, PoolType, Idle
<1>2. \A a \in Creds : pool'[a].idle = IF a = own THEN Front(Idle) ELSE pool[a].idle
  BY <1>1
<1>3. /\ Len(Idle) \in Nat \ {0} /\ oldest = Idle[Len(Idle)] /\ Len(Front(Idle)) = Len(Idle) - 1
      /\ \A i \in 1..Len(Idle) - 1 : Front(Idle)[i] = Idle[i]
  BY <1>1, TakeLast DEF oldest
<1>4. Len(Idle) \in 1..Len(pool[own].idle) /\ pool[own].idle[Len(Idle)] = oldest
  BY <1>1, <1>3
<1>5. ASSUME NEW a \in Creds, NEW i \in 1..Len(pool'[a].idle)
      PROVE  i \in 1..Len(pool[a].idle) /\ pool'[a].idle[i] = pool[a].idle[i] /\ pool[a].idle[i] # oldest
  <2>1. CASE a = own
    <3>1. i \in 1..Len(Idle) - 1 /\ i \in 1..Len(Idle) /\ i # Len(Idle)
      BY <1>2, <1>3, <1>5, <2>1
    <3>. QED BY <1>1, <1>2, <1>3, <1>4, <2>1, <3>1 DEF Owners, OnePlace
  <2>2. CASE a # own
    BY <1>1, <1>2, <1>4, <1>5, <2>2 DEF Owners, OnePlace
  <2>. QED BY <2>1, <2>2
<1>. QED BY <1>5 DEF Pooled

LEMMA EachSame ==
  ASSUME Typed, Typed', EachCounted, SameOwners
  PROVE  EachCounted'
<1> SUFFICES ASSUME rekeys' = 0, NEW a \in Creds
             PROVE  /\ pool'[a].active = Cardinality(StreamsOf(a))'
                    /\ ini'.limit > 0 => pool'[a].active <= ini'.limit
  BY DEF EachCounted
<1>1. /\ rekeys = 0 /\ UNCHANGED <<ini, pool>>
      /\ \A o \in Objects : sock'[o].stream = sock[o].stream
      /\ \A o \in Objects : sock[o].stream # None => PoolOf(sock[o])' = PoolOf(sock[o])
  BY DEF SameOwners
<1>2. \A x \in Streams : HeldOf(a, x)' <=> HeldOf(a, x)
  BY <1>1, NoneAssumption DEF HeldOf
<1>3. StreamsOf(a)' = StreamsOf(a)
  BY <1>1, <1>2, StreamsOfSays, StreamsOfSaysNext
<1>. QED BY <1>1, <1>3 DEF EachCounted

LEMMA EachTaken ==
  ASSUME Typed, Typed', Owners, EachCounted, NEW o \in Objects, NEW force \in BOOLEAN, TakenFrom(o, force)
  PROVE  EachCounted'
<1> SUFFICES ASSUME rekeys' = 0, NEW a \in Creds
             PROVE  /\ pool'[a].active = Cardinality(StreamsOf(a))'
                    /\ ini'.limit > 0 => pool'[a].active <= ini'.limit
  BY DEF EachCounted
<1> DEFINE s == sock[o].stream
           p == PoolOf(sock[o])
<1>1. /\ sock \in [Objects -> Socks] /\ server \in [Streams -> Servers]
      /\ pool \in [Creds -> [idle : Seq(Streams), active : Int]]
      /\ s \in Streams \cup {None} /\ p \in Creds
  BY TypeParts, PoolOfType DEF Typed, SockType, ServerType, PoolType, Socks
<1>2. PICK k \in Socks : k.stream = None /\ sock' = [sock EXCEPT ![o] = k]
  BY DEF TakenFrom
<1>3. \A u \in Objects : sock'[u] = IF u = o THEN k ELSE sock[u]
  BY <1>1, <1>2
<1>4. ini' = ini /\ rekeys' = rekeys
  BY DEF TakenFrom
<1>5. /\ pool[a].active = Cardinality(StreamsOf(a))
      /\ ini.limit > 0 => pool[a].active <= ini.limit
  BY <1>4 DEF EachCounted
<1>6. ini.limit \in Nat /\ pool[a].active \in Int
  BY <1>1, TypeParts, SettingsAssumption DEF Typed, RestType
<1>7. \A x \in Streams : HeldOf(a, x)' <=> HeldOf(a, x) /\ x # s
  <2>1. \A u \in Objects : u # o => sock'[u].stream = sock[u].stream /\ PoolOf(sock[u])' = PoolOf(sock[u])
    BY <1>3, <1>4 DEF PoolOf
  <2>2. sock'[o].stream = None
    BY <1>2, <1>3
  <2>. QED BY <2>1, <2>2, NoneAssumption DEF HeldOf, Owners, OneHolder
<1>8. s # None => (HeldOf(a, s) <=> a = p)
  BY DEF HeldOf, Owners, OneHolder
<1>9. \A i \in 1..Len(pool[a].idle) : pool[a].idle[i] # s
  BY DEF Owners, NotBoth
<1>10. CASE s = None
  <2>1. UNCHANGED pool
    BY <1>10 DEF TakenFrom, Disconnects
  <2>2. pool'[a].idle = pool[a].idle /\ \A x \in Streams : HeldOf(a, x)' <=> HeldOf(a, x)
    BY <1>7, <1>10, <2>1, NoneAssumption
  <2>3. StreamsOf(a)' = StreamsOf(a)
    BY <2>2, StreamsOfSays, StreamsOfSaysNext
  <2>. QED BY <1>4, <1>5, <2>1, <2>3
<1>11. CASE s # None /\ (force \/ sock[o].mode # "ATOMIC")
  <2>1. pool' = [pool EXCEPT ![p].active = @ - 1]
    BY <1>11 DEF TakenFrom, Disconnects
  <2>2. pool'[a].idle = pool[a].idle /\ pool'[a].active = IF a = p THEN pool[a].active - 1 ELSE pool[a].active
    BY <1>1, <2>1
  <2> HIDE DEF s, p
  <2>3. StreamsOf(a)' = StreamsOf(a) \ {s}
    BY <1>7, <1>9, <2>2, StreamsOfSays, StreamsOfSaysNext
  <2>4. s \in StreamsOf(a) <=> a = p
    BY <1>1, <1>8, <1>9, <1>11, StreamsOfSays
  <2>5. pool'[a].active = Cardinality(StreamsOf(a)')
    BY <1>5, <2>2, <2>3, <2>4, LessOne
  <2>. QED BY <1>4, <1>5, <1>6, <2>2, <2>5
<1>12. CASE s # None /\ ~(force \/ sock[o].mode # "ATOMIC")
  <2>1. pool' = [pool EXCEPT ![p].idle = <<s>> \o @]
    BY <1>12 DEF TakenFrom, Disconnects
  <2> DEFINE r == <<s>> \o pool[p].idle
  <2>2. pool'[a].idle = (IF a = p THEN r ELSE pool[a].idle) /\ pool'[a].active = pool[a].active
    BY <1>1, <2>1
  <2>3. \A x : (\E i \in 1..Len(r) : r[i] = x) <=> x = s \/ \E i \in 1..Len(pool[p].idle) : pool[p].idle[i] = x
    BY <1>1, <1>12, PutFirstHas
  <2> HIDE DEF s, p, r
  <2>4. StreamsOf(a)' = StreamsOf(a)
    <3>1. CASE a = p
      <4>1. \A x \in Streams : (\E i \in 1..Len(pool'[a].idle) : pool'[a].idle[i] = x)
                               <=> x = s \/ \E i \in 1..Len(pool[a].idle) : pool[a].idle[i] = x
        <5>1. pool'[a].idle = r
          BY <2>2, <3>1
        <5>. QED BY <2>3, <3>1, <5>1
      <4>2. \A x \in Streams : (\E i \in 1..Len(pool'[a].idle) : pool'[a].idle[i] = x) \/ HeldOf(a, x)'
                               <=> (\E i \in 1..Len(pool[a].idle) : pool[a].idle[i] = x) \/ HeldOf(a, x)
        BY <1>1, <1>7, <1>8, <1>12, <3>1, <4>1
      <4>. QED BY <4>2, StreamsOfSays, StreamsOfSaysNext
    <3>2. CASE a # p
      <4>1. \A x \in Streams : HeldOf(a, x)' <=> HeldOf(a, x)
        BY <1>7, <1>8, <1>12, <3>2
      <4>. QED BY <2>2, <3>2, <4>1, StreamsOfSays, StreamsOfSaysNext
    <3>. QED BY <3>1, <3>2
  <2>. QED BY <1>4, <1>5, <2>2, <2>4
<1>. QED BY <1>10, <1>11, <1>12

LEMMA EachBorrow ==
  ASSUME Typed, Typed', Owners, EachCounted, Borrow
  PROVE  EachCounted'
<1> SUFFICES ASSUME rekeys' = 0, NEW a \in Creds
             PROVE  /\ pool'[a].active = Cardinality(StreamsOf(a))'
                    /\ ini'.limit > 0 => pool'[a].active <= ini'.limit
  BY DEF EachCounted
<1>1. At("connect") /\ ~At("idle") /\ Idle # <<>> /\ ini' = ini /\ rekeys' = rekeys
  BY DEF Borrow, Borrows, At, Stays
<1>2. /\ sock[self].stream = None /\ self \in Objects /\ own \in Creds /\ oldest \in Streams
      /\ sock \in [Objects -> Socks] /\ pool \in [Creds -> [idle : Seq(Streams), active : Int]]
      /\ Idle = pool[own].idle /\ PoolOf(sock[self]) = own /\ mine = sock[self]
  BY <1>1, SelfTypes, IdleTypes, TypeParts DEF Typed, SockType, PoolType, Underway, At, stream, mine, Idle, own
<1>3. pool'[a].idle = (IF a = own THEN Front(Idle) ELSE pool[a].idle) /\ pool'[a].active = pool[a].active
  BY <1>2 DEF Borrow, Idle
<1>4. \A o \in Objects : /\ sock'[o].stream = IF o = self THEN oldest ELSE sock[o].stream
                         /\ PoolOf(sock[o])' = PoolOf(sock[o])
  BY <1>1, <1>2 DEF Borrow, Connected, Becomes, Socks, PoolOf
<1>5. \A x \in Streams : HeldOf(a, x)' <=> HeldOf(a, x) \/ (x = oldest /\ a = own)
  BY <1>2, <1>4, NoneAssumption DEF HeldOf
<1>6. \A x : (\E i \in 1..Len(Idle) : Idle[i] = x) <=> x = oldest \/ \E i \in 1..Len(Front(Idle)) : Front(Idle)[i] = x
  <2>1. Idle \in Seq(Streams)
    BY <1>2
  <2>. QED BY <1>1, <2>1, TakeLastHas DEF oldest
<1>7. StreamsOf(a)' = StreamsOf(a)
  <2>1. CASE a = own
    <3>1. \A x \in Streams : (\E i \in 1..Len(pool'[a].idle) : pool'[a].idle[i] = x) \/ HeldOf(a, x)'
                             <=> (\E i \in 1..Len(pool[a].idle) : pool[a].idle[i] = x) \/ HeldOf(a, x)
      <4>1. pool'[a].idle = Front(Idle) /\ pool[a].idle = Idle
        BY <1>2, <1>3, <2>1
      <4> DEFINE Has(q, x) == \E i \in 1..Len(q) : q[i] = x
      <4>2. \A x : Has(Idle, x) <=> x = oldest \/ Has(Front(Idle), x)
        BY <1>6
      <4> HIDE DEF Has
      <4>3. \A x : Has(pool[a].idle, x) <=> x = oldest \/ Has(pool'[a].idle, x)
        BY <4>1, <4>2
      <4>. QED BY <1>5, <2>1, <4>3 DEF Has
    <3>. QED BY <3>1, StreamsOfSays, StreamsOfSaysNext
  <2>2. CASE a # own
    BY <1>3, <1>5, <2>2, StreamsOfSays, StreamsOfSaysNext
  <2>. QED BY <2>1, <2>2
<1>. QED BY <1>1, <1>3, <1>7 DEF EachCounted

LEMMA EachBorrowFails ==
  ASSUME Typed, Typed', Owners, EachCounted, BorrowFails
  PROVE  EachCounted'
<1> SUFFICES ASSUME rekeys' = 0, NEW a \in Creds
             PROVE  /\ pool'[a].active = Cardinality(StreamsOf(a))'
                    /\ ini'.limit > 0 => pool'[a].active <= ini'.limit
  BY DEF EachCounted
<1>1. At("connect") /\ ~At("idle") /\ Idle # <<>> /\ ini' = ini /\ rekeys' = rekeys
  BY DEF BorrowFails, Borrows, At, Stays
<1>2. /\ sock[self].stream = None /\ self \in Objects /\ own \in Creds /\ oldest \in Streams
      /\ sock \in [Objects -> Socks] /\ pool \in [Creds -> [idle : Seq(Streams), active : Int]]
      /\ Idle = pool[own].idle /\ mine = sock[self]
  BY <1>1, SelfTypes, IdleTypes, TypeParts DEF Typed, SockType, PoolType, Underway, At, stream, mine, Idle
<1>3. /\ pool'[a].idle = (IF a = own THEN Front(Idle) ELSE pool[a].idle)
      /\ pool'[a].active = IF a = own THEN pool[a].active - 1 ELSE pool[a].active
  BY <1>2 DEF BorrowFails
<1>4. \A o \in Objects : /\ sock'[o].stream = sock[o].stream /\ PoolOf(sock[o])' = PoolOf(sock[o])
  BY <1>1, <1>2 DEF BorrowFails, Becomes, Socks, PoolOf
<1>5. \A x \in Streams : HeldOf(a, x)' <=> HeldOf(a, x)
  BY <1>4 DEF HeldOf
<1>6. \A x : (\E i \in 1..Len(Idle) : Idle[i] = x) <=> x = oldest \/ \E i \in 1..Len(Front(Idle)) : Front(Idle)[i] = x
  <2>1. Idle \in Seq(Streams)
    BY <1>2
  <2>. QED BY <1>1, <2>1, TakeLastHas DEF oldest
<1>7. Pooled(oldest) /\ ~Held(oldest) /\ ~\E i \in 1..Len(Front(Idle)) : Front(Idle)[i] = oldest
  BY <1>1, <1>2, OldestOnce
<1>8. a # own => ~\E i \in 1..Len(pool[a].idle) : pool[a].idle[i] = oldest
  <2>1. \E i \in 1..Len(pool[own].idle) : pool[own].idle[i] = oldest
    BY <1>2, <1>6
  <2>. QED BY <1>2, <2>1 DEF Owners, OnePlace
<1>9. ~HeldOf(a, oldest)
  BY <1>7 DEF Held, HeldOf
<1>10. StreamsOf(a)' = StreamsOf(a) \ {oldest}
  <2>1. CASE a = own
    <3>1. \A x \in Streams : (\E i \in 1..Len(pool'[a].idle) : pool'[a].idle[i] = x)
                             <=> x # oldest /\ \E i \in 1..Len(pool[a].idle) : pool[a].idle[i] = x
      <4>1. pool'[a].idle = Front(Idle) /\ pool[a].idle = Idle
        BY <1>2, <1>3, <2>1
      <4> DEFINE Has(q, x) == \E i \in 1..Len(q) : q[i] = x
      <4>2. \A x : Has(Idle, x) <=> x = oldest \/ Has(Front(Idle), x)
        BY <1>6
      <4> HIDE DEF Has
      <4>3. \A x : Has(pool[a].idle, x) <=> x = oldest \/ Has(pool'[a].idle, x)
        BY <4>1, <4>2
      <4>4. ~\E i \in 1..Len(pool'[a].idle) : pool'[a].idle[i] = oldest
        BY <1>7, <4>1
      <4>. QED BY <4>3, <4>4 DEF Has
    <3>. QED BY <1>5, <1>9, <3>1, StreamsOfSays, StreamsOfSaysNext
  <2>2. CASE a # own
    BY <1>3, <1>5, <1>8, <1>9, <2>2, StreamsOfSays, StreamsOfSaysNext
  <2>. QED BY <2>1, <2>2
<1>11. oldest \in StreamsOf(a) <=> a = own
  <2>1. (\E i \in 1..Len(pool[a].idle) : pool[a].idle[i] = oldest) <=> a = own
    BY <1>2, <1>6, <1>8
  <2>. QED BY <1>2, <1>9, <2>1, StreamsOfSays
<1>12. /\ pool[a].active = Cardinality(StreamsOf(a)) /\ pool[a].active \in Int /\ ini.limit \in Nat
       /\ ini.limit > 0 => pool[a].active <= ini.limit
  BY <1>1, <1>2, TypeParts, SettingsAssumption DEF EachCounted, Typed, RestType
<1>13. pool'[a].active = Cardinality(StreamsOf(a)')
  BY <1>3, <1>10, <1>11, <1>12, LessOne
<1>. QED BY <1>1, <1>3, <1>12, <1>13

LEMMA EachOpen ==
  ASSUME Typed, Typed', Owners, EachCounted, Open
  PROVE  EachCounted'
<1> SUFFICES ASSUME rekeys' = 0, NEW a \in Creds
             PROVE  /\ pool'[a].active = Cardinality(StreamsOf(a))'
                    /\ ini'.limit > 0 => pool'[a].active <= ini'.limit
  BY DEF EachCounted
<1>1. (At("connect") \/ At("open")) /\ ~At("idle") /\ ini' = ini /\ rekeys' = rekeys /\ ~AtLimit
  BY DEF Open, Opens, At, Stays
<1>2. /\ sock[self].stream = None /\ self \in Objects /\ own \in Creds
      /\ sock \in [Objects -> Socks] /\ pool \in [Creds -> [idle : Seq(Streams), active : Int]]
      /\ mine = sock[self] /\ PoolOf(sock[self]) = own
  BY <1>1, SelfTypes, TypeParts DEF Typed, SockType, PoolType, Underway, At, stream, mine, own
<1>3. PICK s \in Streams : ~server[s].open /\ Connected(s, "CONNECTED")
  BY DEF Open
<1>4. pool'[a].idle = pool[a].idle /\ pool'[a].active = IF a = own THEN pool[a].active + 1 ELSE pool[a].active
  BY <1>2 DEF Open
<1>5. \A o \in Objects : /\ sock'[o].stream = IF o = self THEN s ELSE sock[o].stream
                         /\ PoolOf(sock[o])' = PoolOf(sock[o])
  BY <1>1, <1>2, <1>3 DEF Connected, Becomes, Socks, PoolOf
<1>6. \A x \in Streams : HeldOf(a, x)' <=> HeldOf(a, x) \/ (x = s /\ a = own)
  BY <1>2, <1>5, NoneAssumption DEF HeldOf
<1>7. ~Held(s) /\ ~Pooled(s)
  BY <1>3 DEF Owners, SomeOwner
<1>8. s \notin StreamsOf(a)
  BY <1>7, StreamsOfSays DEF Held, Pooled, HeldOf
<1>9. /\ pool[a].active = Cardinality(StreamsOf(a)) /\ pool[a].active \in Int /\ ini.limit \in Nat
      /\ ini.limit > 0 => pool[a].active <= ini.limit
  BY <1>1, <1>2, TypeParts, SettingsAssumption DEF EachCounted, Typed, RestType
<1>10. CASE a = own
  <2>1. StreamsOf(a)' = StreamsOf(a) \cup {s}
    BY <1>4, <1>6, <1>10, StreamsOfSays, StreamsOfSaysNext
  <2>2. Cardinality(StreamsOf(a)') = Cardinality(StreamsOf(a)) + 1
    BY <1>8, <2>1, StreamsOfSays, FS_AddElement
  <2>3. ini.limit > 0 => pool[a].active < ini.limit
    BY <1>1, <1>9, <1>10 DEF AtLimit
  <2>. QED BY <1>1, <1>4, <1>9, <1>10, <2>2, <2>3
<1>11. CASE a # own
  <2>1. StreamsOf(a)' = StreamsOf(a)
    BY <1>4, <1>6, <1>11, StreamsOfSays, StreamsOfSaysNext
  <2>. QED BY <1>1, <1>4, <1>9, <1>11, <2>1
<1>. QED BY <1>10, <1>11

LEMMA EachNext ==
  ASSUME Typed, Typed', Owners, EachCounted, [Next]_vars
  PROVE  EachCounted'
BY Kinds, EachSame, EachTaken, EachBorrow, EachBorrowFails, EachOpen DEF Kind

LEMMA EachInit == Init => EachCounted
<1> SUFFICES ASSUME Init, NEW a \in Creds
             PROVE  pool[a].active = Cardinality(StreamsOf(a)) /\ (ini.limit > 0 => pool[a].active <= ini.limit)
  BY DEF EachCounted
<1>1. pool[a].idle = <<>> /\ pool[a].active = 0 /\ ini.limit \in Nat
  BY SettingsAssumption DEF Init
<1>2. ToSet(<<>>) = {}
  BY DEF ToSet
<1>3. \A s \in Streams : Holders(s) = {}
  BY NoneAssumption DEF Init, Holders, NoSock
<1>4. StreamsOf(a) = {}
  BY <1>1, <1>2, <1>3 DEF StreamsOf
<1>. QED BY <1>1, <1>4, FS_EmptySet

-----------------------------------------------------------------------------
(* The sum over all pools. *)

\* Induction on the subsets of a finite set, with the set of those that have the property.
LEMMA SubsetInduction ==
  ASSUME NEW C, IsFiniteSet(C), NEW P, {} \in P,
         \A S \in SUBSET C : S # {} /\ (\A T \in SUBSET S : T # S => T \in P) => S \in P
  PROVE  SUBSET C \subseteq P
<1> DEFINE Bad == {S \in SUBSET C : S \notin P}
           R == StrictSubsetOrdering(C)
<1> SUFFICES ASSUME Bad # {} PROVE FALSE
  OBVIOUS
<1>1. PICK S \in Bad : \A T \in Bad : <<T, S>> \notin R
  <2>1. IsWellFoundedOn(R, FiniteSubsetsOf(C))
    BY FS_StrictSubsetOrderingWellFounded
  <2>2. \A T \in SUBSET C : IsFiniteSet(T)
    BY FS_Subset
  <2>3. Bad \subseteq FiniteSubsetsOf(C)
    BY <2>2 DEF FiniteSubsetsOf
  <2> HIDE DEF Bad, R
  <2>. QED BY <2>1, <2>3, WFMin
<1>2. \A T \in SUBSET S : T # S => T \in P
  <2>1. ASSUME NEW T \in SUBSET S, T # S, T \notin P PROVE FALSE
    <3>1. T \in Bad /\ S \in SUBSET C
      BY <1>1, <2>1
    <3>2. <<T, S>> \in R
      BY <2>1, <3>1 DEF StrictSubsetOrdering
    <3>. QED BY <1>1, <3>1, <3>2
  <2>. QED BY <2>1
<1>. QED BY <1>1, <1>2

\* c gives each set of pools the sum of their counters.
SumOf(c) ==
  /\ c \in [SUBSET Creds -> Int] /\ c[{}] = 0
  /\ \A S \in SUBSET Creds : \A a \in S : c[S] = c[S \ {a}] + pool[a].active

LEMMA CredsFinite == IsFiniteSet(Creds)
BY UserAssumption, FS_AddElement DEF Creds

\* The fold of AllCounted is that sum.
LEMMA SumIsFold ==
  ASSUME Typed, NEW c, SumOf(c)
  PROVE  MapThenSumSet(LAMBDA a : pool[a].active, Creds) = c[Creds]
<1> DEFINE Step(f) == [S \in SUBSET Creds |->
                         IF S = {} THEN 0
                         ELSE LET x == CHOOSE x \in S : TRUE IN pool[x].active + f[S \ {x}]]
           iter == CHOOSE f : f = Step(f)
<1>1. MapThenSumSet(LAMBDA a : pool[a].active, Creds) = iter[Creds]
  BY DEF MapThenSumSet, MapThenFoldSet
<1>2. \A S \in SUBSET Creds : S # {} =>
        LET x == CHOOSE x \in S : TRUE
        IN  x \in S /\ S \ {x} \in SUBSET Creds /\ c[S] = pool[x].active + c[S \ {x}]
  <2>1. ASSUME NEW S \in SUBSET Creds, NEW x \in S
        PROVE  S \ {x} \in SUBSET Creds /\ c[S] = pool[x].active + c[S \ {x}]
    <3>1. c[S] = c[S \ {x}] + pool[x].active /\ c[S] \in Int /\ c[S \ {x}] \in Int
      BY DEF SumOf
    <3>2. pool[x].active \in Int
      BY TypeParts DEF Typed, PoolType
    <3>. QED BY <3>1, <3>2
  <2>. QED BY <2>1
<1>3. c = Step(c)
  <2>1. \A S \in SUBSET Creds : c[S] = Step(c)[S]
    BY <1>2 DEF SumOf
  <2>2. c = [S \in SUBSET Creds |-> c[S]]
    BY DEF SumOf
  <2> DEFINE d == Step(c)
  <2>3. d = [S \in SUBSET Creds |-> d[S]]
    OBVIOUS
  <2> HIDE DEF d
  <2>. QED BY <2>1, <2>2, <2>3 DEF d
<1>4. iter = Step(iter)
  <2>1. \E f : f = Step(f)
    BY <1>3
  <2> HIDE DEF Step
  <2>. QED BY <2>1
<1> DEFINE P == {S \in SUBSET Creds : iter[S] = c[S]}
<1>5. {} \in P
  BY <1>4 DEF SumOf
<1>6. ASSUME NEW S \in SUBSET Creds, S # {}, \A T \in SUBSET S : T # S => T \in P
      PROVE  S \in P
  <2> DEFINE x == CHOOSE x \in S : TRUE
  <2>1. x \in S /\ S \ {x} \in SUBSET S /\ S \ {x} # S
    BY <1>6
  <2>2. iter[S \ {x}] = c[S \ {x}]
    BY <1>6, <2>1
  <2>3. iter[S] = pool[x].active + iter[S \ {x}]
    BY <1>4, <1>6
  <2>. QED BY <1>2, <1>6, <2>2, <2>3
<1> HIDE DEF iter, P
<1>7. SUBSET Creds \subseteq P
  BY <1>5, <1>6, CredsFinite, SubsetInduction
<1>. QED BY <1>1, <1>7 DEF P

AllSummed == \E c : SumOf(c) /\ c[Creds] = Cardinality(OpenStreams)

LEMMA AllSummedSays == Typed /\ AllSummed => AllCounted
BY SumIsFold DEF AllSummed, AllCounted

\* One counter moves by d, or none.
LEMMA SumMoves ==
  ASSUME Typed, AllSummed, NEW p \in Creds, NEW d \in Int,
         \A a \in Creds : pool'[a].active = IF a = p THEN pool[a].active + d ELSE pool[a].active,
         Cardinality(OpenStreams') = Cardinality(OpenStreams) + d
  PROVE  AllSummed'
<1>1. PICK c : SumOf(c) /\ c[Creds] = Cardinality(OpenStreams)
  BY DEF AllSummed
<1> DEFINE e == [S \in SUBSET Creds |-> IF p \in S THEN c[S] + d ELSE c[S]]
<1>2. e \in [SUBSET Creds -> Int] /\ e[{}] = 0 /\ e[Creds] = Cardinality(OpenStreams')
  BY <1>1 DEF SumOf
<1>3. ASSUME NEW S \in SUBSET Creds, NEW a \in S
      PROVE  e[S] = e[S \ {a}] + pool'[a].active
  <2>1. c[S] = c[S \ {a}] + pool[a].active /\ c[S] \in Int /\ c[S \ {a}] \in Int
    BY <1>1 DEF SumOf
  <2>2. pool[a].active \in Int
    BY TypeParts DEF Typed, PoolType
  <2>3. CASE a = p
    BY <2>1, <2>2, <2>3
  <2>4. CASE a # p
    BY <2>1, <2>2, <2>4
  <2>. QED BY <2>3, <2>4
<1> HIDE DEF e
<1>4. SumOf(e)'
  BY <1>2, <1>3 DEF SumOf
<1>. QED BY <1>2, <1>4 DEF AllSummed

LEMMA SumStays ==
  ASSUME AllSummed, \A a \in Creds : pool'[a].active = pool[a].active, OpenStreams' = OpenStreams
  PROVE  AllSummed'
<1>1. PICK c : SumOf(c) /\ c[Creds] = Cardinality(OpenStreams)
  BY DEF AllSummed
<1>2. SumOf(c)'
  BY <1>1 DEF SumOf
<1>. QED BY <1>1, <1>2 DEF AllSummed

LEMMA OpenFinite == IsFiniteSet(OpenStreams) /\ Cardinality(OpenStreams) \in Nat
BY StreamsAssumption, FS_Subset, FS_CardinalityType DEF OpenStreams

LEMMA OneCloses ==
  ASSUME NEW s \in Streams, server[s].open, OpenStreams' = OpenStreams \ {s}
  PROVE  Cardinality(OpenStreams') = Cardinality(OpenStreams) + (-1)
<1>1. s \in OpenStreams
  BY DEF OpenStreams
<1>. QED BY <1>1, OpenFinite, FS_RemoveElement

LEMMA SumNext ==
  ASSUME Typed, Owners, AllSummed, Kind
  PROVE  AllSummed'
<1>1. /\ sock \in [Objects -> Socks] /\ server \in [Streams -> Servers]
      /\ pool \in [Creds -> [idle : Seq(Streams), active : Int]]
  BY TypeParts DEF Typed, SockType, ServerType, PoolType
<1>2. CASE SameOwners
  BY <1>2, SumStays DEF SameOwners, OpenStreams
<1>3. ASSUME NEW o \in Objects, NEW force \in BOOLEAN, TakenFrom(o, force)
      PROVE  AllSummed'
  <2> DEFINE s == sock[o].stream
             p == PoolOf(sock[o])
  <2>1. s \in Streams \cup {None} /\ p \in Creds
    BY <1>1, PoolOfType DEF Socks
  <2>2. CASE s = None
    BY <1>3, <2>2, SumStays DEF TakenFrom, Disconnects, OpenStreams
  <2>3. CASE s # None /\ (force \/ sock[o].mode # "ATOMIC")
    <3>1. server' = [server EXCEPT ![s] = Closed] /\ pool' = [pool EXCEPT ![p].active = @ - 1]
      BY <1>3, <2>3 DEF TakenFrom, Disconnects
    <3>2. \A a \in Creds : pool'[a].active = IF a = p THEN pool[a].active + (-1) ELSE pool[a].active
      BY <1>1, <2>1, <3>1
    <3>3. OpenStreams' = OpenStreams \ {s}
      BY <1>1, <2>1, <2>3, <3>1 DEF OpenStreams, Closed, Servers
    <3>4. server[s].open
      BY <2>1, <2>3 DEF Owners, SomeOwner, Held
    <3> HIDE DEF s, p
    <3>. QED BY <2>1, <2>3, <3>2, <3>3, <3>4, OneCloses, SumMoves
  <2>4. CASE s # None /\ ~(force \/ sock[o].mode # "ATOMIC")
    <3>1. /\ server' = [server EXCEPT ![s].left = IF @ = "none" THEN @ ELSE "other"]
          /\ pool' = [pool EXCEPT ![p].idle = <<s>> \o @]
      BY <1>3, <2>4 DEF TakenFrom, Disconnects
    <3>2. \A a \in Creds : pool'[a].active = pool[a].active
      BY <1>1, <2>1, <3>1
    <3>3. OpenStreams' = OpenStreams
      BY <1>1, <2>1, <2>4, <3>1 DEF OpenStreams, Servers
    <3>. QED BY <3>2, <3>3, SumStays
  <2>. QED BY <2>2, <2>3, <2>4
<1>4. CASE Borrow
  <2>1. ~At("idle") /\ Idle # <<>>
    BY <1>4 DEF Borrow, Borrows, At
  <2>2. oldest \in Streams /\ own \in Creds
    BY <2>1, IdleTypes, SelfTypes
  <2>3. \A a \in Creds : pool'[a].active = pool[a].active
    BY <1>1, <1>4, <2>2 DEF Borrow
  <2>4. OpenStreams' = OpenStreams
    BY <1>1, <1>4, <2>2 DEF Borrow, Handed, OpenStreams, Servers
  <2>. QED BY <2>3, <2>4, SumStays
<1>5. CASE BorrowFails
  <2>1. ~At("idle") /\ Idle # <<>>
    BY <1>5 DEF BorrowFails, Borrows, At
  <2>2. oldest \in Streams /\ own \in Creds /\ server[oldest].open
    BY <2>1, IdleTypes, SelfTypes, OldestOnce DEF Owners, SomeOwner
  <2>3. \A a \in Creds : pool'[a].active = IF a = own THEN pool[a].active + (-1) ELSE pool[a].active
    BY <1>1, <1>5, <2>2 DEF BorrowFails
  <2>4. OpenStreams' = OpenStreams \ {oldest}
    BY <1>1, <1>5, <2>2 DEF BorrowFails, Closed, OpenStreams, Servers
  <2>5. Cardinality(OpenStreams') = Cardinality(OpenStreams) + (-1)
    BY <2>2, <2>4, OneCloses
  <2>. QED BY <2>2, <2>3, <2>5, SumMoves
<1>6. CASE Open
  <2>1. ~At("idle")
    BY <1>6 DEF Open, Opens, At
  <2>2. own \in Creds
    BY <2>1, SelfTypes
  <2>3. PICK s \in Streams : ~server[s].open /\ server' = [server EXCEPT ![s] = Opened]
    BY <1>6 DEF Open
  <2>4. \A a \in Creds : pool'[a].active = IF a = own THEN pool[a].active + 1 ELSE pool[a].active
    BY <1>1, <1>6, <2>2 DEF Open
  <2>5. OpenStreams' = OpenStreams \cup {s} /\ s \notin OpenStreams
    BY <1>1, <2>3 DEF Opened, Closed, OpenStreams, Servers
  <2>6. Cardinality(OpenStreams') = Cardinality(OpenStreams) + 1
    BY <2>5, OpenFinite, FS_AddElement
  <2>. QED BY <2>2, <2>4, <2>6, SumMoves
<1>. QED BY <1>2, <1>3, <1>4, <1>5, <1>6 DEF Kind

LEMMA SumInit == Init => AllSummed
<1> SUFFICES ASSUME Init PROVE AllSummed
  OBVIOUS
<1> DEFINE c == [S \in SUBSET Creds |-> 0]
<1>1. OpenStreams = {}
  BY DEF Init, Closed, OpenStreams
<1>2. \A a \in Creds : pool[a].active = 0
  BY DEF Init
<1>3. SumOf(c)
  BY <1>2 DEF SumOf
<1>4. c[Creds] = 0
  OBVIOUS
<1>. QED BY <1>1, <1>3, <1>4, FS_EmptySet DEF AllSummed

PoolsInv == Typed /\ Owners /\ EachCounted /\ AllSummed

LEMMA AlwaysPooled == Spec => []PoolsInv
<1>1. Init => PoolsInv
  BY InitTyped, OwnersInit, EachInit, SumInit DEF PoolsInv
<1>2. PoolsInv /\ [Next]_vars => PoolsInv'
  BY NextTyped, OwnersNext, EachNext, Kinds, SumNext DEF PoolsInv
<1>. QED BY <1>1, <1>2, PTL DEF Spec

\* However many objects, pools and streams there are, a stream is with one object or once in one pool
\* until it is closed, and nb_active counts what connection_limit is to limit
\* (redis_sock_connect_impl, redis_sock_disconnect of library.c).
THEOREM StreamsAccounted == Spec => []Accounted
<1>1. PoolsInv => Accounted
  BY OwnersOneOwner, AllSummedSays DEF PoolsInv, Accounted
<1>. QED BY <1>1, AlwaysPooled, PTL

-----------------------------------------------------------------------------
(* What is unread, and the sessions of the streams. *)

\* What an earlier owner left is on the stream of an object only where no check could see it; in a pool
\* it is nobody's own.
Leftovers ==
  /\ \A s \in Streams : server[s].left = "none" <=> server[s].where = "none"
  /\ \A o \in Objects : sock[o].stream # None =>
       /\ server[sock[o].stream].left = "other"   => ~ini.echo /\ ini.dirty = 0
       /\ server[sock[o].stream].left = "slipped" => ~ini.echo
  /\ \A s \in Streams : Pooled(s) => server[s].left \in {"none", "other"}

\* What the server holds for a stream is what RedisSock k has recorded, as far as its status says.
Session(k, s, rekeyed) ==
  /\ s.tx => k.mode = "MULTI"
  /\ s.watch /\ ~s.reused => k.watching
  /\ k.status = "READY" /\ (k.db # 0 \/ ~s.reused) => s.db = k.db
  /\ ~s.reused => s.db \in {0, k.db}
  /\ k.status \in {"AUTHENTICATED", "READY"} /\ (k.auth # NoAuth \/ ~s.reused) /\ ~rekeyed => s.user = k.auth
  /\ k.status = "CONNECTED" /\ ~s.reused => s.user \in {NoAuth, k.auth}

Rekeying(o) == call.o = o /\ call.m = "auth" /\ call.pc = "run"
Known(s) == s.alive /\ ~s.astray
Fresh == call.m = "reconnect" /\ call.pc \in {"auth", "select"}

Sessions ==
  /\ \A o \in Objects : sock[o].stream # None /\ Known(server[sock[o].stream]) =>
       Session(sock[o], server[sock[o].stream], Rekeying(o))
  /\ \A s \in Streams : Pooled(s) /\ Known(server[s]) => ~server[s].tx
  /\ Fresh => ~server[stream].reused

StreamsInv == Typed /\ Owners /\ Leftovers /\ OwnReplies /\ Sessions

\* A step that leaves the streams and the pools as they are, and sockets and calls as far as Sessions
\* looks at them.
LEMMA StreamsSame ==
  ASSUME StreamsInv, UNCHANGED <<ini, pool, server, torn>>,
         \A o \in Objects : /\ sock'[o].stream = sock[o].stream
                            /\ sock[o].stream # None => sock'[o] = sock[o] /\ (Rekeying(o) => Rekeying(o)'),
         Fresh' => Fresh /\ stream' = stream
  PROVE  Leftovers' /\ OwnReplies' /\ Sessions'
<1>1. Leftovers'
  BY DEF StreamsInv, Leftovers, Pooled
<1>2. OwnReplies'
  BY DEF StreamsInv, OwnReplies
<1>3. \A o \in Objects : sock'[o].stream # None /\ Known(server'[sock'[o].stream]) =>
       Session(sock'[o], server'[sock'[o].stream], Rekeying(o)')
  BY DEF StreamsInv, Sessions, Session
<1>4. Sessions'
  BY <1>3 DEF StreamsInv, Sessions, Known, Pooled
<1>. QED BY <1>1, <1>2, <1>4

\* A step of the object that runs on its stream: the RedisSock becomes k, the stream d.
OnStream(k, d) ==
  /\ sock' = [sock EXCEPT ![self] = k] /\ k.stream = stream
  /\ server' = [server EXCEPT ![stream] = d] /\ d.reused = server[stream].reused
  /\ \/ d.left = server[stream].left /\ d.where = server[stream].where
     \/ d.left = "own" /\ d.where # "none"
  /\ torn' \subseteq torn \cup ({server[stream].left} \ {"none"})
  /\ UNCHANGED <<ini, pool>>

LEMMA StreamsOn ==
  ASSUME StreamsInv, self \in Objects, stream \in Streams, NEW k \in Socks, NEW d \in Servers, OnStream(k, d),
         Known(d) => Session(k, d, Rekeying(self)'),
         call' = NoCall \/ call'.o = call.o, Fresh' => Fresh
  PROVE  Leftovers' /\ OwnReplies' /\ Sessions'
<1>1. /\ sock \in [Objects -> Socks] /\ server \in [Streams -> Servers]
      /\ pool \in [Creds -> [idle : Seq(Streams), active : Int]]
  BY TypeParts DEF StreamsInv, Typed, SockType, ServerType, PoolType
<1>2. sock[self].stream = stream /\ stream # None
  BY NoneAssumption DEF stream, mine
<1>3. \A o \in Objects : sock'[o] = IF o = self THEN k ELSE sock[o]
  BY <1>1 DEF OnStream
<1>4. \A s \in Streams : server'[s] = IF s = stream THEN d ELSE server[s]
  BY <1>1 DEF OnStream
<1>5. \A o \in Objects : o # self => sock[o].stream # stream
  BY <1>2 DEF StreamsInv, Owners, OneHolder
<1>6. ~Pooled(stream)
  BY <1>1, <1>2 DEF Pooled, StreamsInv, Owners, NotBoth
<1>7. UNCHANGED <<ini, pool>> /\ k.stream = stream /\ \A s \in Streams : Pooled(s)' <=> Pooled(s)
  BY DEF OnStream, Pooled
<1>8. /\ \A o \in Objects : sock[o].stream \in Streams \cup {None}
      /\ \A o \in Objects : o # self /\ sock'[o].stream # None =>
           sock'[o] = sock[o] /\ server'[sock'[o].stream] = server[sock[o].stream]
      /\ sock'[self] = k /\ server'[stream] = d
  BY <1>1, <1>3, <1>4, <1>5 DEF Socks
<1>9. Leftovers'
  <2>1. \A s \in Streams : server'[s].left = "none" <=> server'[s].where = "none"
    BY <1>4 DEF OnStream, StreamsInv, Leftovers
  <2>2. /\ d.left = "other" => ~ini.echo /\ ini.dirty = 0
        /\ d.left = "slipped" => ~ini.echo
    BY <1>2 DEF OnStream, StreamsInv, Leftovers
  <2>3. ASSUME NEW o \in Objects, sock'[o].stream # None
        PROVE  /\ server'[sock'[o].stream].left = "other" => ~ini'.echo /\ ini'.dirty = 0
               /\ server'[sock'[o].stream].left = "slipped" => ~ini'.echo
    <3>1. CASE o = self
      BY <1>7, <1>8, <2>2, <3>1
    <3>2. CASE o # self
      BY <1>7, <1>8, <2>3, <3>2 DEF StreamsInv, Leftovers
    <3>. QED BY <3>1, <3>2
  <2>4. \A s \in Streams : Pooled(s)' => server'[s].left \in {"none", "other"}
    BY <1>4, <1>6, <1>7 DEF StreamsInv, Leftovers
  <2>. QED BY <2>1, <2>3, <2>4 DEF Leftovers
<1>10. OwnReplies'
  <2>1. /\ server[stream].left = "other" => ~ini.echo /\ ini.dirty = 0
        /\ server[stream].left = "slipped" => ~ini.echo
    BY <1>2 DEF StreamsInv, Leftovers
  <2>. QED BY <1>7, <2>1 DEF OnStream, StreamsInv, OwnReplies
<1>11. Sessions'
  <2>1. ASSUME NEW o \in Objects, sock'[o].stream # None, Known(server'[sock'[o].stream])
        PROVE  Session(sock'[o], server'[sock'[o].stream], Rekeying(o)')
    <3>1. CASE o = self
      <4>1. (Rekeying(self)' <=> Rekeying(o)')
        BY <3>1 DEF Rekeying, self, NoCall
      <4>2. sock'[o] = k /\ server'[sock'[o].stream] = d
        BY <1>7, <1>8, <3>1
      <4>3. Session(k, d, Rekeying(self)')
        BY <2>1, <4>2
      <4>4. Session(k, d, Rekeying(o)')
        BY <4>1, <4>3 DEF Session
      <4>. QED BY <4>2, <4>4
    <3>2. CASE o # self
      <4>1. ~Rekeying(o)
        BY <3>2 DEF Rekeying, self
      <4>2. sock[o].stream # None /\ Known(server[sock[o].stream])
        BY <1>8, <2>1, <3>2
      <4>3. Session(sock[o], server[sock[o].stream], Rekeying(o))
        BY <4>2 DEF StreamsInv, Sessions
      <4>4. Session(sock[o], server[sock[o].stream], Rekeying(o)')
        BY <4>1, <4>3 DEF Session
      <4>. QED BY <1>8, <2>1, <3>2, <4>4
    <3>. QED BY <3>1, <3>2
  <2>2. \A s \in Streams : Pooled(s)' /\ Known(server'[s]) => ~server'[s].tx
    BY <1>4, <1>6, <1>7 DEF StreamsInv, Sessions
  <2>3. Fresh' => ~(server[stream].reused)'
    <3>1. Fresh' => stream' = stream /\ ~server[stream].reused
      BY <1>7, <1>8 DEF StreamsInv, Sessions, stream, mine, self, Fresh, NoCall
    <3>. QED BY <1>8, <3>1 DEF OnStream
  <2>. QED BY <2>1, <2>2, <2>3 DEF Sessions
<1>. QED BY <1>9, <1>10, <1>11

\* An exchange leaves the stream as the command done does, or astray.
LEMMA ExchangeOn ==
  ASSUME StreamsInv, NEW done \in Servers, Exchange(done), NEW k \in Socks, k.stream = stream,
         sock' = [sock EXCEPT ![self] = k],
         done.left = server[stream].left, done.where = server[stream].where, done.reused = server[stream].reused
  PROVE  \E d \in Servers : OnStream(k, d) /\ (d.astray \/ (d = done /\ server[stream].left = "none"))
<1>1. UNCHANGED <<ini, pool, rekeys>>
  BY DEF Exchange
<1>2. CASE server[stream].left = "none"
  <2>1. server' = [server EXCEPT ![stream] = done] /\ UNCHANGED torn
    BY <1>2 DEF Exchange
  <2>2. OnStream(k, done)
    BY <1>1, <2>1 DEF OnStream
  <2>. QED BY <1>2, <2>2
<1>3. CASE server[stream].left # "none"
  <2>1. PICK w \in {"socket", "buffer"} :
          server' = [server EXCEPT ![stream] = [done EXCEPT !.left = "own", !.where = w, !.astray = TRUE]]
    BY <1>3 DEF Exchange
  <2>2. torn' = torn \cup ({server[stream].left} \ {"own"})
    BY <1>3 DEF Exchange
  <2> DEFINE d == [done EXCEPT !.left = "own", !.where = w, !.astray = TRUE]
  <2>3. d \in Servers /\ d.left = "own" /\ d.where # "none" /\ d.astray /\ d.reused = done.reused
    BY DEF Servers
  <2> HIDE DEF d
  <2>4. OnStream(k, d)
    BY <1>1, <1>3, <2>1, <2>2, <2>3 DEF OnStream, d
  <2>. QED BY <2>3, <2>4
<1>. QED BY <1>2, <1>3

\* It is enough to look at what the command does on a stream where nothing was left.
LEMMA StreamsExchange ==
  ASSUME StreamsInv, NEW done \in Servers, Exchange(done), NEW k \in Socks, k.stream = stream,
         sock' = [sock EXCEPT ![self] = k],
         done.left = server[stream].left, done.where = server[stream].where, done.reused = server[stream].reused,
         Known(done) => Session(k, done, Rekeying(self)'),
         call' = NoCall \/ call'.o = call.o, Fresh' => Fresh
  PROVE  Leftovers' /\ OwnReplies' /\ Sessions'
<1>1. self \in Objects /\ stream \in Streams
  BY WritesAfterConnect DEF Exchange, StreamsInv
<1>2. PICK d \in Servers : OnStream(k, d) /\ (d.astray \/ d = done)
  BY ExchangeOn
<1>3. Known(d) => Session(k, d, Rekeying(self)')
  BY <1>2 DEF Known
<1>. QED BY <1>1, <1>2, <1>3, StreamsOn

\* The stream and the RedisSock of the object that runs.
LEMMA SelfSession ==
  ASSUME StreamsInv, ~(At("idle") \/ At("connect") \/ At("open"))
  PROVE  /\ self \in Objects /\ mine \in Socks /\ stream \in Streams /\ server[stream] \in Servers
         /\ sock[self] = mine /\ mine.stream = stream /\ sock = [sock EXCEPT ![self] = mine] /\ Underway
         /\ Known(server[stream]) => Session(mine, server[stream], Rekeying(self))
<1>1. self \in Objects /\ mine \in Socks /\ stream \in Streams /\ Underway
  BY SelfTypes DEF StreamsInv
<1>2. sock \in [Objects -> Socks] /\ server \in [Streams -> Servers]
  BY TypeParts DEF StreamsInv, Typed, SockType, ServerType
<1>3. sock[self] = mine /\ mine.stream = stream
  BY DEF mine, stream
<1>4. Known(server[stream]) => Session(mine, server[stream], Rekeying(self))
  BY <1>1, <1>3, NoneAssumption DEF StreamsInv, Sessions
<1>. QED BY <1>1, <1>2, <1>3, <1>4

\* A refusal changes nothing that was known.
LEMMA StreamsRefused ==
  ASSUME StreamsInv, NEW done \in Servers, Refused(done), UNCHANGED sock, call' = NoCall,
         done.left = server[stream].left, done.where = server[stream].where, done.reused = server[stream].reused,
         ~Rekeying(self)
  PROVE  Leftovers' /\ OwnReplies' /\ Sessions'
<1>1. Writes /\ ~(At("idle") \/ At("connect") \/ At("open"))
  BY DEF Refused, Exchange, Writes, At
<1>0. Known(server[stream]) => Session(mine, server[stream], FALSE)
  BY <1>1, SelfSession DEF Session
<1>2. /\ self \in Objects /\ mine \in Socks /\ stream \in Streams /\ server[stream] \in Servers
      /\ sock[self] = mine /\ mine.stream = stream /\ sock' = [sock EXCEPT ![self] = mine]
      /\ Known(server[stream]) => Session(mine, server[stream], FALSE)
  BY <1>1, <1>0, SelfSession
<1>3. ~Fresh'
  BY DEF Fresh, NoCall
<1>4. Known(server[stream]) => Session(mine, server[stream], Rekeying(self)')
  BY <1>2 DEF Session
<1>5. CASE Exchange(server[stream])
  BY <1>2, <1>3, <1>4, <1>5, StreamsExchange
<1>6. CASE server[stream].left # "none" /\ Exchange(done)
  <2>1. PICK d \in Servers : OnStream(mine, d) /\ (d.astray \/ (d = done /\ server[stream].left = "none"))
    BY <1>2, <1>6, ExchangeOn
  <2>2. ~Known(d)
    BY <1>6, <2>1 DEF Known
  <2>. QED BY <1>2, <1>3, <2>1, <2>2, StreamsOn
<1>. QED BY <1>5, <1>6 DEF Refused

LEMMA StreamsAuth ==
  ASSUME StreamsInv, Auth
  PROVE  Leftovers' /\ OwnReplies' /\ Sessions'
<1> DEFINE k == [mine EXCEPT !.status = "AUTHENTICATED"]
<1>1. At("auth") /\ ~(At("idle") \/ At("connect") \/ At("open"))
  BY DEF Auth, At
<1>2. /\ self \in Objects /\ mine \in Socks /\ stream \in Streams /\ server[stream] \in Servers
      /\ sock[self] = mine /\ mine.stream = stream /\ Underway
      /\ Known(server[stream]) => Session(mine, server[stream], FALSE)
  BY <1>1, SelfSession DEF Rekeying, At
<1>3. sock' = [sock EXCEPT ![self] = k] /\ call' = [call EXCEPT !.pc = "select"]
  BY DEF Auth, Authenticated, Becomes, GoTo
<1>4. /\ k \in Socks /\ k.stream = stream /\ k.status = "AUTHENTICATED" /\ k.db = mine.db /\ k.auth = mine.auth
      /\ k.mode = mine.mode /\ k.watching = mine.watching
  BY <1>2 DEF Socks, Statuses
<1>5. mine.status \in {"CONNECTED", "READY"}
  BY <1>1, <1>2 DEF Underway, At
<1>6. call \in CallRecs
  BY TypeParts DEF StreamsInv, Typed, CallType
<1>7. (Fresh' => Fresh) /\ call'.o = call.o
  BY <1>1, <1>3, <1>6 DEF Fresh, At, CallRecs
<1> HIDE DEF k
<1>8. CASE mine.auth = NoAuth
  <2>1. UNCHANGED <<ini, pool, server, torn>>
    BY <1>8 DEF Auth, Stays
  <2>2. server' = [server EXCEPT ![stream] = server[stream]]
    BY <1>2, <2>1, TypeParts DEF StreamsInv, Typed, ServerType
  <2>3. OnStream(k, server[stream])
    BY <1>3, <1>4, <2>1, <2>2 DEF OnStream
  <2>4. Known(server[stream]) => Session(k, server[stream], Rekeying(self)')
    BY <1>2, <1>4, <1>5, <1>8 DEF Session
  <2>. QED BY <1>2, <1>4, <1>7, <2>3, <2>4, StreamsOn
<1>9. CASE mine.auth # NoAuth
  <2>1. Exchange(Authed)
    BY <1>9 DEF Auth
  <2>2. /\ Authed \in Servers /\ Authed.user = mine.auth
        /\ Authed.left = server[stream].left /\ Authed.where = server[stream].where
        /\ Authed.reused = server[stream].reused /\ Authed.db = server[stream].db /\ Authed.tx = server[stream].tx
        /\ Authed.watch = server[stream].watch
        /\ Authed.alive = server[stream].alive /\ Authed.astray = server[stream].astray
    BY <1>2 DEF Authed, Servers, Socks
  <2>3. Known(Authed) => Session(k, Authed, Rekeying(self)')
    BY <1>2, <1>4, <1>5, <2>2 DEF Session, Known
  <2>. QED BY <1>3, <1>4, <1>7, <2>1, <2>2, <2>3, StreamsExchange
<1>. QED BY <1>8, <1>9

LEMMA StreamsSelect ==
  ASSUME StreamsInv, Select
  PROVE  Leftovers' /\ OwnReplies' /\ Sessions'
<1> DEFINE k == [mine EXCEPT !.status = "READY"]
<1>1. At("select") /\ ~(At("idle") \/ At("connect") \/ At("open"))
  BY DEF Select, At
<1>2. /\ self \in Objects /\ mine \in Socks /\ stream \in Streams /\ server[stream] \in Servers
      /\ sock[self] = mine /\ mine.stream = stream /\ Underway
      /\ Known(server[stream]) => Session(mine, server[stream], FALSE)
  BY <1>1, SelfSession DEF Rekeying, At
<1>3. sock' = [sock EXCEPT ![self] = k]
  BY DEF Select, Ready, Becomes
<1>4. /\ k \in Socks /\ k.stream = stream /\ k.status = "READY" /\ k.db = mine.db /\ k.auth = mine.auth
      /\ k.mode = mine.mode /\ k.watching = mine.watching
  BY <1>2 DEF Socks, Statuses
<1>5. mine.status \in {"AUTHENTICATED", "READY"}
  BY <1>1, <1>2 DEF Underway, At
<1>6. call \in CallRecs /\ call.via \in {"open", "eof", "reconnect"}
  BY <1>1, <1>2, TypeParts DEF StreamsInv, Typed, CallType, CallRecs, Underway, At
<1>7. ~Fresh'
  <2>1. call.via \in {"open", "eof"} => call'.m = call.m /\ call.m # "reconnect"
    BY <1>2, <1>6 DEF Select, Ready, GoTo, CallRecs, Underway
  <2>2. call.via = "reconnect" => call' = NoCall
    BY DEF Select, Ready, Returns
  <2>. QED BY <1>6, <2>1, <2>2 DEF Fresh, NoCall
<1>10. call' = NoCall \/ call'.o = call.o
  BY <1>6 DEF Select, Ready, GoTo, Returns, CallRecs
<1> HIDE DEF k
<1>8. CASE mine.db = 0
  <2>1. UNCHANGED <<ini, pool, server, torn>>
    BY <1>8 DEF Select, Stays
  <2>2. server' = [server EXCEPT ![stream] = server[stream]]
    BY <1>2, <2>1, TypeParts DEF StreamsInv, Typed, ServerType
  <2>3. OnStream(k, server[stream])
    BY <1>3, <1>4, <2>1, <2>2 DEF OnStream
  <2>4. Known(server[stream]) => Session(k, server[stream], Rekeying(self)')
    BY <1>2, <1>4, <1>5, <1>8 DEF Session
  <2>. QED BY <1>2, <1>4, <1>7, <1>10, <2>3, <2>4, StreamsOn
<1>9. CASE mine.db # 0
  <2>1. Exchange(Selected)
    BY <1>9 DEF Select
  <2>2. /\ Selected \in Servers /\ Selected.db = mine.db
        /\ Selected.left = server[stream].left /\ Selected.where = server[stream].where
        /\ Selected.reused = server[stream].reused /\ Selected.user = server[stream].user
        /\ Selected.tx = server[stream].tx /\ Selected.watch = server[stream].watch
        /\ Selected.alive = server[stream].alive /\ Selected.astray = server[stream].astray
    BY <1>2 DEF Selected, Servers, Socks
  <2>3. Known(Selected) => Session(k, Selected, Rekeying(self)')
    BY <1>2, <1>4, <1>5, <2>2 DEF Session, Known
  <2>. QED BY <1>3, <1>4, <1>7, <1>10, <2>1, <2>2, <2>3, StreamsExchange
<1>. QED BY <1>8, <1>9

LEMMA StreamsRun ==
  ASSUME StreamsInv, Runs, ~Close
  PROVE  Leftovers' /\ OwnReplies' /\ Sessions'
<1>1. At("run") /\ ~(At("idle") \/ At("connect") \/ At("open"))
  BY DEF Runs, Command, CommandStopsShort, SelectDb, StoreAuth, SendAuth, Watch, Multi, Pipeline, Exec, Close,
         Running, At
<1>2. /\ self \in Objects /\ mine \in Socks /\ stream \in Streams /\ server[stream] \in Servers
      /\ sock[self] = mine /\ mine.stream = stream /\ sock = [sock EXCEPT ![self] = mine] /\ Underway
      /\ Known(server[stream]) => Session(mine, server[stream], Rekeying(self))
  BY <1>1, SelfSession
<1>3. mine.status = "READY" /\ server \in [Streams -> Servers] /\ sock \in [Objects -> Socks]
  BY <1>1, <1>2, TypeParts DEF Underway, At, StreamsInv, Typed, ServerType, SockType
<1>4. call' = NoCall => ~Fresh' /\ ~Rekeying(self)'
  BY <1>2, NoneAssumption DEF Fresh, Rekeying, NoCall
<1>5. call.m # "auth" => (Known(server[stream]) => Session(mine, server[stream], FALSE))
  BY <1>2 DEF Rekeying
<1>6. CASE Command
  <2>1. call' = NoCall /\ UNCHANGED sock /\ call.m = "command"
    BY <1>6 DEF Command, Returns, Running
  <2>2. Known(server[stream]) => Session(mine, server[stream], Rekeying(self)')
    BY <1>5, <2>1 DEF Session
  <2>3. CASE Writes
    BY <1>2, <1>4, <1>6, <2>1, <2>2, <2>3, StreamsExchange DEF Command
  <2>4. CASE ~Writes
    <3>1. UNCHANGED <<ini, pool, server, torn>>
      BY <1>6, <2>4 DEF Command, Stays
    <3>2. OnStream(mine, server[stream])
      BY <1>2, <1>3, <2>1, <3>1 DEF OnStream
    <3>. QED BY <1>2, <1>4, <2>1, <2>2, <3>2, StreamsOn
  <2>. QED BY <2>3, <2>4
<1>7. CASE CommandStopsShort
  <2> DEFINE d == [server[stream] EXCEPT !.left = "own", !.where = "late"]
  <2>1. /\ call' = NoCall /\ UNCHANGED <<sock, pool, ini, torn>> /\ call.m = "command"
        /\ server' = [server EXCEPT ![stream].left = "own", ![stream].where = "late"]
    BY <1>7 DEF CommandStopsShort, Returns, Running, Stays
  <2>2. server' = [server EXCEPT ![stream] = d]
    BY <1>2, <1>3, <2>1 DEF Servers
  <2>3. /\ d \in Servers /\ d.left = "own" /\ d.where = "late" /\ d.reused = server[stream].reused
        /\ d.db = server[stream].db /\ d.user = server[stream].user /\ d.tx = server[stream].tx
        /\ d.watch = server[stream].watch /\ d.alive = server[stream].alive /\ d.astray = server[stream].astray
    BY <1>2 DEF Servers
  <2> HIDE DEF d
  <2>4. OnStream(mine, d)
    BY <1>2, <2>1, <2>2, <2>3 DEF OnStream
  <2>5. Known(d) => Session(mine, d, Rekeying(self)')
    BY <1>5, <2>1, <2>3 DEF Session, Known
  <2>. QED BY <1>2, <1>4, <2>1, <2>3, <2>4, <2>5, StreamsOn
<1>8. CASE SelectDb
  <2> DEFINE k == [mine EXCEPT !.db = call.arg]
             d == [server[stream] EXCEPT !.db = call.arg]
  <2>1. /\ call' = NoCall /\ call.m = "select" /\ call.arg \in AllDbs
        /\ (Exchange(d) /\ sock' = [sock EXCEPT ![self] = k]) \/ (Refused(d) /\ UNCHANGED sock)
    BY <1>2, <1>8 DEF SelectDb, Returns, Running, Becomes, Underway
  <2>2. /\ k \in Socks /\ k.stream = stream /\ k.status = "READY" /\ k.db = call.arg /\ k.auth = mine.auth
        /\ k.mode = mine.mode /\ k.watching = mine.watching
    BY <1>2, <1>3, <2>1 DEF Socks
  <2>3. /\ d \in Servers /\ d.left = server[stream].left /\ d.where = server[stream].where
        /\ d.reused = server[stream].reused
        /\ d.db = call.arg /\ d.user = server[stream].user /\ d.tx = server[stream].tx
        /\ d.watch = server[stream].watch /\ d.alive = server[stream].alive /\ d.astray = server[stream].astray
    BY <1>2, <2>1 DEF Servers
  <2> HIDE DEF k, d
  <2>4. Known(d) => Session(k, d, Rekeying(self)')
    BY <1>3, <1>5, <2>1, <2>2, <2>3 DEF Session, Known
  <2>5. ~Rekeying(self)
    BY <2>1 DEF Rekeying
  <2>. QED BY <1>4, <2>1, <2>2, <2>3, <2>4, <2>5, StreamsExchange, StreamsRefused
<1>9. CASE StoreAuth
  <2> DEFINE k == [mine EXCEPT !.auth = call.arg]
  <2>1. /\ sock' = [sock EXCEPT ![self] = k] /\ UNCHANGED <<ini, pool, server, call, torn>>
        /\ call.m = "auth" /\ call.arg \in Creds
    BY <1>2, <1>9 DEF StoreAuth, Becomes, Running, Underway, Creds
  <2>2. /\ k \in Socks /\ k.stream = stream /\ k.status = "READY" /\ k.db = mine.db
        /\ k.mode = mine.mode /\ k.watching = mine.watching
    BY <1>2, <1>3, <2>1 DEF Socks
  <2> HIDE DEF k
  <2>3. OnStream(k, server[stream])
    BY <1>2, <1>3, <2>1, <2>2 DEF OnStream
  <2>4. Rekeying(self)'
    BY <1>1, <2>1 DEF Rekeying, self, At
  <2>5. Known(server[stream]) => Session(k, server[stream], Rekeying(self)')
    BY <1>2, <1>3, <2>2, <2>4 DEF Session
  <2>6. ~Fresh' /\ call'.o = call.o
    BY <2>1 DEF Fresh
  <2>. QED BY <1>2, <2>2, <2>3, <2>5, <2>6, StreamsOn
<1>10. CASE SendAuth
  <2> DEFINE d == [server[stream] EXCEPT !.astray = TRUE]
  <2>1. call' = NoCall /\ UNCHANGED sock /\ (Exchange(Authed) \/ Exchange(d))
    BY <1>10 DEF SendAuth, Returns
  <2>2. /\ Authed \in Servers /\ Authed.user = mine.auth
        /\ Authed.left = server[stream].left /\ Authed.where = server[stream].where
        /\ Authed.reused = server[stream].reused /\ Authed.db = server[stream].db /\ Authed.tx = server[stream].tx
        /\ Authed.watch = server[stream].watch
        /\ Authed.alive = server[stream].alive /\ Authed.astray = server[stream].astray
    BY <1>2 DEF Authed, Servers, Socks
  <2>3. /\ d \in Servers /\ d.left = server[stream].left /\ d.where = server[stream].where
        /\ d.reused = server[stream].reused /\ d.astray
    BY <1>2 DEF Servers
  <2> HIDE DEF d
  <2>4. Known(Authed) => Session(mine, Authed, Rekeying(self)')
    BY <1>2, <1>3, <2>2 DEF Session, Known
  <2>5. ~Known(d)
    BY <2>3 DEF Known
  <2>. QED BY <1>2, <1>4, <2>1, <2>2, <2>3, <2>4, <2>5, StreamsExchange
<1>11. CASE Watch
  <2> DEFINE k == [mine EXCEPT !.watching = TRUE]
             d == [server[stream] EXCEPT !.watch = TRUE]
  <2>1. /\ call' = NoCall /\ call.m = "watch"
        /\ (Exchange(d) /\ sock' = [sock EXCEPT ![self] = k]) \/ (Refused(d) /\ UNCHANGED sock)
    BY <1>11 DEF Watch, Returns, Running, Becomes
  <2>2. /\ k \in Socks /\ k.stream = stream /\ k.status = "READY" /\ k.db = mine.db /\ k.auth = mine.auth
        /\ k.mode = mine.mode /\ k.watching
    BY <1>2, <1>3 DEF Socks
  <2>3. /\ d \in Servers /\ d.left = server[stream].left /\ d.where = server[stream].where
        /\ d.reused = server[stream].reused
        /\ d.db = server[stream].db /\ d.user = server[stream].user /\ d.tx = server[stream].tx
        /\ d.alive = server[stream].alive /\ d.astray = server[stream].astray
    BY <1>2 DEF Servers
  <2> HIDE DEF k, d
  <2>4. Known(d) => Session(k, d, Rekeying(self)')
    BY <1>3, <1>5, <2>1, <2>2, <2>3 DEF Session, Known
  <2>5. ~Rekeying(self)
    BY <2>1 DEF Rekeying
  <2>. QED BY <1>4, <2>1, <2>2, <2>3, <2>4, <2>5, StreamsExchange, StreamsRefused
<1>12. CASE Multi
  <2> DEFINE k == [mine EXCEPT !.mode = "MULTI"]
             d == [server[stream] EXCEPT !.tx = TRUE]
  <2>1. /\ call' = NoCall /\ call.m = "multi"
        /\ (Exchange(d) /\ sock' = [sock EXCEPT ![self] = k]) \/ (Refused(d) /\ UNCHANGED sock)
    BY <1>12 DEF Multi, Returns, Running, Becomes
  <2>2. /\ k \in Socks /\ k.stream = stream /\ k.status = "READY" /\ k.db = mine.db /\ k.auth = mine.auth
        /\ k.mode = "MULTI" /\ k.watching = mine.watching
    BY <1>2, <1>3 DEF Socks
  <2>3. /\ d \in Servers /\ d.left = server[stream].left /\ d.where = server[stream].where
        /\ d.reused = server[stream].reused
        /\ d.db = server[stream].db /\ d.user = server[stream].user /\ d.watch = server[stream].watch
        /\ d.alive = server[stream].alive /\ d.astray = server[stream].astray
    BY <1>2 DEF Servers
  <2> HIDE DEF k, d
  <2>4. Known(d) => Session(k, d, Rekeying(self)')
    BY <1>3, <1>5, <2>1, <2>2, <2>3 DEF Session, Known
  <2>5. ~Rekeying(self)
    BY <2>1 DEF Rekeying
  <2>. QED BY <1>4, <2>1, <2>2, <2>3, <2>4, <2>5, StreamsExchange, StreamsRefused
<1>13. CASE Pipeline
  <2> DEFINE k == [mine EXCEPT !.mode = "PIPELINE"]
  <2>1. /\ call' = NoCall /\ call.m = "pipeline" /\ sock' = [sock EXCEPT ![self] = k]
        /\ UNCHANGED <<ini, pool, server, torn>>
    BY <1>13 DEF Pipeline, Returns, Running, Becomes, Stays
  <2>2. /\ k \in Socks /\ k.stream = stream /\ k.status = "READY" /\ k.db = mine.db /\ k.auth = mine.auth
        /\ k.watching = mine.watching
    BY <1>2, <1>3 DEF Socks
  <2>3. mine.mode = "ATOMIC"
    BY <1>2, <2>1 DEF Underway
  <2> HIDE DEF k
  <2>4. OnStream(k, server[stream])
    BY <1>2, <1>3, <2>1, <2>2 DEF OnStream
  <2>5. Known(server[stream]) => Session(k, server[stream], Rekeying(self)')
    BY <1>3, <1>5, <2>1, <2>2, <2>3 DEF Session
  <2>. QED BY <1>2, <1>4, <2>1, <2>2, <2>4, <2>5, StreamsOn
<1>14. CASE Exec
  <2> DEFINE k == [mine EXCEPT !.mode = "ATOMIC", !.watching = IF mine.mode = "MULTI" THEN FALSE ELSE @]
             d == IF mine.mode = "MULTI" THEN [server[stream] EXCEPT !.tx = FALSE, !.watch = FALSE] ELSE server[stream]
  <2>1. call' = NoCall /\ call.m = "exec" /\ Exchange(d) /\ sock' = [sock EXCEPT ![self] = k]
    BY <1>14 DEF Exec, Returns, Running, Becomes
  <2>2. /\ k \in Socks /\ k.stream = stream /\ k.status = "READY" /\ k.db = mine.db /\ k.auth = mine.auth
        /\ mine.mode # "MULTI" => k.watching = mine.watching
    BY <1>2, <1>3 DEF Socks
  <2>3. /\ d \in Servers /\ d.left = server[stream].left /\ d.where = server[stream].where
        /\ d.reused = server[stream].reused /\ d.db = server[stream].db /\ d.user = server[stream].user
        /\ d.alive = server[stream].alive /\ d.astray = server[stream].astray
        /\ IF mine.mode = "MULTI" THEN ~d.tx /\ ~d.watch ELSE d = server[stream]
    BY <1>2 DEF Servers
  <2> HIDE DEF k, d
  <2>4. Known(d) => Session(k, d, Rekeying(self)')
    BY <1>3, <1>5, <2>1, <2>2, <2>3 DEF Session, Known
  <2>. QED BY <1>4, <2>1, <2>2, <2>3, <2>4, StreamsExchange
<1>. QED BY <1>6, <1>7, <1>8, <1>9, <1>10, <1>11, <1>12, <1>13, <1>14 DEF Runs

LEMMA PooledTaken ==
  ASSUME Typed, NEW o \in Objects, NEW force \in BOOLEAN, TakenFrom(o, force), NEW x \in Streams
  PROVE  Pooled(x)' <=> Pooled(x) \/ (x = sock[o].stream /\ ~force /\ sock[o].mode = "ATOMIC")
<1> DEFINE s == sock[o].stream
           p == PoolOf(sock[o])
<1>1. /\ pool \in [Creds -> [idle : Seq(Streams), active : Int]]
      /\ s \in Streams \cup {None} /\ p \in Creds
  BY TypeParts, PoolOfType DEF Typed, SockType, PoolType, Socks
<1>2. CASE s = None
  BY <1>2, NoneAssumption DEF TakenFrom, Disconnects, Pooled
<1>3. CASE s # None /\ (force \/ sock[o].mode # "ATOMIC")
  <2>1. pool' = [pool EXCEPT ![p].active = @ - 1]
    BY <1>3 DEF TakenFrom, Disconnects
  <2>2. \A a \in Creds : pool'[a].idle = pool[a].idle
    BY <1>1, <2>1
  <2>. QED BY <1>3, <2>2 DEF Pooled
<1>4. CASE s # None /\ ~(force \/ sock[o].mode # "ATOMIC")
  <2>1. pool' = [pool EXCEPT ![p].idle = <<s>> \o @]
    BY <1>4 DEF TakenFrom, Disconnects
  <2> DEFINE q == pool[p].idle
             r == <<s>> \o q
  <2>2. \A a \in Creds : pool'[a].idle = IF a = p THEN r ELSE pool[a].idle
    BY <1>1, <2>1
  <2>3. \A y : (\E i \in 1..Len(r) : r[i] = y) <=> y = s \/ \E i \in 1..Len(q) : q[i] = y
    BY <1>1, <1>4, PutFirstHas
  <2> HIDE DEF q, r, s, p
  <2>4. Pooled(x)' <=> \/ \E i \in 1..Len(r) : r[i] = x
                       \/ \E a \in Creds \ {p} : \E i \in 1..Len(pool[a].idle) : pool[a].idle[i] = x
    BY <1>1, <2>2 DEF Pooled
  <2>5. Pooled(x) <=> \/ \E i \in 1..Len(q) : q[i] = x
                      \/ \E a \in Creds \ {p} : \E i \in 1..Len(pool[a].idle) : pool[a].idle[i] = x
    BY <1>1 DEF Pooled, q
  <2>. QED BY <1>4, <2>3, <2>4, <2>5 DEF s
<1>. QED BY <1>2, <1>3, <1>4

\* A stream that leaves its object: in a pool what is unread on it is another's, and it is in no transaction.
LEMMA StreamsTaken ==
  ASSUME StreamsInv, NEW o \in Objects, NEW force \in BOOLEAN, TakenFrom(o, force), UNCHANGED torn,
         At("idle") \/ o = self, ~Fresh'
  PROVE  Leftovers' /\ OwnReplies' /\ Sessions'
<1> DEFINE s == sock[o].stream
<1>1. /\ sock \in [Objects -> Socks] /\ server \in [Streams -> Servers] /\ s \in Streams \cup {None}
      /\ \A u \in Objects : sock[u].stream \in Streams \cup {None}
  BY TypeParts DEF StreamsInv, Typed, SockType, ServerType, Socks
<1>2. PICK k \in Socks : k.stream = None /\ sock' = [sock EXCEPT ![o] = k]
  BY DEF TakenFrom
<1>3. ini' = ini
  BY DEF TakenFrom
<1>4. \A u \in Objects : sock'[u] = IF u = o THEN k ELSE sock[u]
  BY <1>1, <1>2
<1>5. \A x \in Streams : x # s => server'[x] = server[x]
  BY <1>1 DEF TakenFrom, Disconnects
<1>6. s # None => \/ server'[s] = Closed
                  \/ /\ server'[s] = [server[s] EXCEPT !.left = IF @ = "none" THEN @ ELSE "other"]
                     /\ ~force /\ sock[o].mode = "ATOMIC"
  BY <1>1 DEF TakenFrom, Disconnects
<1>7. \A x \in Streams : Pooled(x)' <=> Pooled(x) \/ (x = s /\ ~force /\ sock[o].mode = "ATOMIC")
  BY PooledTaken DEF StreamsInv
<1>8. \A u \in Objects : u # o /\ sock[u].stream # None => sock[u].stream # s
  BY DEF StreamsInv, Owners, OneHolder
<1>9. \A u \in Objects : sock'[u].stream # None => u # o /\ sock'[u] = sock[u] /\ server'[sock[u].stream] = server[sock[u].stream]
  BY <1>1, <1>2, <1>4, <1>5, <1>8
<1>10. \A x \in Streams : Pooled(x) => x # s
  BY <1>1 DEF Pooled, StreamsInv, Owners, NotBoth
<1>11. s # None => /\ server'[s].left \in {"none", "other"}
                   /\ server'[s].left = "none" <=> server'[s].where = "none"
                   /\ Known(server'[s]) => /\ Known(server[s]) /\ server'[s].tx = server[s].tx
                                           /\ sock[o].mode = "ATOMIC"
  BY <1>1, <1>6 DEF Closed, Servers, Known, StreamsInv, Leftovers
<1> HIDE DEF s
<1>12. Leftovers'
  <2>1. \A x \in Streams : server'[x].left = "none" <=> server'[x].where = "none"
    BY <1>5, <1>11, NoneAssumption DEF StreamsInv, Leftovers
  <2>2. \A x \in Streams : Pooled(x)' => server'[x].left \in {"none", "other"}
    BY <1>5, <1>7, <1>10, <1>11, NoneAssumption DEF StreamsInv, Leftovers, s
  <2>3. \A u \in Objects : sock'[u].stream # None =>
          /\ server'[sock'[u].stream].left = "other"   => ~ini'.echo /\ ini'.dirty = 0
          /\ server'[sock'[u].stream].left = "slipped" => ~ini'.echo
    BY <1>3, <1>9 DEF StreamsInv, Leftovers
  <2>. QED BY <2>1, <2>2, <2>3 DEF Leftovers
<1>13. OwnReplies'
  BY <1>3 DEF StreamsInv, OwnReplies
<1>14. Sessions'
  <2>1. ASSUME NEW u \in Objects, sock'[u].stream # None, Known(server'[sock'[u].stream])
        PROVE  Session(sock'[u], server'[sock'[u].stream], Rekeying(u)')
    <3>1. u # o /\ sock'[u] = sock[u] /\ server'[sock[u].stream] = server[sock[u].stream]
      BY <1>9, <2>1
    <3>2. ~Rekeying(u)
      BY <3>1 DEF Rekeying, At, self
    <3>3. Session(sock[u], server[sock[u].stream], Rekeying(u))
      BY <2>1, <3>1 DEF StreamsInv, Sessions
    <3>4. Session(sock[u], server[sock[u].stream], Rekeying(u)')
      BY <3>2, <3>3 DEF Session
    <3>. QED BY <3>1, <3>4
  <2>2. Known(server[s]) /\ s # None /\ sock[o].mode = "ATOMIC" => ~server[s].tx
    BY DEF StreamsInv, Sessions, Session, s
  <2>3. ASSUME NEW x \in Streams, Pooled(x)', Known(server'[x])
        PROVE  ~server'[x].tx
    <3>1. CASE x = s
      BY <1>11, <2>2, <2>3, <3>1, NoneAssumption
    <3>2. CASE x # s
      BY <1>5, <1>7, <2>3, <3>2 DEF StreamsInv, Sessions, s
    <3>. QED BY <3>1, <3>2
  <2>. QED BY <2>1, <2>3 DEF Sessions
<1>. QED BY <1>12, <1>13, <1>14

\* The object that runs gets stream s as d; the pool may lose s.
LEMMA StreamsGot ==
  ASSUME StreamsInv, At("connect") \/ At("open"), NEW s \in Streams, NEW d \in Servers,
         NEW status \in {"CONNECTED", "AUTHENTICATED"}, Connected(s, status), UNCHANGED <<ini, torn>>,
         server' = [server EXCEPT ![s] = d], ~Held(s), \A x \in Streams : Pooled(x)' => Pooled(x) /\ x # s,
         d.left = "none" <=> d.where = "none",
         d.left = "other" => ~ini.echo /\ ini.dirty = 0, d.left = "slipped" => ~ini.echo,
         Known(d) => Session([mine EXCEPT !.stream = s, !.status = status], d, FALSE),
         call.m = "reconnect" => ~d.reused
  PROVE  Leftovers' /\ OwnReplies' /\ Sessions'
<1> DEFINE k == [mine EXCEPT !.stream = s, !.status = status]
<1>1. /\ sock \in [Objects -> Socks] /\ server \in [Streams -> Servers] /\ self \in Objects /\ mine \in Socks
      /\ \A u \in Objects : sock[u].stream \in Streams \cup {None}
      /\ call \in CallRecs
  BY SelfTypes, TypeParts DEF StreamsInv, Typed, SockType, ServerType, CallType, Socks, At
<1>2. k.stream = s /\ sock' = [sock EXCEPT ![self] = k]
  BY <1>1 DEF Connected, Becomes, Socks
<1>3. call' = NoCall \/ (call' = [call EXCEPT !.pc = "auth"])
  BY DEF Connected, Returns, GoTo
<1> HIDE DEF k
<1>4. \A u \in Objects : sock'[u] = IF u = self THEN k ELSE sock[u]
  BY <1>1, <1>2
<1>5. \A x \in Streams : server'[x] = IF x = s THEN d ELSE server[x]
  BY <1>1
<1>6. \A u \in Objects : u # self /\ sock'[u].stream # None =>
        sock'[u] = sock[u] /\ server'[sock[u].stream] = server[sock[u].stream]
  BY <1>1, <1>4, <1>5 DEF Held
<1>7. sock'[self] = k /\ server'[s] = d /\ server'[sock'[self].stream] = d
  BY <1>1, <1>2, <1>4, <1>5
<1>8. /\ \A u \in Objects : ~Rekeying(u) /\ ~Rekeying(u)'
      /\ Fresh' => call.m = "reconnect" /\ self' = self
  BY <1>1, <1>3 DEF Rekeying, At, NoCall, CallRecs, Fresh, self
<1>9. Leftovers'
  <2>1. \A x \in Streams : server'[x].left = "none" <=> server'[x].where = "none"
    BY <1>5 DEF StreamsInv, Leftovers
  <2>2. \A x \in Streams : Pooled(x)' => server'[x].left \in {"none", "other"}
    BY <1>5 DEF StreamsInv, Leftovers
  <2>3. ASSUME NEW u \in Objects, sock'[u].stream # None
        PROVE  /\ server'[sock'[u].stream].left = "other"   => ~ini'.echo /\ ini'.dirty = 0
               /\ server'[sock'[u].stream].left = "slipped" => ~ini'.echo
    <3>1. CASE u = self
      BY <1>7, <3>1
    <3>2. CASE u # self
      BY <1>6, <2>3, <3>2 DEF StreamsInv, Leftovers
    <3>. QED BY <3>1, <3>2
  <2>. QED BY <2>1, <2>2, <2>3 DEF Leftovers
<1>10. OwnReplies'
  BY DEF StreamsInv, OwnReplies
<1>11. Sessions'
  <2>1. ASSUME NEW u \in Objects, sock'[u].stream # None, Known(server'[sock'[u].stream])
        PROVE  Session(sock'[u], server'[sock'[u].stream], Rekeying(u)')
    <3>1. CASE u = self
      <4>1. Session(k, d, FALSE)
        BY <1>7, <2>1, <3>1 DEF k
      <4>2. Session(k, d, Rekeying(u)')
        BY <4>1 DEF Session
      <4>. QED BY <1>7, <3>1, <4>2
    <3>2. CASE u # self
      <4>1. Session(sock[u], server[sock[u].stream], Rekeying(u))
        BY <1>6, <2>1, <3>2 DEF StreamsInv, Sessions
      <4>2. Session(sock[u], server[sock[u].stream], Rekeying(u)')
        BY <1>8, <4>1 DEF Session
      <4>. QED BY <1>6, <2>1, <3>2, <4>2
    <3>. QED BY <3>1, <3>2
  <2>2. \A x \in Streams : Pooled(x)' /\ Known(server'[x]) => ~server'[x].tx
    BY <1>5 DEF StreamsInv, Sessions
  <2>3. Fresh' => ~(server[stream].reused)'
    <3>1. Fresh' => stream' = sock'[self].stream
      BY <1>8 DEF stream, mine
    <3>. QED BY <1>7, <1>8, <3>1
  <2>. QED BY <2>1, <2>2, <2>3 DEF Sessions
<1>. QED BY <1>9, <1>10, <1>11

LEMMA StreamsBorrow ==
  ASSUME StreamsInv, Borrow
  PROVE  Leftovers' /\ OwnReplies' /\ Sessions'
<1> DEFINE s == oldest
           d == Handed(s)
           status == IF Probed THEN "AUTHENTICATED" ELSE "CONNECTED"
           k == [mine EXCEPT !.stream = s, !.status = status]
<1>1. /\ At("connect") /\ ~At("idle") /\ Idle # <<>> /\ call.via # "reconnect" /\ UNCHANGED <<ini, torn>>
      /\ server' = [server EXCEPT ![s] = d] /\ Connected(s, status)
      /\ ~LooksDirty(s) /\ (ini.echo => d.left = "none")
  BY DEF Borrow, Borrows, At, Stays
<1>2. /\ s \in Streams /\ d \in Servers /\ server[s] \in Servers /\ mine \in Socks /\ Underway /\ ini \in Settings
      /\ Pooled(s) /\ ~Held(s)
  BY <1>1, IdleTypes, HandedTypes, SelfTypes, OldestOnce, TypeParts
     DEF StreamsInv, Typed, ServerType, RestType
<1>3. \A x \in Streams : Pooled(x)' => Pooled(x) /\ x # s
  BY <1>1, OldestLeaves DEF StreamsInv, Borrow
<1>4. /\ server[s].left = "none" <=> server[s].where = "none"
      /\ server[s].left \in {"none", "other"}
      /\ Known(server[s]) => ~server[s].tx
  BY <1>2 DEF StreamsInv, Leftovers, Sessions
<1>5. ini.dirty \in 0..2 /\ ini.echo \in BOOLEAN
  BY <1>2, SettingsAssumption
<1>6. /\ d.left = "none" <=> d.where = "none"
      /\ d.left = "other" => ~ini.echo /\ ini.dirty = 0
      /\ d.left = "slipped" => ~ini.echo
  BY <1>1, <1>2, <1>4, <1>5 DEF Handed, LooksDirty, Servers
<1>7. d.reused /\ d.tx = server[s].tx /\ (Known(d) => Known(server[s]))
      /\ (ini.echo /\ mine.auth # NoAuth => d.user = mine.auth)
  BY <1>2 DEF Handed, Servers, Known
<1>8. k.status = status /\ k.auth = mine.auth
  BY <1>2 DEF Socks
<1>9. Known(d) => Session(k, d, FALSE)
  <2> HIDE DEF d, k
  <2>. QED BY <1>4, <1>7, <1>8 DEF Session, Probed
<1>10. call.m # "reconnect"
  BY <1>1, <1>2 DEF Underway
<1>11. status \in {"CONNECTED", "AUTHENTICATED"}
  OBVIOUS
<1> HIDE DEF d, s, status
<1>. QED BY <1>1, <1>2, <1>3, <1>6, <1>9, <1>10, <1>11, StreamsGot DEF k

LEMMA StreamsOpen ==
  ASSUME StreamsInv, Open
  PROVE  Leftovers' /\ OwnReplies' /\ Sessions'
<1>1. (At("connect") \/ At("open")) /\ ~At("idle") /\ UNCHANGED <<ini, torn>>
  BY DEF Open, Opens, At, Stays
<1>2. PICK s \in Streams : ~server[s].open /\ server' = [server EXCEPT ![s] = Opened] /\ Connected(s, "CONNECTED")
  BY DEF Open
<1>3. /\ mine \in Socks /\ own \in Creds /\ pool \in [Creds -> [idle : Seq(Streams), active : Int]]
      /\ ~Held(s) /\ ~Pooled(s)
  BY <1>1, <1>2, SelfTypes, TypeParts DEF StreamsInv, Typed, PoolType, Owners, SomeOwner
<1>4. \A x \in Streams : Pooled(x)' => Pooled(x) /\ x # s
  BY <1>3 DEF Open, Pooled
<1>5. /\ Opened \in Servers /\ Opened.left = "none" /\ Opened.where = "none" /\ ~Opened.reused /\ ~Opened.tx
      /\ ~Opened.watch /\ Opened.db = 0 /\ Opened.user = NoAuth
  BY RecordTypes DEF Opened, Closed
<1> DEFINE k == [mine EXCEPT !.stream = s, !.status = "CONNECTED"]
<1>6. k.status = "CONNECTED"
  BY <1>3 DEF Socks
<1> HIDE DEF k
<1>7. Session(k, Opened, FALSE)
  BY <1>5, <1>6 DEF Session
<1>. QED BY <1>1, <1>2, <1>3, <1>4, <1>5, <1>7, StreamsGot DEF k

LEMMA StreamsBorrowFails ==
  ASSUME StreamsInv, BorrowFails
  PROVE  Leftovers' /\ OwnReplies' /\ Sessions'
<1>1. /\ At("connect") /\ ~At("idle") /\ Idle # <<>> /\ UNCHANGED <<ini, torn>>
      /\ server' = [server EXCEPT ![oldest] = Closed] /\ call' = [call EXCEPT !.pc = "open"]
      /\ sock' = [sock EXCEPT ![self] = [mine EXCEPT !.status = "DISCONNECTED"]]
  BY DEF BorrowFails, Borrows, At, Stays, Becomes, GoTo
<1>2. /\ oldest \in Streams /\ ~Held(oldest) /\ stream = None /\ self \in Objects /\ mine \in Socks
      /\ sock \in [Objects -> Socks] /\ server \in [Streams -> Servers] /\ call \in CallRecs
  BY <1>1, IdleTypes, SelfTypes, OldestOnce, TypeParts
     DEF StreamsInv, Typed, SockType, ServerType, CallType, Underway, At
<1>3. \A x \in Streams : Pooled(x)' => Pooled(x) /\ x # oldest
  BY <1>1, OldestLeaves DEF StreamsInv, BorrowFails
<1>4. \A u \in Objects : sock'[u].stream # None =>
        /\ sock'[u] = sock[u] /\ sock[u].stream \in Streams /\ sock[u].stream # oldest
  BY <1>1, <1>2 DEF Socks, Held, stream
<1>5. \A x \in Streams : server'[x] = IF x = oldest THEN Closed ELSE server[x]
  BY <1>1, <1>2
<1>6. ~Fresh' /\ \A u \in Objects : ~Rekeying(u) /\ ~Rekeying(u)'
  BY <1>1, <1>2 DEF Fresh, Rekeying, At, CallRecs
<1>7. Leftovers'
  <2>1. \A x \in Streams : server'[x].left = "none" <=> server'[x].where = "none"
    BY <1>5 DEF StreamsInv, Leftovers, Closed
  <2>2. \A x \in Streams : Pooled(x)' => server'[x].left \in {"none", "other"}
    BY <1>3, <1>5 DEF StreamsInv, Leftovers
  <2>3. \A u \in Objects : sock'[u].stream # None =>
          sock[u].stream # None /\ server'[sock'[u].stream] = server[sock[u].stream]
    BY <1>4, <1>5, NoneAssumption
  <2>. QED BY <1>1, <2>1, <2>2, <2>3, <1>4 DEF StreamsInv, Leftovers
<1>8. OwnReplies'
  BY <1>1 DEF StreamsInv, OwnReplies
<1>9. Sessions'
  BY <1>3, <1>4, <1>5, <1>6 DEF StreamsInv, Sessions, Session
<1>. QED BY <1>7, <1>8, <1>9

\* The server closes a stream, or the rest of a reply arrives.
LEMMA StreamsNet ==
  ASSUME StreamsInv, NEW s \in Streams, ServerCloses(s) \/ LateReplyArrives(s)
  PROVE  Leftovers' /\ OwnReplies' /\ Sessions'
<1>1. UNCHANGED <<ini, sock, pool, call, torn>>
  BY DEF ServerCloses, LateReplyArrives, Stays
<1>2. server \in [Streams -> Servers] /\ \A u \in Objects : sock[u].stream \in Streams \cup {None}
  BY TypeParts DEF StreamsInv, Typed, ServerType, SockType, Socks
<1>3. \A x \in Streams :
        \/ server'[x] = server[x]
        \/ server'[x].left = "none" /\ server'[x].where = "none" /\ ~Known(server'[x]) /\ ~server'[x].reused
        \/ /\ server[x].where = "late" /\ server'[x] = [server[x] EXCEPT !.where = "socket"]
  BY <1>2 DEF ServerCloses, LateReplyArrives, Closed, Known
<1>4. \A x \in Streams :
        \/ server'[x].left = "none" /\ server'[x].where = "none" /\ ~Known(server'[x]) /\ ~server'[x].reused
        \/ /\ server'[x].left = server[x].left /\ (server'[x].where = "none" <=> server[x].where = "none")
           /\ (Known(server'[x]) <=> Known(server[x])) /\ server'[x].tx = server[x].tx
           /\ server'[x].watch = server[x].watch /\ server'[x].db = server[x].db
           /\ server'[x].user = server[x].user /\ server'[x].reused = server[x].reused
  <2> SUFFICES ASSUME NEW x \in Streams, server[x].where = "late",
                      server'[x] = [server[x] EXCEPT !.where = "socket"]
               PROVE  /\ server'[x].left = server[x].left /\ server'[x].where # "none"
                      /\ (Known(server'[x]) <=> Known(server[x])) /\ server'[x].tx = server[x].tx
                      /\ server'[x].watch = server[x].watch /\ server'[x].db = server[x].db
                      /\ server'[x].user = server[x].user /\ server'[x].reused = server[x].reused
    BY <1>3
  <2>1. server[x] \in Servers
    BY <1>2
  <2>. QED BY <2>1 DEF Servers, Known
<1>5. \A x \in Streams : Pooled(x)' <=> Pooled(x)
  BY <1>1 DEF Pooled
<1>6. Leftovers'
  BY <1>1, <1>2, <1>4, <1>5 DEF StreamsInv, Leftovers
<1>7. OwnReplies'
  BY <1>1 DEF StreamsInv, OwnReplies
<1>8. Sessions'
  <2>1. ASSUME NEW u \in Objects, sock'[u].stream # None, Known(server'[sock'[u].stream])
        PROVE  Session(sock'[u], server'[sock'[u].stream], Rekeying(u)')
    <3>1. sock[u].stream \in Streams /\ sock[u].stream # None /\ Known(server[sock[u].stream])
      BY <1>1, <1>2, <1>4, <2>1
    <3>2. Session(sock[u], server[sock[u].stream], Rekeying(u))
      BY <3>1 DEF StreamsInv, Sessions
    <3>. QED BY <1>1, <1>4, <2>1, <3>1, <3>2 DEF Session, Rekeying
  <2>2. \A x \in Streams : Pooled(x)' /\ Known(server'[x]) => ~server'[x].tx
    BY <1>4, <1>5 DEF StreamsInv, Sessions
  <2>3. Fresh' => ~(server[stream].reused)'
    <3>1. Fresh' => Fresh /\ stream' = stream /\ stream \in Streams
      BY <1>1, SelfTypes DEF Fresh, stream, mine, self, At, StreamsInv
    <3>. QED BY <1>4, <3>1 DEF StreamsInv, Sessions
  <2>. QED BY <2>1, <2>2, <2>3 DEF Sessions
<1>. QED BY <1>6, <1>7, <1>8

LEMMA StreamsGivesUp ==
  ASSUME StreamsInv, ~At("idle"), GivesUp
  PROVE  Leftovers' /\ OwnReplies' /\ Sessions'
<1>1. self \in Objects /\ FailedSock(mine) \in Socks /\ FailedSock(mine).stream = None
  BY SelfTypes, WithoutTypes DEF StreamsInv
<1>2. TakenFrom(self, TRUE) /\ UNCHANGED torn /\ ~Fresh'
  BY <1>1 DEF GivesUp, TakenFrom, Becomes, Stays, Returns, Fresh, NoCall
<1>. QED BY <1>1, <1>2, StreamsTaken

LEMMA StreamsNext ==
  ASSUME StreamsInv, [Next]_vars
  PROVE  Leftovers' /\ OwnReplies' /\ Sessions'
<1> USE DEF StreamsInv
<1>1. ASSUME NEW o \in Objects, Destroy(o) \/ Reconnect(o) \/ \E a \in Creds : Pconnect(o, a)
      PROVE  Leftovers' /\ OwnReplies' /\ Sessions'
  <2>1. sock[o] \in Socks
    BY TypeParts DEF Typed, SockType
  <2>2. \E force \in BOOLEAN : TakenFrom(o, force)
    BY <1>1, <2>1, RecordTypes, WithoutTypes DEF Destroy, Reconnect, Pconnect, TakenFrom, Stays, NoSock
  <2>3. At("idle") /\ UNCHANGED torn
    BY <1>1 DEF Destroy, Reconnect, Pconnect, Stays
  <2>4. ~Fresh'
    <3>1. CASE Destroy(o)
      BY <2>3, <3>1 DEF Destroy, Fresh, At
    <3>2. CASE Reconnect(o)
      BY <3>2 DEF Reconnect, Begin, Fresh
    <3>3. CASE \E a \in Creds : Pconnect(o, a)
      BY <3>3 DEF Pconnect, Begin, Fresh
    <3>. QED BY <1>1, <3>1, <3>2, <3>3
  <2>. QED BY <2>2, <2>3, <2>4, StreamsTaken
<1>2. ASSUME NEW o \in Objects, Method(o)
      PROVE  Leftovers' /\ OwnReplies' /\ Sessions'
  <2>1. At("idle") /\ UNCHANGED <<ini, sock, pool, server, torn>>
    BY <1>2 DEF Method, Stays
  <2>2. \A u \in Objects : ~Rekeying(u)
    BY <2>1 DEF Rekeying, At
  <2>3. ~Fresh'
    BY <1>2 DEF Method, Begin, Calls, Fresh
  <2>. QED BY <2>1, <2>2, <2>3, StreamsSame
<1>3. CASE OpenFails
  <2>1. (At("connect") \/ At("open")) /\ ~At("idle") /\ call \in CallRecs
    BY <1>3, TypeParts DEF OpenFails, Opens, At, Typed, CallType
  <2>2. self \in Objects /\ sock[self].stream = None /\ sock \in [Objects -> Socks]
        /\ call.via \in {"pconnect", "open", "eof", "reconnect"}
    BY <2>1, SelfTypes, TypeParts DEF Typed, SockType, CallRecs, Underway, At, mine, stream
  <2>3. CASE GivesUp
    BY <2>1, <2>3, StreamsGivesUp
  <2>4. CASE ~GivesUp
    <3>1. UNCHANGED <<ini, pool, server, torn>>
      BY <1>3, <2>2, <2>4 DEF OpenFails, Stays
    <3>2. \/ sock' = [sock EXCEPT ![self] = NoSock] /\ call' = NoCall
          \/ UNCHANGED sock /\ (call' = NoCall \/ call' = [call EXCEPT !.pc = "connect"])
      BY <1>3, <2>2, <2>4 DEF OpenFails, Becomes, Returns, GoTo
    <3>3. \A o \in Objects : /\ sock'[o].stream = sock[o].stream
                             /\ sock[o].stream # None => sock'[o] = sock[o]
      BY <2>2, <3>2 DEF NoSock
    <3>4. ~Fresh' /\ \A o \in Objects : ~Rekeying(o)
      BY <2>1, <3>2 DEF Fresh, Rekeying, At, NoCall, CallRecs
    <3>. QED BY <3>1, <3>3, <3>4, StreamsSame
  <2>. QED BY <2>3, <2>4
<1>4. CASE FindsEof
  <2>1. ~At("idle") /\ self \in Objects /\ mine \in Socks /\ call \in CallRecs
    BY <1>4, WritesAfterConnect DEF FindsEof
  <2>2. GivesUp \/ (TakenFrom(self, TRUE) /\ UNCHANGED torn /\ ~Fresh')
    BY <1>4, <2>1, WithoutTypes DEF FindsEof, TakenFrom, Becomes, Stays, Fresh, CallRecs
  <2>. QED BY <2>1, <2>2, StreamsGivesUp, StreamsTaken
<1>5. CASE ReadFails
  <2>1. self \in Objects /\ mine \in Socks
    BY <1>5, WritesAfterConnect DEF ReadFails
  <2>2. TakenFrom(self, TRUE) /\ UNCHANGED torn /\ ~Fresh'
    BY <1>5, <2>1, WithoutTypes DEF ReadFails, TakenFrom, Becomes, Stays, Returns, Fresh, NoCall
  <2>. QED BY <2>1, <2>2, StreamsTaken
<1>6. CASE HandshakeRefused
  <2>1. ~(At("idle") \/ At("connect") \/ At("open")) /\ ~Rekeying(self)
    BY <1>6 DEF HandshakeRefused, At, Rekeying
  <2>2. /\ self \in Objects /\ mine \in Socks /\ stream \in Streams /\ server[stream] \in Servers
    BY <2>1, SelfSession
  <2>3. CASE call.via = "open"
    <3>1. /\ Authed \in Servers /\ Authed.left = server[stream].left /\ Authed.where = server[stream].where
          /\ Authed.reused = server[stream].reused
          /\ Selected \in Servers /\ Selected.left = server[stream].left /\ Selected.where = server[stream].where
          /\ Selected.reused = server[stream].reused
      BY <2>2 DEF Authed, Selected, Servers, Socks
    <3>2. UNCHANGED sock /\ call' = NoCall /\ (Refused(Authed) \/ Refused(Selected))
      BY <1>6, <2>3 DEF HandshakeRefused, Returns
    <3>. QED BY <2>1, <3>1, <3>2, StreamsRefused
  <2>4. CASE call.via # "open"
    BY <1>6, <2>1, <2>4, StreamsGivesUp DEF HandshakeRefused
  <2>. QED BY <2>3, <2>4
<1>7. CASE Close
  <2>1. At("run") /\ ~At("idle")
    BY <1>7 DEF Close, Running, At
  <2>2. self \in Objects /\ mine \in Socks
    BY <2>1, SelfTypes
  <2>3. TakenFrom(self, TRUE) /\ UNCHANGED torn /\ ~Fresh'
    BY <1>7, <2>2, WithoutTypes DEF Close, TakenFrom, Becomes, Stays, Returns, Fresh, NoCall
  <2>. QED BY <2>2, <2>3, StreamsTaken
<1>8. CASE UNCHANGED vars
  <2>1. UNCHANGED <<ini, sock, pool, server, torn, call>>
    BY <1>8 DEF vars
  <2>2. (Fresh' => Fresh /\ stream' = stream) /\ \A o \in Objects : Rekeying(o) => Rekeying(o)'
    BY <2>1 DEF Fresh, stream, mine, self, Rekeying
  <2>. QED BY <2>1, <2>2, StreamsSame
<1>9. CASE Runs
  BY <1>7, <1>9, StreamsRun
<1>10. CASE Connecting
  BY <1>3, <1>10, StreamsBorrow, StreamsBorrowFails, StreamsOpen DEF Connecting
<1>11. CASE Handshake
  BY <1>6, <1>11, StreamsAuth, StreamsSelect DEF Handshake
<1>. QED BY <1>1, <1>2, <1>4, <1>5, <1>8, <1>9, <1>10, <1>11, StreamsNet DEF Next

LEMMA StreamsInit == Init => Leftovers /\ OwnReplies /\ Sessions
<1> SUFFICES ASSUME Init PROVE Leftovers /\ OwnReplies /\ Sessions
  OBVIOUS
<1>1. \A x \in Streams : ~Pooled(x)
  BY DEF Init, Pooled
<1>. QED BY <1>1 DEF Init, Leftovers, OwnReplies, Sessions, NoSock, Closed, NoCall, Fresh

LEMMA AlwaysStreams == Spec => []StreamsInv
<1>1. Init => StreamsInv
  BY InitTyped, OwnersInit, StreamsInit DEF StreamsInv
<1>2. StreamsInv /\ [Next]_vars => StreamsInv'
  BY NextTyped, OwnersNext, StreamsNext DEF StreamsInv
<1>. QED BY <1>1, <1>2, PTL DEF Spec

\* With the ECHO of the probe no object reads what another left unread; without it redis_stream_detect_dirty
\* keeps it from what has arrived (redis_sock_check_liveness of library.c).
THEOREM RepliesOwn == Spec => []OwnReplies
<1>1. StreamsInv => OwnReplies
  BY DEF StreamsInv
<1>. QED BY <1>1, AlwaysStreams, PTL

\* A method runs in the database, as the user and in the transaction its object chose, whatever the
\* owners of its stream did before (redis_sock_server_open, redis_check_eof, redis_sock_reconnect).
THEOREM SessionOwn == Spec => []OwnSession
<1>1. StreamsInv => OwnSession
  <2> SUFFICES ASSUME StreamsInv PROVE OwnSession
    OBVIOUS
  <2>1. ASSUME At("run"), stream # None, ~server[stream].astray, alive
        PROVE  LET s == server[stream] IN
                 /\ mine.db # 0 \/ ~s.reused => s.db = mine.db
                 /\ (mine.auth # NoAuth \/ ~s.reused) /\ call.m # "auth" => s.user = mine.auth
                 /\ s.watch /\ ~s.reused => mine.watching
                 /\ s.tx => mine.mode = "MULTI"
    <3>1. ~(At("idle") \/ At("connect") \/ At("open"))
      BY <2>1 DEF At
    <3>2. Known(server[stream]) /\ Session(mine, server[stream], Rekeying(self)) /\ mine.status = "READY"
      BY <2>1, <3>1, SelfSession DEF Known, alive, Underway, At
    <3>3. call.m # "auth" => ~Rekeying(self)
      BY DEF Rekeying
    <3>. QED BY <3>2, <3>3 DEF Session
  <2>2. call.m = "reconnect" /\ call.pc \in {"auth", "select"} => ~server[stream].reused
    BY DEF StreamsInv, Sessions, Fresh
  <2>. QED BY <2>1, <2>2 DEF OwnSession
<1>. QED BY <1>1, AlwaysStreams, PTL

=============================================================================
