--------------------------- MODULE ConnectionPool ---------------------------
(***************************************************************************)
(* The pools of persistent streams (ConnectionPool of common.h, filled and  *)
(* emptied in library.c) and the Redis objects of one PHP process that      *)
(* share them: an object borrows an idle stream or opens one, and gives it  *)
(* back when it is freed.  What the server holds for a stream (database,    *)
(* user, transaction, watched keys) and replies nobody read stay with it.   *)
(*                                                                         *)
(* A method call is a sequence of steps (pc); between two of them the       *)
(* server may close streams and late replies may arrive.  One host, one     *)
(* persistent_id; transactions, pipelines and replies are those of module   *)
(* Connection, reduced to what a stream can hand down.                      *)
(***************************************************************************)
EXTENDS Integers, FiniteSets, Sequences, SequencesExt

CONSTANTS
  Objects,    \* the Redis objects of the process
  Streams,    \* as many streams as can be open at once
  None,       \* no stream, no object
  Users,      \* the credentials objects may have
  NoAuth,     \* an object without credentials; on the server, the default user
  Dbs,        \* the databases besides 0
  Settings,   \* values of the ini settings redis.pconnect.*
  MaxRekeys   \* bound on auth() calls that move a stream to another pool

ASSUME NoneAssumption == None \notin Streams \cup Objects
ASSUME StreamsAssumption == IsFiniteSet(Streams)
ASSUME UserAssumption == NoAuth \notin Users /\ IsFiniteSet(Users)
ASSUME DbAssumption == 0 \notin Dbs
ASSUME BoundAssumption == MaxRekeys \in Nat
MethodNames == {"command", "select", "auth", "watch", "multi", "pipeline", "exec", "close"}
\* echo_check_liveness, pool_detect_dirty, connection_limit, and whether pool_pattern has 'a', 'p' or 'u'.
ASSUME SettingsAssumption ==
  Settings \subseteq [echo : BOOLEAN, dirty : 0..2, limit : Nat, byAuth : BOOLEAN, uses : SUBSET MethodNames]

VARIABLES
  ini,     \* the settings of this process
  sock,    \* the RedisSock of each object
  pool,    \* the pools by the credentials in their name: idle streams and nb_active
  server,  \* what the server and PHP's stream hold for each stream
  call,    \* the method call under way
  rekeys,  \* auth() calls that moved a stream to another pool
  torn     \* replies read by another object than the one they are for
vars == <<ini, sock, pool, server, call, rekeys, torn>>

Creds == Users \cup {NoAuth}
AllDbs == Dbs \cup {0}

\* An object without RedisSock, and one fresh from redis_sock_create with its context.
NoSock == [exists |-> FALSE, stream |-> None, status |-> "DISCONNECTED", mode |-> "ATOMIC",
           watching |-> FALSE, db |-> 0, auth |-> NoAuth]
NewSock(a) == [NoSock EXCEPT !.exists = TRUE, !.auth = a]

\* left: what is unread on the stream is the rest of a reply to its owner ("own"), or of an earlier
\* owner ("other", or "slipped" if it had not arrived when the stream was taken from the pool).
\* where: it is still on its way, in the socket, or in PHP's buffer.
\* reused: the stream has been in a pool; astray: a reply on it was taken for another, or AUTH refused.
Closed == [open |-> FALSE, alive |-> FALSE, db |-> 0, user |-> NoAuth, tx |-> FALSE, watch |-> FALSE,
           left |-> "none", where |-> "none", reused |-> FALSE, astray |-> FALSE]
Opened == [Closed EXCEPT !.open = TRUE, !.alive = TRUE]

\* via: whether a connection is made by pconnect(), redis_sock_server_open, redis_check_eof or
\* redis_sock_reconnect; resume: the step during which redis_check_eof found the stream closed.
NoCall == [o |-> None, m |-> "none", arg |-> 0, pc |-> "idle", via |-> "none", resume |-> "none"]

-----------------------------------------------------------------------------
(* The object that runs, its stream and its pool. *)

self   == call.o
mine   == sock[self]
stream == mine.stream
At(pc) == call.pc = pc

\* redis_pool_spprintf: the name follows the credentials of the moment, if the pattern has them.
PoolOf(k) == IF ini.byAuth THEN k.auth ELSE NoAuth
own       == PoolOf(mine)

GoTo(pc) == call' = [call EXCEPT !.pc = pc]
Returns  == call' = NoCall
Becomes(k) == sock' = [sock EXCEPT ![self] = k]
Stays == UNCHANGED <<ini, rekeys, torn>>

\* Variant: without a look whether there is a stream, or what the object was doing with it.
DisconnectsAnyway(o, force) ==
  LET s == sock[o].stream
      p == PoolOf(sock[o])
  IN IF force
     THEN /\ server' = [server EXCEPT ![s] = Closed]
          /\ pool' = [pool EXCEPT ![p].active = @ - 1]
     ELSE /\ server' = [server EXCEPT ![s].left = IF @ = "none" THEN @ ELSE "other"]
          /\ pool' = [pool EXCEPT ![p].idle = <<s>> \o @]

\* redis_sock_disconnect of a stream of o: by force or in a block it is closed, else the pool gets it.
Disconnects(o, force) ==
  LET s == sock[o].stream
      p == PoolOf(sock[o])
  IN IF s = None THEN UNCHANGED <<pool, server>>
     ELSE IF force \/ sock[o].mode # "ATOMIC"
     THEN /\ server' = [server EXCEPT ![s] = Closed]
          /\ pool' = [pool EXCEPT ![p].active = @ - 1]
     ELSE /\ server' = [server EXCEPT ![s].left = IF @ = "none" THEN @ ELSE "other"]
          /\ pool' = [pool EXCEPT ![p].idle = <<s>> \o @]

\* What redis_sock_disconnect leaves of the RedisSock.
Without(k, reset) ==
  [k EXCEPT !.stream = None, !.status = "DISCONNECTED", !.watching = FALSE,
            !.mode = IF reset THEN "ATOMIC" ELSE @]
FailedSock(k) == [Without(k, TRUE) EXCEPT !.status = "FAILED"]

\* redis_check_eof and redis_sock_reconnect give up.
GivesUp ==
  /\ Disconnects(self, TRUE)
  /\ Becomes(FailedSock(mine))
  /\ Returns /\ Stays
-----------------------------------------------------------------------------
(* Method calls. *)

Begin(o, m, arg, pc, via) ==
  call' = [o |-> o, m |-> m, arg |-> arg, pc |-> pc, via |-> via, resume |-> "none"]

\* pconnect() with credentials in its context: the object's old stream goes back first.
Pconnect(o, a) ==
  /\ At("idle")
  /\ Disconnects(o, FALSE)
  /\ sock' = [sock EXCEPT ![o] = NewSock(a)]
  /\ Begin(o, "pconnect", 0, "connect", "pconnect")
  /\ Stays

\* __destruct() and free_redis_object.  The DISCARD of an object in MULTI is for a stream that is
\* closed next, or was closed when the DISCARD failed.
Destroy(o) ==
  /\ At("idle") /\ sock[o].exists
  /\ Disconnects(o, FALSE)
  /\ sock' = [sock EXCEPT ![o] = NoSock]
  /\ UNCHANGED call /\ Stays

\* reconnect() throws without a connection; else it closes the stream and makes a new one.
Reconnect(o) ==
  /\ At("idle") /\ sock[o].exists /\ sock[o].status # "DISCONNECTED"
  /\ Disconnects(o, TRUE)
  /\ sock' = [sock EXCEPT ![o] = Without(@, TRUE)]
  /\ Begin(o, "reconnect", 0, "connect", "reconnect")
  /\ Stays

\* What each method may be called with; module Connection has the calls a block queues or refuses.
Calls(o) ==
  LET atomic == sock[o].mode = "ATOMIC"
  IN   {[m |-> m, arg |-> 0] : m \in {"command", "close"}}
  \cup {[m |-> m, arg |-> 0] : m \in IF atomic THEN {"watch", "multi", "pipeline"} ELSE {"exec"}}
  \cup IF atomic THEN {[m |-> "select", arg |-> d] : d \in AllDbs} \cup {[m |-> "auth", arg |-> u] : u \in Users}
       ELSE {}

\* redis_sock_get: redis_sock_server_open goes on from the status it finds.
Method(o) ==
  /\ At("idle") /\ sock[o].exists
  /\ \E c \in Calls(o) : c.m \in ini.uses /\
       Begin(o, c.m, c.arg,
             CASE sock[o].status \in {"FAILED", "DISCONNECTED"} -> "connect"
               [] sock[o].status = "CONNECTED"                  -> "auth"
               [] sock[o].status = "AUTHENTICATED"              -> "select"
               [] sock[o].status = "READY"                      -> "run",
             "open")
  /\ UNCHANGED <<sock, pool, server>> /\ Stays

-----------------------------------------------------------------------------
(* redis_sock_connect_impl. *)

Idle   == pool[own].idle
oldest == Last(Idle)
Borrows == At("connect") /\ call.via # "reconnect" /\ Idle # <<>>

\* After the connection: pconnect() returns, the others go through the handshake.
Connected(s, status) ==
  /\ Becomes([mine EXCEPT !.stream = s, !.status = status])
  /\ IF call.via = "pconnect" THEN Returns ELSE GoTo("auth")

\* redis_stream_detect_dirty: unread bytes, unless they are still to come.
LooksDirty(s) == \/ ini.dirty > 0 /\ server[s].where = "socket"
                 \/ ini.dirty = 1 /\ server[s].where = "buffer"

\* A stream as the pool hands it over: bytes in its buffer may be skipped, AUTH precedes ECHO.
Handed(s) ==
  LET k == server[s]
      skipped == ini.dirty = 2 /\ k.where = "buffer"
  IN [k EXCEPT !.reused = TRUE,
               !.left  = IF skipped THEN "none" ELSE IF k.where = "late" THEN "slipped" ELSE @,
               !.where = IF skipped THEN "none" ELSE @,
               !.user  = IF ini.echo /\ mine.auth # NoAuth THEN mine.auth ELSE @]
\* redis_sock_server_open starts over with AUTH, pconnect() leaves it at that of the probe.
Probed == ini.echo /\ mine.auth # NoAuth /\ call.via = "pconnect"

\* Variant: any answer to ECHO will do.
BorrowUnchecked ==
  /\ Borrows
  /\ LET s == oldest IN
       /\ server[s].alive /\ ~LooksDirty(s)
       /\ server' = [server EXCEPT ![s] = Handed(s)]
       /\ Connected(s, IF Probed THEN "AUTHENTICATED" ELSE "CONNECTED")
  /\ pool' = [pool EXCEPT ![own].idle = Front(@)]
  /\ Stays

\* The stream given back first is taken if redis_sock_check_liveness finds nothing against it.
Borrow ==
  /\ Borrows
  /\ LET s == oldest IN
       /\ server[s].alive /\ ~LooksDirty(s) /\ (ini.echo => Handed(s).left = "none")
       /\ server' = [server EXCEPT ![s] = Handed(s)]
       /\ Connected(s, IF Probed THEN "AUTHENTICATED" ELSE "CONNECTED")
  /\ pool' = [pool EXCEPT ![own].idle = Front(@)]
  /\ Stays

\* Variant: the stream that failed is still counted.
BorrowFailsUncounted ==
  /\ Borrows
  /\ LET s == oldest IN
       /\ ~server[s].alive \/ LooksDirty(s) \/ ini.echo
       /\ server' = [server EXCEPT ![s] = Closed]
  /\ pool' = [pool EXCEPT ![own].idle = Front(@)]
  /\ Becomes([mine EXCEPT !.status = "DISCONNECTED"])
  /\ GoTo("open") /\ Stays

\* It is closed otherwise, and a new one opened: also when the probe gets no answer, or AUTH is refused.
BorrowFails ==
  /\ Borrows
  /\ LET s == oldest IN
       /\ ~server[s].alive \/ LooksDirty(s) \/ ini.echo
       /\ server' = [server EXCEPT ![s] = Closed]
  /\ pool' = [pool EXCEPT ![own] = [idle |-> Front(Idle), active |-> @.active - 1]]
  /\ Becomes([mine EXCEPT !.status = "DISCONNECTED"])
  /\ GoTo("open") /\ Stays

Opens == At("open") \/ (At("connect") /\ ~Borrows)
AtLimit == ini.limit > 0 /\ pool[own].active >= ini.limit

Open ==
  /\ Opens /\ ~AtLimit
  /\ \E s \in Streams :
       /\ ~server[s].open
       /\ server' = [server EXCEPT ![s] = Opened]
       /\ Connected(s, "CONNECTED")
  /\ pool' = [pool EXCEPT ![own].active = @ + 1]
  /\ Stays

\* The limit is reached or the server cannot be reached.  redis_check_eof tries again for a while.
OpenFails ==
  /\ Opens
  /\ CASE call.via = "pconnect"  -> Becomes(NoSock) /\ Returns /\ UNCHANGED <<pool, server>> /\ Stays
       [] call.via = "open"      -> Returns /\ UNCHANGED <<sock, pool, server>> /\ Stays
       [] call.via = "eof"       -> \/ GoTo("connect") /\ UNCHANGED <<sock, pool, server>> /\ Stays
                                    \/ GivesUp
       [] call.via = "reconnect" -> GivesUp

-----------------------------------------------------------------------------
(* Commands and their replies. *)

\* What the steps write, if anything: AUTH, SELECT, or the command of the method.
Writes ==
  \/ At("auth") /\ mine.auth # NoAuth
  \/ At("select") /\ mine.db # 0
  \/ At("run") /\ (IF mine.mode = "PIPELINE" THEN call.m = "exec" ELSE call.m \notin {"close", "pipeline"})

alive == server[stream].alive

\* A write finds the stream closed: redis_check_eof.
FindsEof ==
  /\ Writes /\ ~alive
  /\ \/ GivesUp
     \/ /\ mine.mode # "MULTI" /\ ~mine.watching /\ call.via # "reconnect"
        /\ Disconnects(self, TRUE)
        /\ Becomes(Without(mine, FALSE))
        /\ call' = [call EXCEPT !.pc = "connect", !.via = "eof",
                                !.resume = IF call.via = "eof" THEN @ ELSE call.pc]
        /\ Stays

\* No reply comes: redis_sock_gets closes the stream, after EOF (FAILED) or the read timeout.
ReadFails ==
  /\ Writes /\ alive
  /\ Disconnects(self, TRUE)
  /\ \/ Becomes(FailedSock(mine))
     \/ call.via = "open" /\ Becomes(Without(mine, TRUE))
  /\ Returns /\ Stays

\* The server executes what it is sent (done), and the next reply is read: its own, or what was left
\* unread before it, which is then followed by its own.
Exchange(done) ==
  /\ Writes /\ alive
  /\ LET left == server[stream].left IN
       \/ /\ left = "none"
          /\ server' = [server EXCEPT ![stream] = done]
          /\ UNCHANGED torn
       \/ /\ left # "none" /\ server[stream].where # "late"
          /\ \E w \in {"socket", "buffer"} :
               server' = [server EXCEPT ![stream] =
                            [done EXCEPT !.left = "own", !.where = w, !.astray = TRUE]]
          /\ torn' = torn \cup ({left} \ {"own"})
  /\ UNCHANGED <<ini, pool, rekeys>>

\* The server refuses, or what was left unread is taken for a refusal.
Refused(done) ==
  \/ Exchange(server[stream])
  \/ server[stream].left # "none" /\ Exchange(done)

-----------------------------------------------------------------------------
(* redis_sock_server_open, and the same in redis_check_eof. *)

Authed == [server[stream] EXCEPT !.user = mine.auth]

Authenticated == Becomes([mine EXCEPT !.status = "AUTHENTICATED"]) /\ GoTo("select")
Auth ==
  /\ At("auth")
  /\ Authenticated
  /\ IF mine.auth = NoAuth THEN UNCHANGED <<pool, server>> /\ Stays ELSE Exchange(Authed)

Selected == [server[stream] EXCEPT !.db = mine.db]

\* The handshake is over: reconnect() returns, the others go on where they were.
Ready ==
  /\ Becomes([mine EXCEPT !.status = "READY"])
  /\ CASE call.via = "open"      -> GoTo("run")
       [] call.via = "eof"       -> call' = [call EXCEPT !.pc = call.resume, !.via = "open", !.resume = "none"]
       [] call.via = "reconnect" -> Returns

\* Variant: the database is not selected again after redis_check_eof.
SelectUnlessEof ==
  /\ At("select")
  /\ Ready
  /\ IF mine.db = 0 \/ call.via = "eof" THEN UNCHANGED <<pool, server>> /\ Stays ELSE Exchange(Selected)

Select ==
  /\ At("select")
  /\ Ready
  /\ IF mine.db = 0 THEN UNCHANGED <<pool, server>> /\ Stays ELSE Exchange(Selected)

\* A refusal ends the call; redis_check_eof and reconnect() close the stream.
HandshakeRefused ==
  /\ At("auth") \/ At("select")
  /\ Writes /\ alive
  /\ IF call.via = "open"
     THEN /\ Refused(IF At("auth") THEN Authed ELSE Selected)
          /\ Returns /\ UNCHANGED sock
     ELSE GivesUp

-----------------------------------------------------------------------------
(* The methods, on a connection that is ready. *)

Running(m) == At("run") /\ call.m = m

\* A command is sent, or queued here or there.
Command ==
  /\ Running("command")
  /\ Returns /\ UNCHANGED sock
  /\ IF Writes THEN Exchange(server[stream]) ELSE UNCHANGED <<pool, server>> /\ Stays

\* Its payload is late: redis_sock_read_bulk_reply throws and leaves it.
CommandStopsShort ==
  /\ Running("command") /\ mine.mode = "ATOMIC"
  /\ Writes /\ alive /\ server[stream].left = "none"
  /\ server' = [server EXCEPT ![stream].left = "own", ![stream].where = "late"]
  /\ Returns
  /\ UNCHANGED <<sock, pool>> /\ Stays

SelectDb ==
  /\ Running("select")
  /\ LET done == [server[stream] EXCEPT !.db = call.arg] IN
       \/ Exchange(done) /\ Becomes([mine EXCEPT !.db = call.arg])
       \/ Refused(done) /\ UNCHANGED sock
  /\ Returns

\* redis_auth_cmd stores the credentials when the command is built, which may name another pool.
StoreAuth ==
  /\ Running("auth") /\ mine.auth # call.arg
  /\ rekeys' = IF ini.byAuth THEN rekeys + 1 ELSE rekeys
  /\ rekeys' <= MaxRekeys
  /\ Becomes([mine EXCEPT !.auth = call.arg])
  /\ UNCHANGED <<ini, pool, server, call, torn>>

SendAuth ==
  /\ Running("auth") /\ mine.auth = call.arg
  /\ \/ Exchange(Authed)
     \/ Exchange([server[stream] EXCEPT !.astray = TRUE])
  /\ Returns /\ UNCHANGED sock

Watch ==
  /\ Running("watch")
  /\ LET done == [server[stream] EXCEPT !.watch = TRUE] IN
       \/ Exchange(done) /\ Becomes([mine EXCEPT !.watching = TRUE])
       \/ Refused(done) /\ UNCHANGED sock
  /\ Returns

Multi ==
  /\ Running("multi")
  /\ LET done == [server[stream] EXCEPT !.tx = TRUE] IN
       \/ Exchange(done) /\ Becomes([mine EXCEPT !.mode = "MULTI"])
       \/ Refused(done) /\ UNCHANGED sock
  /\ Returns

Pipeline ==
  /\ Running("pipeline")
  /\ Becomes([mine EXCEPT !.mode = "PIPELINE"])
  /\ Returns /\ UNCHANGED <<pool, server>> /\ Stays

\* exec() of a transaction or of a pipeline.
Exec ==
  /\ Running("exec")
  /\ Exchange(IF mine.mode = "MULTI" THEN [server[stream] EXCEPT !.tx = FALSE, !.watch = FALSE] ELSE server[stream])
  /\ Becomes([mine EXCEPT !.mode = "ATOMIC", !.watching = IF mine.mode = "MULTI" THEN FALSE ELSE @])
  /\ Returns

Close ==
  /\ Running("close")
  /\ Disconnects(self, TRUE)
  /\ Becomes(Without(mine, TRUE))
  /\ Returns /\ Stays

-----------------------------------------------------------------------------
(* The server and the network. *)

ServerCloses(s) ==
  /\ server[s].alive
  /\ server' = [server EXCEPT ![s] = [Closed EXCEPT !.open = TRUE]]
  /\ UNCHANGED <<sock, pool, call>> /\ Stays

LateReplyArrives(s) ==
  /\ server[s].where = "late" /\ server[s].alive
  /\ server' = [server EXCEPT ![s].where = "socket"]
  /\ UNCHANGED <<sock, pool, call>> /\ Stays

Init ==
  /\ ini \in Settings
  /\ sock = [o \in Objects |-> NoSock]
  /\ pool = [a \in Creds |-> [idle |-> <<>>, active |-> 0]]
  /\ server = [s \in Streams |-> Closed]
  /\ call = NoCall
  /\ rekeys = 0
  /\ torn = {}

Connecting == Borrow \/ BorrowFails \/ Open \/ OpenFails
Handshake  == Auth \/ Select \/ HandshakeRefused
Runs ==
  \/ Command \/ CommandStopsShort \/ SelectDb \/ StoreAuth \/ SendAuth
  \/ Watch \/ Multi \/ Pipeline \/ Exec \/ Close

Next ==
  \/ \E o \in Objects : Destroy(o) \/ Reconnect(o) \/ Method(o) \/ \E a \in Creds : Pconnect(o, a)
  \/ Connecting \/ Handshake \/ FindsEof \/ ReadFails \/ Runs
  \/ \E s \in Streams : ServerCloses(s) \/ LateReplyArrives(s)

Spec == Init /\ [][Next]_vars

-----------------------------------------------------------------------------
(* Properties. *)

\* Every variable has its type.
TypeOK ==
  /\ ini \in Settings
  /\ sock \in [Objects -> [exists : BOOLEAN, stream : Streams \cup {None},
                           status : {"DISCONNECTED", "FAILED", "CONNECTED", "AUTHENTICATED", "READY"},
                           mode : {"ATOMIC", "MULTI", "PIPELINE"}, watching : BOOLEAN, db : AllDbs,
                           auth : Creds]]
  /\ pool \in [Creds -> [idle : Seq(Streams), active : Int]]
  /\ server \in [Streams -> [open : BOOLEAN, alive : BOOLEAN, db : AllDbs, user : Creds, tx : BOOLEAN,
                             watch : BOOLEAN, left : {"none", "own", "other", "slipped"},
                             where : {"none", "late", "socket", "buffer"}, reused : BOOLEAN,
                             astray : BOOLEAN]]
  /\ call \in [o : Objects \cup {None},
               m : {"none", "pconnect", "reconnect", "command", "close", "watch", "multi", "pipeline", "exec",
                    "select", "auth"},
               arg : AllDbs \cup Users, pc : {"idle", "connect", "open", "auth", "select", "run"},
               via : {"none", "pconnect", "open", "eof", "reconnect"},
               resume : {"none", "auth", "select", "run"}]
  /\ rekeys \in 0..MaxRekeys
  /\ torn \subseteq {"other", "slipped"}

Holders(s)  == {o \in Objects : sock[o].stream = s}
Places(s)   == {p \in Creds \X (1..Cardinality(Streams)) :
                  p[2] <= Len(pool[p[1]].idle) /\ pool[p[1]].idle[p[2]] = s}
OpenStreams == {s \in Streams : server[s].open}
StreamsOf(a) ==
  ToSet(pool[a].idle) \cup {s \in Streams : \E o \in Holders(s) : PoolOf(sock[o]) = a}

\* A stream is with one object or once in one pool until it is closed: none is shared, none lost.
OneOwner ==
  \A s \in Streams :
    Cardinality(Holders(s)) + Cardinality(Places(s)) = IF server[s].open THEN 1 ELSE 0

\* nb_active counts the streams of a pool, until auth() takes a stream to another pool.
EachCounted ==
  rekeys = 0 => \A a \in Creds : /\ pool[a].active = Cardinality(StreamsOf(a))
                                 /\ ini.limit > 0 => pool[a].active <= ini.limit

\* All pools together count all streams, even then.
AllCounted == MapThenSumSet(LAMBDA a : pool[a].active, Creds) = Cardinality(OpenStreams)

\* However streams are borrowed, given back, found dead, closed and reconnected, each has one owner
\* and is counted once, so connection_limit limits the streams (nb_active, library.c).
Accounted == OneOwner /\ EachCounted /\ AllCounted

\* No object reads what another left unread on its stream: the ECHO of the probe finds it, and without
\* the probe redis_stream_detect_dirty finds what has arrived.
OwnReplies ==
  /\ "other" \in torn   => ~ini.echo /\ ini.dirty = 0
  /\ "slipped" \in torn => ~ini.echo

\* A method runs in the database and as the user its object chose, in a transaction only if the object
\* has begun one.  An object that chose none gets those of the stream, and keys somebody watches, only
\* with a stream from a pool; reconnect() gives it a stream that nobody had.
OwnSession ==
  /\ At("run") /\ stream # None /\ ~server[stream].astray /\ alive =>
       LET s == server[stream] IN
         /\ mine.db # 0 \/ ~s.reused => s.db = mine.db
         /\ (mine.auth # NoAuth \/ ~s.reused) /\ call.m # "auth" => s.user = mine.auth
         /\ s.watch /\ ~s.reused => mine.watching
         /\ s.tx => mine.mode = "MULTI"
  /\ call.m = "reconnect" /\ call.pc \in {"auth", "select"} => ~server[stream].reused
=============================================================================
