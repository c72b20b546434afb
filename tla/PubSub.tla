------------------------------- MODULE PubSub -------------------------------
(***************************************************************************)
(* subscribe(), psubscribe() and their opposites on one Redis object: the   *)
(* loop of redis_subscribe_response (library.c) hands messages to callbacks *)
(* of the application, which call the same object again, so that loops,     *)
(* acknowledgements and messages share one connection.                      *)
(*                                                                         *)
(* A method call is a frame of "stack", a callback runs on top of the loop  *)
(* that called it.  The server handles a command when it is written; what   *)
(* the client reads late is what matters.  Opening a connection, databases  *)
(* and transactions are those of module Connection.                         *)
(***************************************************************************)
EXTENDS Naturals, Sequences, FiniteSets, SequencesExt

CONSTANTS
  Names,        \* channels, and the patterns that match just them
  MaxCalls,     \* bound on method calls of the application
  MaxMessages,  \* bound on published messages
  MaxFaults,    \* bound on lost connections, timeouts and refusals
  None          \* the name in a reply that has none

ASSUME NoneAssumption   == None \notin Names
ASSUME NamesAssumption  == IsFiniteSet(Names)
ASSUME BoundsAssumption == {MaxCalls, MaxMessages, MaxFaults} \subseteq Nat

VARIABLES
  subs,    \* RedisSock.subs: for each kind a table, or NULL (open = FALSE), of callbacks by name
  stack,   \* the method calls under way, the innermost last
  thrown,  \* an exception of a callback is pending
  up,      \* RedisSock.stream # NULL
  server,  \* whether the server still has the connection, and its subscriptions
  inbox,   \* what the server has sent and the client has not read
  wanted,  \* history: the callback the application last gave for each subscription
  due,     \* history: messages sent on this connection and not handed to a callback
  calls, faults, published,  \* counters, for the bounds and to name callbacks and messages
  torn     \* history: what has set the client and the server apart

sock == <<subs, up>>
net  == <<server, inbox>>
seen == <<wanted, due>>
vars == <<sock, stack, thrown, net, seen, calls, faults, published, torn>>

Kinds   == {"subscribe", "psubscribe"}
Off     == [subscribe |-> "unsubscribe", psubscribe |-> "punsubscribe"]
Message == [subscribe |-> "message", psubscribe |-> "pmessage"]
Subscription == Kinds \X Names

\* raced: a message was read where a reply was expected.  otherKind: a loop read a message for the
\* other kind's table.  reconnected: a connection was made again below a loop.  stale: subscribe()
\* found the table of a loop that was lost.  thrown: a loop met a message while an exception was
\* pending.  stoppedShort: the payload of a message was late.
Events == {"raced", "otherKind", "reconnected", "stale", "thrown", "stoppedShort"}

\* id numbers messages, callbacks are numbered by the call they were given to; 0 is none.
Item == [type : Kinds \cup {Off[k] : k \in Kinds} \cup {Message[k] : k \in Kinds} \cup {"error", "line", "rest"},
         name : Names \cup {None}, id : 0..MaxMessages]
Reply(type, name) == [type |-> type, name |-> name, id |-> 0]
IsMessage(item)   == item.type \in {Message[k] : k \in Kinds}
KindOf(item)      == CHOOSE k \in Kinds : Message[k] = item.type
\* The messages of q (SelectSeq, as a recursive function).
Messages(q) ==
  LET m[i \in 0..Len(q)] ==
        IF i = 0 THEN <<>> ELSE IF IsMessage(q[i]) THEN Append(m[i - 1], q[i]) ELSE m[i - 1]
  IN m[Len(q)]

NoNames  == [n \in Names |-> 0]
NoTable  == [open |-> FALSE, cb |-> NoNames]
NoWants  == [s \in Subscription |-> 0]
Fresh    == [alive |-> TRUE, subs |-> {}]
Gone     == [alive |-> FALSE, subs |-> {}]

\* A call: left is sctx->argc, built the table of redis_subscribe_response, cb the callback that runs.
Frame(m, id, left, pc) == [m |-> m, id |-> id, left |-> left, built |-> NoNames, cb |-> 0, pc |-> pc]
Top    == Last(stack)
In(pc) == stack # <<>> /\ Top.pc = pc
Looping(k) == \E i \in 1..Len(stack) : stack[i].m = k /\ stack[i].pc \in {"loop", "callback"}

\* The application acts: outside of all calls, or in a callback that has not thrown.
Acts == (stack = <<>> \/ In("callback")) /\ ~thrown

-----------------------------------------------------------------------------
(* Parts of actions. *)

SetTop(f) == stack' = Front(stack) \o <<f>>

\* The call returns to the callback or the script that made it.
Returns == /\ stack' = Front(stack)
           /\ thrown' = (thrown /\ Len(stack) > 1)

\* The call throws, into the callback that made it; the script sees what the outermost call throws.
Throws == /\ stack' = Front(stack)
          /\ thrown' = (Len(stack) > 1)

Disconnected ==
  /\ up' = FALSE /\ server' = Gone /\ inbox' = <<>>
  /\ wanted' = NoWants /\ due' = <<>>

Torn(e) == torn' = torn \cup {e}

Fault == /\ faults < MaxFaults
         /\ faults' = faults + 1

-----------------------------------------------------------------------------
(* The server and the network. *)

\* A message for each subscription that covers the name.
Publish(n) ==
  LET Copy(k) == IF <<k, n>> \in server.subs
                 THEN <<[type |-> Message[k], name |-> n, id |-> published + 1]>> ELSE <<>>
      mine    == Copy("subscribe") \o Copy("psubscribe")
  IN /\ server.alive /\ mine # <<>> /\ published < MaxMessages
     /\ inbox' = inbox \o mine /\ due' = due \o mine
     /\ published' = published + 1
     /\ UNCHANGED <<sock, stack, thrown, server, wanted, calls, faults, torn>>

\* The server closes the connection: the end of what it sent may be lost.
ServerCloses ==
  /\ server.alive /\ Fault
  /\ server' = Gone
  /\ \E i \in 0..Len(inbox) :
       /\ inbox' = SubSeq(inbox, 1, i)
       /\ due' = Messages(inbox')
  /\ UNCHANGED <<sock, stack, thrown, wanted, calls, published, torn>>

-----------------------------------------------------------------------------
(* A method call, until its command is written. *)

\* The connection the command is written to: the one there is, or a new one if there is none
\* (redis_sock_server_open) or it is at its end (redis_check_eof, which knows nothing of loops).
Reopened == ~up \/ (~server.alive /\ inbox = <<>>)

\* What the server, in state s, and the records become when command m is written.
Written(m, names, id, f) ==
  LET s == IF Reopened THEN Fresh ELSE server
      w == IF Reopened THEN NoWants ELSE wanted
      given(subset, value) == [p \in Subscription |-> IF p \in subset THEN value ELSE w[p]]
      replies(type) == [i \in 1..Cardinality(names) |-> Reply(type, SetToSeq(names)[i])]
      Answers(set, want, items) ==
        /\ server' = [s EXCEPT !.subs = IF s.alive THEN set ELSE @]
        /\ wanted' = IF s.alive THEN want ELSE w
        /\ inbox' = IF s.alive THEN inbox \o items ELSE inbox
  IN /\ up' = TRUE
     /\ calls' = calls + 1
     /\ stack' = Append(stack, f)
     /\ torn' = IF Reopened /\ stack # <<>> THEN torn \cup {"reconnected"} ELSE torn
     /\ UNCHANGED <<subs, thrown, due, published>>
     /\ \/ /\ m \in Kinds
           /\ Answers(s.subs \cup ({m} \X names), given({m} \X names, id), replies(m))
           /\ UNCHANGED faults
        \/ /\ m \in Kinds /\ Fault /\ Answers(s.subs, w, <<Reply("error", None)>>)
        \/ /\ \E k \in Kinds : Off[k] = m /\ Answers(s.subs \ ({k} \X names), given({k} \X names, 0), replies(m))
           /\ UNCHANGED faults
        \/ /\ m = "command"
           /\ Answers(s.subs, w, <<Reply(IF s.subs = {} THEN "line" ELSE "error", None)>>)
           /\ UNCHANGED faults

\* After an event of torn the application only connects again (bound).
MayCall == Acts /\ calls < MaxCalls /\ torn = {}

Subscribe(k, names) ==
  /\ MayCall /\ names # {}
  /\ Written(k, names, calls + 1, Frame(k, calls + 1, Cardinality(names), "acks"))

\* redis_unsubscribe_cmd refuses an empty array.
Unsubscribe(k, names) ==
  /\ MayCall /\ names # {}
  /\ Written(Off[k], names, 0, Frame(Off[k], 0, Cardinality(names), "unacks"))

\* Any other command: the server refuses it while there are subscriptions.
Command ==
  /\ MayCall
  /\ Written("command", {}, 0, Frame("command", 0, 0, "reply"))

\* No connection can be made, which throws, or the write fails: the call ends at once.
CallFails ==
  /\ MayCall /\ Fault
  /\ Disconnected
  /\ thrown' \in {FALSE, stack # <<>>}
  /\ calls' = calls + 1
  /\ UNCHANGED <<subs, stack, published, torn>>

Close ==
  /\ MayCall /\ up
  /\ Disconnected
  /\ calls' = calls + 1
  /\ UNCHANGED <<subs, stack, thrown, faults, published, torn>>

\* connect() makes a new RedisSock.  In a callback it would free the one its loop is using.
Connect ==
  /\ stack = <<>> /\ calls < MaxCalls
  /\ subs' = [k \in Kinds |-> NoTable]
  /\ up' \in BOOLEAN
  /\ server' = IF up' THEN Fresh ELSE Gone
  /\ inbox' = <<>> /\ wanted' = NoWants /\ due' = <<>> /\ torn' = {}
  /\ calls' = calls + 1
  /\ UNCHANGED <<stack, thrown, faults, published>>

-----------------------------------------------------------------------------
(* Reading. *)

Arrived == up /\ inbox # <<>>
item    == Head(inbox)
Reads   == Arrived /\ inbox' = Tail(inbox)
\* A message that is read as something else will be handed to nobody.
Swallows == IF IsMessage(item) THEN Torn("raced") ELSE UNCHANGED torn

\* The acknowledgements of subscribe(): each must be for its own command.
ReadAck ==
  /\ In("acks") /\ Top.left > 0 /\ Reads
  /\ IF item.type = Top.m
     THEN /\ SetTop([Top EXCEPT !.left = @ - 1, !.built[item.name] = Top.id])
          /\ UNCHANGED thrown
     ELSE Returns
  /\ Swallows
  /\ UNCHANGED <<sock, server, seen, calls, faults, published>>

\* Variants: a second subscribe() replaces the table of the first; it keeps the callbacks there are.
MergedReplaces(table, built) == built
MergedKeeps(table, built)    == [n \in Names |-> IF table[n] # 0 THEN table[n] ELSE built[n]]

\* The new callbacks beside those of the table, or in their place.
Merged(table, built) == [n \in Names |-> IF built[n] # 0 THEN built[n] ELSE table[n]]

\* All have come: into the table of the loop that runs, or a loop of its own.
Subscribed ==
  /\ In("acks") /\ Top.left = 0
  /\ LET k == Top.m IN
       IF subs[k].open
       THEN /\ subs' = [subs EXCEPT ![k].cb = Merged(@, Top.built)]
            /\ IF Looping(k) THEN UNCHANGED torn ELSE Torn("stale")
            /\ Returns
       ELSE /\ subs' = [subs EXCEPT ![k] = [open |-> TRUE, cb |-> Top.built]]
            /\ SetTop([Top EXCEPT !.pc = "loop"])
            /\ UNCHANGED <<thrown, torn>>
  /\ UNCHANGED <<up, net, seen, calls, faults, published>>

\* redis_unsubscribe_response takes what comes for an acknowledgement if it has a name.
ReadUnack ==
  /\ In("unacks") /\ Top.left > 0 /\ Reads
  /\ IF item.name \in Names
     THEN LET k == CHOOSE j \in Kinds : Off[j] = Top.m IN
          /\ subs' = [subs EXCEPT ![k].cb[item.name] = 0]
          /\ SetTop([Top EXCEPT !.left = @ - 1])
          /\ UNCHANGED thrown
     ELSE Returns /\ UNCHANGED subs
  /\ Swallows
  /\ UNCHANGED <<up, server, seen, calls, faults, published>>

\* Variants: the table is freed with names in it; it is never freed.
KeptNever(table) == [table EXCEPT !.open = FALSE]
KeptAlways(table) == table

\* The table is freed with its last name, which ends its loop.
Kept(table) == [table EXCEPT !.open = @ /\ table.cb # NoNames]

Unsubscribed ==
  /\ In("unacks") /\ Top.left = 0
  /\ LET k == CHOOSE j \in Kinds : Off[j] = Top.m IN subs' = [subs EXCEPT ![k] = Kept(@)]
  /\ Returns
  /\ UNCHANGED <<up, net, seen, calls, faults, published, torn>>

\* The reader of another command takes the header of a message for its reply, and leaves the rest.
ReadReply ==
  /\ In("reply") /\ Arrived
  /\ inbox' = IF item.type \in {"line", "error", "rest"} THEN Tail(inbox)
                                                         ELSE <<Reply("rest", None)>> \o Tail(inbox)
  /\ Returns /\ Swallows
  /\ UNCHANGED <<sock, server, seen, calls, faults, published>>

-----------------------------------------------------------------------------
(* The loop of redis_subscribe_response. *)

LoopEnds ==
  /\ In("loop") /\ ~subs[Top.m].open
  /\ Returns
  /\ UNCHANGED <<sock, net, seen, calls, faults, published, torn>>

\* The loop goes on to read.
LoopReads == In("loop") /\ subs[Top.m].open

\* The callback under the name of the message, in the table of this loop.
Callback == subs[Top.m].cb[item.name]
\* A loop of one kind does not expect messages of the other.
Mixed == IF KindOf(item) # Top.m THEN Torn("otherKind") ELSE UNCHANGED torn

\* A message is handed over, which ends its being due.
HandOver ==
  /\ LoopReads /\ Reads /\ IsMessage(item) /\ ~thrown
  /\ Callback # 0
  /\ SetTop([Top EXCEPT !.pc = "callback", !.cb = Callback])
  /\ due' = IF due # <<>> THEN Tail(due) ELSE due
  /\ Mixed
  /\ UNCHANGED <<sock, thrown, server, wanted, calls, faults, published>>

\* Nothing is registered under the name: the loop returns FALSE and leaves the subscriptions.
NoCallback ==
  /\ LoopReads /\ Reads /\ IsMessage(item)
  /\ Callback = 0
  /\ Returns /\ Mixed
  /\ UNCHANGED <<sock, server, seen, calls, faults, published>>

\* zend_call_function calls nothing while an exception is pending: the loop ends or goes on,
\* depending on the version of PHP.
Pending ==
  /\ LoopReads /\ Reads /\ IsMessage(item) /\ thrown
  /\ Returns \/ UNCHANGED <<stack, thrown>>
  /\ Torn("thrown")
  /\ UNCHANGED <<sock, server, seen, calls, faults, published>>

\* Other arrays are skipped, anything else is no array and ends the loop.
NotAMessage ==
  /\ LoopReads /\ Reads /\ ~IsMessage(item)
  /\ IF item.name \in Names THEN UNCHANGED <<stack, thrown>> ELSE Returns
  /\ UNCHANGED <<sock, server, seen, calls, faults, published, torn>>

\* The payload of a message is late: redis_sock_read_bulk_reply throws and leaves the rest, and
\* the callback is skipped or fails, as in Pending.
StopsShort ==
  /\ LoopReads /\ Arrived /\ IsMessage(item) /\ Fault
  /\ inbox' = <<Reply("rest", None)>> \o Tail(inbox)
  /\ Throws \/ (thrown' = TRUE /\ UNCHANGED stack)
  /\ Torn("stoppedShort")
  /\ UNCHANGED <<sock, server, seen, calls, published>>

CallbackReturns ==
  /\ In("callback")
  /\ SetTop([Top EXCEPT !.pc = "loop", !.cb = 0])
  /\ thrown' \in {thrown, TRUE}
  /\ UNCHANGED <<sock, net, seen, calls, faults, published, torn>>

CallbackCatches ==
  /\ In("callback") /\ thrown
  /\ thrown' = FALSE
  /\ UNCHANGED <<sock, stack, net, seen, calls, faults, published, torn>>

-----------------------------------------------------------------------------
(* Reads that fail. *)

Reading == LoopReads \/ In("reply") \/ ((In("acks") \/ In("unacks")) /\ Top.left > 0)

\* redis_check_eof, without reconnecting: no connection, or it is at its end.
ReadSeesEof ==
  /\ Reading /\ ~Arrived /\ ~server.alive
  /\ Disconnected
  /\ Throws
  /\ UNCHANGED <<subs, calls, faults, published, torn>>

\* redis_sock_gets closes the connection after the read timeout.
ReadTimesOut ==
  /\ Reading /\ up /\ ~Arrived /\ Fault
  /\ Disconnected
  /\ Throws
  /\ UNCHANGED <<subs, calls, published, torn>>

-----------------------------------------------------------------------------
Init ==
  /\ subs = [k \in Kinds |-> NoTable]
  /\ stack = <<>> /\ thrown = FALSE
  /\ up = TRUE /\ server = Fresh /\ inbox = <<>>
  /\ wanted = NoWants /\ due = <<>>
  /\ calls = 0 /\ faults = 0 /\ published = 0
  /\ torn = {}

\* What a call does by itself; a callback returns some time.
Client ==
  \/ ReadAck \/ Subscribed \/ ReadUnack \/ Unsubscribed \/ ReadReply
  \/ LoopEnds \/ HandOver \/ NoCallback \/ Pending \/ NotAMessage
  \/ ReadSeesEof \/ CallbackReturns

Application ==
  \/ \E k \in Kinds, names \in SUBSET Names : Subscribe(k, names) \/ Unsubscribe(k, names)
  \/ Command \/ CallFails \/ Close \/ Connect \/ CallbackCatches

Environment == ServerCloses \/ StopsShort \/ ReadTimesOut \/ \E n \in Names : Publish(n)

Next == Application \/ Client \/ Environment

Spec == Init /\ [][Next]_vars

\* A call goes on as long as there is something to read or the connection is at its end, and
\* callbacks return.  Nothing is assumed of publishers, and no timeout is counted on.
FairSpec == Spec /\ WF_vars(Client)

-----------------------------------------------------------------------------
(* Properties. *)

FrameOK(f) ==
  /\ f.m \in Kinds \cup {Off[k] : k \in Kinds} \cup {"command"}
  /\ f.pc \in {"acks", "unacks", "reply", "loop", "callback"}
  /\ f.id \in 0..MaxCalls /\ f.cb \in 0..MaxCalls /\ f.left \in 0..Cardinality(Names)
  /\ f.built \in [Names -> 0..MaxCalls]
  /\ f.pc \in {"loop", "callback"} => f.m \in Kinds

\* Every variable has its type; a table that is NULL holds no callbacks.
TypeOK ==
  /\ subs \in [Kinds -> [open : BOOLEAN, cb : [Names -> 0..MaxCalls]]]
  /\ \A k \in Kinds : ~subs[k].open => subs[k] = NoTable
  /\ \A i \in 1..Len(stack) : FrameOK(stack[i])
  /\ thrown \in BOOLEAN /\ up \in BOOLEAN
  /\ server \in [alive : BOOLEAN, subs : SUBSET Subscription]
  /\ inbox \in Seq(Item) /\ due \in Seq(Item)
  /\ wanted \in [Subscription -> 0..MaxCalls]
  /\ calls \in 0..MaxCalls /\ faults \in 0..MaxFaults /\ published \in 0..MaxMessages
  /\ torn \subseteq Events

\* However calls are nested in callbacks, each message is handed over once, in order, and to the
\* callback the application last gave for it (redis_subscribe_response).
Delivered ==
  [][torn' = {} =>
       /\ due' = Messages(inbox')
       /\ In("loop") /\ Len(stack') = Len(stack) /\ Last(stack').pc = "callback" =>
            Last(stack').cb = wanted[<<KindOf(item), item.name>>]]_vars

\* The names in the tables of the loops that run are the subscriptions of the server: none is forgotten
\* by one side, and when all calls have returned the connection has no subscription and nothing to read,
\* so the next command gets its own reply ("PhpRedis leaves pub/sub mode", README.md).
SubscriptionsMirrored ==
  torn = {} /\ up /\ server.alive /\ (stack = <<>> \/ In("loop") \/ In("callback")) =>
    /\ server.subs = {s \in Subscription : Looping(s[1]) /\ subs[s[1]].cb[s[2]] # 0}
    /\ stack = <<>> => inbox = <<>>

\* When the last subscription is gone, by unsubscribing or with the connection, all loops end: none
\* waits for a message that cannot come.
LoopsReturn ==
  (stack # <<>> /\ wanted = NoWants) ~> (stack = <<>> \/ wanted # NoWants \/ torn # {})
=============================================================================
