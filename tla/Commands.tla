------------------------------ MODULE Commands ------------------------------
(***************************************************************************)
(* One method called on Redis and on RedisCluster: the command each builds,  *)
(* what the server makes of it, and what each reads out of the reply, outside *)
(* of MULTI and among the replies of an EXEC.  The reply is followed by that  *)
(* to the next command, which no handler may touch.                          *)
(***************************************************************************)
EXTENDS Methods, RedisMethods, ClusterMethods, ServerReplies

CONSTANT Calls    \* the methods called, each with its request: [m, r]

\* pc is idle, sent, answered or read; call the method, its request, and whether it is
\* within MULTI; sent the command each client built, as the server gets it, or none; wire
\* the reply on its way to each client, and what follows it; got what each made of it.
VARIABLES pc, call, sent, wire, got

vars == <<pc, call, sent, wire, got>>

Clients     == {"redis", "cluster"}
ClusterOnly == {"LGET", "DECRBYFLOAT"}
RedisOnly   == {"AUTH", "FAILOVER", "FUNCTION", "MIGRATE", "SELECT", "SORTASC", "SORTASCALPHA", "SORTDESC",
                "SORTDESCALPHA", "DEBUG", "FCALL", "FCALL_RO", "MOVE", "REPLICAOF", "SLAVEOF", "SWAPDB",
                "SSUBSCRIBE", "SUNSUBSCRIBE", "SERVERNAME", "SERVERVERSION", "WATCH", "UNWATCH",
                "DEL", "UNLINK", "MGET", "MSET", "MSETNX", "KEYS", "UNSUBSCRIBE", "PUNSUBSCRIBE"}
Directed(client, m) == client = "cluster" /\ m \in DirectedMethods
Unanswered == {"SUBSCRIBE", "PSUBSCRIBE", "SSUBSCRIBE", "UNSUBSCRIBE", "PUNSUBSCRIBE", "SUNSUBSCRIBE"}

Scans == {"SCAN", "SSCAN", "HSCAN", "ZSCAN"}
\* What a client can be asked for, and where.
Offers(client, m, mode) ==
  /\ m \notin (IF client = "redis" THEN ClusterOnly ELSE RedisOnly)
  /\ mode = "exec" => m \notin (IF client = "redis" THEN Scans ELSE AtomicOnly)

CommandOf(client, m, r) ==
  CASE Directed(client, m) -> DirectedCommand(m, r)
    [] client = "cluster" /\ m = "EXPIREMEMBERAT" -> redis_expiremember_cmd(m, r)
    [] OTHER -> Command(m, r)

-----------------------------------------------------------------------------
(* What the server does with a command. *)

NoSent  == [Empty(FALSE) EXCEPT !.refused = TRUE] @@ [kw |-> "", ctx |-> ""]
Sent(client, cmd) == Assemble(client = "cluster", cmd) @@ [kw |-> cmd.kw, ctx |-> cmd.ctx]
Goes(client) == ~sent[client].refused

\* A directed command within MULTI waits for the type of reply it has outside of it, unless it says otherwise.
Queued(client) ==
  Directed(client, call.m) =>
    reply_type(call.m, call.r.op, call.r.n > 0, FALSE) \in {"", "+"}

-----------------------------------------------------------------------------
(* What a client makes of a reply. *)

NextReply  == Bulk("next")
NoAnswer == Answer(<<>>, FALSE, <<>>, FALSE)
Context(client) == [mode |-> sent[client].ctx, n |-> call.r.n, op |-> call.r.op,
                    count |-> "count" \in call.r.o]

\* cluster_send_slot: a reply of another type than the command waits for is left there.
Awaited(c) ==
  LET type == reply_type(call.m, call.r.op, call.r.n > 0, TRUE)
  IN Directed("cluster", call.m) => type \in {"", c.t}

ClusterRead(in) ==
  LET h == cluster_check_response(in)
      refused == call.mode = "atomic" /\ (~Awaited(h.c) \/ (h.c.t = "-" /\ call.m \notin DirectedMethods))
  IN IF refused THEN Refuses(h.in) ELSE ClusterReads(call.m, h.c, h.in, Context("cluster"))

\* A client that queued no handler leaves the reply for the next one.
ReadBy(client, in) ==
  CASE in = <<>> -> NoAnswer
    [] in # <<>> /\ call.mode = "exec" /\ ~Queued(client) -> Answer(in, FALSE, <<>>, FALSE)
    [] OTHER -> IF client = "redis" THEN RedisReads(call.m, in, Context("redis")) ELSE ClusterRead(in)

-----------------------------------------------------------------------------
(* The machine. *)

NoCall == [m |-> "", r |-> Request(<<>>, "", {}, 0, FALSE), mode |-> "atomic"]
NoWire == [c \in Clients |-> <<>>]

Init ==
  /\ pc = "idle"
  /\ call = NoCall
  /\ sent = [c \in Clients |-> NoSent]
  /\ wire = NoWire
  /\ got = [c \in Clients |-> NoAnswer]

\* Both build their command, and each that could sends it.
Call ==
  /\ pc = "idle"
  /\ \E a \in Calls, mode \in {"atomic", "exec"} :
       /\ call' = [m |-> a.m, r |-> a.r, mode |-> mode]
       /\ sent' = [c \in Clients |->
                     IF Offers(c, a.m, mode) THEN Sent(c, CommandOf(c, a.m, a.r)) ELSE NoSent]
       /\ pc' = "sent"
  /\ UNCHANGED <<wire, got>>

\* One reply, to all who sent the same.
Serve ==
  /\ pc = "sent"
  /\ call.m \notin Unanswered
  /\ \E c \in Clients :
       /\ Goes(c)
       /\ \E reply \in MayAnswer(sent[c].kw, sent[c].args) :
            wire' = [d \in Clients |->
                       IF Goes(d) /\ sent[d].kw = sent[c].kw /\ sent[d].args = sent[c].args
                       THEN reply \o NextReply ELSE <<>>]
  /\ pc' = "answered"
  /\ UNCHANGED <<call, sent, got>>

Read ==
  /\ pc = "answered"
  /\ got' = [c \in Clients |-> ReadBy(c, wire[c])]
  /\ pc' = "read"
  /\ UNCHANGED <<call, sent, wire>>

Return ==
  /\ \/ pc = "read"
     \/ pc = "sent" /\ (call.m \in Unanswered \/ \A c \in Clients : ~Goes(c))
  /\ pc' = "idle"
  /\ call' = NoCall
  /\ sent' = [c \in Clients |-> NoSent]
  /\ wire' = NoWire
  /\ got' = [c \in Clients |-> NoAnswer]

Next == Call \/ Serve \/ Read \/ Return
Spec == Init /\ [][Next]_vars

-----------------------------------------------------------------------------
(* What a command must be. *)

IsKey(p)     == p.is \in {"key", "channel"}
KeyPlaces(a) == {i \in DOMAIN a : IsKey(a[i])}
KeysIn(a)    == {a[i].n : i \in KeyPlaces(a)}
Asked        == ToSet(call.r.ks)
InFlight     == {c \in Clients : pc # "idle" /\ Goes(c)}
InClusterFlight == InFlight \cap {"cluster"}

\* Of the methods that send keys word for word only this one takes them as something else:
\* RedisCluster::himport, whose key picks the node it registers the fields with.
OnlyPicksNode == call.m = "HIMPORT" /\ call.r.op # "SET"

(* A command that goes out names every key the caller gave it, whichever of    *)
(* them share a slot: a key of another slot refuses the command, it is never    *)
(* left out of it (redis_cmd_try_cat_key against redis_cmd_cat_key).           *)
EveryKeyIsSent ==
  \A c \in InFlight :
    LET a == sent[c].args
        word == Cardinality({i \in DOMAIN a : a[i].is = "rawkey"})
    IN OnlyPicksNode \/ Asked \subseteq KeysIn(a) \/ word = Len(call.r.ks)

\* Any node does for channels that the cluster broadcasts.  XGROUP HELP names no key and, unlike other
\* commands without one, has no slot drawn for it: redis_cmd_finalize ends the script there.
NodeDoesNotMatter == call.m \in {"SUBSCRIBE", "PSUBSCRIBE"} \/ (call.m = "XGROUP" /\ call.r.op = "HELP")

(* On a cluster a command has a slot, and it is that of each of its keys with   *)
(* the prefix: the node it is sent to owns them all (update_slot).              *)
OneSlot ==
  \A c \in InClusterFlight :
    NodeDoesNotMatter \/ /\ sent[c].slot # NoSlot
                         /\ \A k \in KeysIn(sent[c].args) : SlotOf[k] = sent[c].slot

\* Redis::debug prefixes what is a subcommand; RedisCluster::pubsub leaves channels unprefixed.
PrefixedAstray(c) == call.m = "DEBUG" \/ (c = "cluster" /\ call.m = "PUBSUB")

(* A command on its way has all the keys of the caller, on the node it goes to.  *)
KeysArrive == EveryKeyIsSent /\ OneSlot

(* What is prefixed and hashed as a key is what the server takes for one, with  *)
(* every option and number of members before it: a key elsewhere loses the      *)
(* prefix, anything else would get it (all builders of redis_commands.c).       *)
KeysWhereServerLooks ==
  \A c \in InFlight :
    PrefixedAstray(c) \/ KeyPlaces(sent[c].args) = KeysAt(sent[c].kw, sent[c].args)

(* A number of keys or fields is followed by as many of them and then by        *)
(* something else, whichever options come before and after (redis_mpop_cmd,      *)
(* redis_intercard_cmd, redis_hsetex_cmd, redis_eval_cmd and their like).       *)
CountsAnnounced ==
  \A c \in InFlight : LET a == sent[c].args IN
    \A i \in DOMAIN a : a[i].is = "num" =>
      LET one == IF i < Len(a) THEN a[i + 1].is ELSE ""
          two == IF i + 1 < Len(a) /\ a[i + 2].packed THEN a[i + 2].is ELSE ""
          item == IF two = "" THEN <<one>> ELSE <<one, two>>
          ends == i + a[i].n * Len(item)
      IN a[i].n > 0 => /\ ends <= Len(a)
                       /\ \A j \in (i + 1)..ends : a[j].is = item[((j - i - 1) % Len(item)) + 1]
                       /\ ends < Len(a) => a[ends + 1].is # one

(* However the caller combines options, no two that the server takes for        *)
(* contradictory are sent together: the builders keep one of them or refuse      *)
(* (redis_cmd_cat_expiry, redis_get_zcmd_options and their like).               *)
ExclusiveOptions ==
  \A c \in InFlight : \A g \in Rivals(sent[c].kw) :
    Cardinality(g \cap Said(sent[c].args)) <= 1

(* The server reads from a command what the caller put into it: keys as keys, each *)
(* list as long as announced, no option against another.                          *)
ArgumentsInPlace == KeysWhereServerLooks /\ CountsAnnounced /\ ExclusiveOptions

\* Builders that pass a member on as it is, though others serialize it; and the arguments of scripts.
Unserialized ==
  {"EVAL", "EVAL_RO", "EVALSHA", "EVALSHA_RO", "EXPIREMEMBER", "EXPIREMEMBERAT", "GEODIST",
   "GEORADIUSBYMEMBER", "GEORADIUSBYMEMBER_RO", "GEOSEARCH", "GEOSEARCHSTORE"}

(* A value that is compared with stored ones, or looked up among them, went      *)
(* through the serializer like them, whatever the command that names it          *)
(* (redis_cmd_cat_zval against redis_cmd_cat_zstr).                            *)
PackedAlike ==
  \A c \in InFlight : \A i \in DOMAIN sent[c].args :
    sent[c].args[i].is \in {"value", "place"} =>
      sent[c].args[i].packed \/ call.m \in Unserialized

\* RedisCluster sends these to a replica even when they write: GETDEL, and GEORADIUS with STORE.
WritesOnReplica == {"GETDEL", "GEORADIUS", "GEORADIUSBYMEMBER"}

(* With failover to replicas, what RedisCluster may send to a replica is no      *)
(* write, whatever its options (the readonly argument of CLUSTER_PROCESS_CMD).   *)
ReadonlyMeansRead ==
  \A c \in InClusterFlight :
    call.m \in Readonly \ WritesOnReplica => ~IsWrite(sent[c].kw, sent[c].args)

(* What is made of a reply. *)

Answered   == {c \in Clients : pc = "read" /\ wire[c] # <<>>}
IsError(c) == FirstOf(wire[c]).t = "-"
InExec     == call.mode = "exec"

\* RedisCluster waits for the wrong type of reply, and throws, while the server has queued the command.
TypeMistaken(c) == c = "cluster" /\ InExec /\ call.m \in {"WAIT", "WAITAOF"}
\* Handlers that take an error, or a nil among the elements, for something of another length.
ErrorHalfRead(c) ==
  IsError(c) /\ (\/ call.m = "ACL" /\ call.r.op \in {"GETUSER", "LOG"} /\ c = "redis"
                 \/ InExec /\ c = "cluster" /\ call.m \in {"INFO", "CLIENT"})
NilHalfRead(c) == call.m = "XCLAIM" \/ (call.m = "GEOHASH" /\ c = "cluster")
HoldsNil(c) == \E i \in 2..Len(wire[c]) : wire[c][i] = Tok("$", -1, "")

(* A handler reads its reply to the end and nothing beyond it, whatever the      *)
(* server answers, errors and nils included: the next command on the connection  *)
(* finds its own reply (every handler of library.c and cluster_library.c).       *)
WholeReplyRead ==
  \A c \in Answered :
    \/ got[c].in = NextReply
    \/ TypeMistaken(c) \/ ErrorHalfRead(c) \/ (NilHalfRead(c) /\ HoldsNil(c))

\* Handlers that give members and values as the server has them.
GivesRaw ==
  {"GEORADIUS", "GEORADIUS_RO", "GEORADIUSBYMEMBER", "GEORADIUSBYMEMBER_RO", "GEOSEARCH", "SORT", "SORT_RO",
   "SORTASC", "SORTASCALPHA", "SORTDESC", "SORTDESCALPHA", "HRANDFIELD", "ZDIFF", "ZINTER", "ZUNION",
   "ZRANDMEMBER"}

(* What went to the server through the serializer comes back through it, from     *)
(* whichever reply shape the options made of it, and nothing that did not is      *)
(* taken for it in its place (redis_unpack at the right elements).               *)
RoundTrip ==
  \A c \in Answered : \A i \in DOMAIN got[c].els :
    got[c].els[i].v = "packed" =>
      got[c].els[i].as = "unpacked" \/ call.m \in GivesRaw \/ call.m = "VLINKS"

(* Both ways through the serializer, or none.                                      *)
Serialized == PackedAlike /\ RoundTrip

\* A serializer leaves alone what it did not write; false and null are told apart by the option alone.
Normal(el) ==
  CASE el.as \in {"false", "null", "NULL", "empty"} -> False
    [] el.as = "unpacked" /\ el.v # "packed"        -> [el EXCEPT !.as = "raw"]
    [] OTHER                                        -> el
\* Handlers of the two clients that differ, and those that differ when the server refuses.
TakenDifferently == {"BGSAVE", "BGREWRITEAOF", "COMMAND", "GEOHASH", "HRANDFIELD", "PFADD", "WAIT", "WAITAOF"}
RefusedDifferently ==
  {"ACL", "CLIENT", "GETWITHMETA", "HGETWITHMETA", "INFO", "VLINKS", "XINFO", "XRANGE", "XREVRANGE", "XREAD",
   "XREADGROUP"}

(* Redis and RedisCluster make the same of the same reply to the same command,    *)
(* outside of a transaction and among the replies of an EXEC: two handlers        *)
(* written apart for each command (library.c, cluster_library.c).               *)
SameAnswer ==
  Answered = Clients =>
    \/ call.m \in TakenDifferently
    \/ call.m \in RefusedDifferently /\ IsError("redis")
    \/ /\ got["redis"].array = got["cluster"].array
       /\ [i \in DOMAIN got["redis"].els |-> Normal(got["redis"].els[i])]
          = [i \in DOMAIN got["cluster"].els |-> Normal(got["cluster"].els[i])]

\* Redis::info and Redis::client leave an error out of the results.
LeftOut(c) == c = "redis" /\ IsError(c) /\ call.m \in {"INFO", "CLIENT"}

(* Every command of a transaction adds one result to those of exec(), an error    *)
(* or a nil as well: the results line up with the commands (add_next_index_* at   *)
(* each exit of each handler).                                                  *)
OneResultPerCommand ==
  \A c \in Answered : InExec => got[c].adds \/ LeftOut(c) \/ TypeMistaken(c)
=============================================================================
