---------------------------- MODULE ServerReplies ----------------------------
(***************************************************************************)
(* What the server may answer to a command, as the tokens on the wire.  A    *)
(* value is "packed" where it is one the client gave it through its          *)
(* serializer, "num" where it is a number, and "plain" where it is the       *)
(* server's own.                                                            *)
(***************************************************************************)
EXTENDS RedisServer

Line(t, v) == <<Tok(t, 0, ""), Tok("line", 0, v)>>
Ok         == Line("+", "OK")
Error      == Line("-", "ERR")
Num(n)     == <<Tok(":", n, "num")>>
Bulk(v)    == <<Tok("$", 5, v), Tok("body", 0, v)>>
Nil        == <<Tok("$", -1, "")>>
NilArray   == <<Tok("*", -1, "")>>
Array(ws)  == <<Tok("*", Len(ws), "")>> \o FlattenSeq(ws)

P == Bulk("packed")
V == Bulk("plain")
N == Bulk("num")
Name == Bulk("name")
Values    == {Array(<<>>), Array(<<P, P>>)}
Pairs     == {Array(<<>>), Array(<<P, N, P, N>>)}
Plain     == {Array(<<>>), Array(<<V, V>>)}
Message   == Array(<<V, Array(<<V, P>>)>>)
PerField(n, w) == Array([i \in 1..n |-> w])

-----------------------------------------------------------------------------

Statuses == {"AUTH", "SELECT", "FLUSHALL", "FLUSHDB", "SAVE", "HMSET", "LSET", "LTRIM", "MSET", "PSETEX",
             "SETEX", "RENAME", "RESTORE", "PFMERGE", "SWAPDB", "REPLICAOF", "SLAVEOF", "WATCH", "UNWATCH",
             "MIGRATE", "FAILOVER", "DEBUG"}
StartedLater == {"BGSAVE", "BGREWRITEAOF"}
StoredValues == {"GET", "GETDEL", "GETEX", "GETSET", "HGET", "LINDEX", "LMOVE", "BLMOVE", "RPOPLPUSH",
                 "BRPOPLPUSH"}
OwnTexts     == {"ECHO", "GETRANGE", "INFO"}
MaybeTexts   == {"DUMP", "RANDOMKEY", "XADD", "DIGEST", "VGETATTR"}
Floats       == {"GEODIST", "HINCRBYFLOAT", "INCRBYFLOAT", "ZINCRBY", "ZSCORE"}
MaybeOne     == {"LPOP", "RPOP", "SPOP", "SRANDMEMBER", "VRANDMEMBER"}
ValueArrays  == {"HVALS", "LRANGE", "SMEMBERS", "SDIFF", "SINTER", "SUNION", "VRANGE", "ZRANGEBYLEX",
                 "ZREVRANGEBYLEX", "LMOVEM", "BLMOVEM"}
ScoredArrays == {"ZRANGE", "ZREVRANGE", "ZRANGEBYSCORE", "ZREVRANGEBYSCORE", "ZDIFF", "ZINTER", "ZUNION",
                 "VSIM"}
TextArrays   == {"HKEYS", "KEYS", "TIME"}
Outcomes     == {"COPY", "EXPIRE", "EXPIREAT", "EXPIREMEMBER", "EXPIREMEMBERAT", "HEXISTS", "HSETNX", "MOVE",
                 "MSETNX", "PERSIST", "PEXPIRE", "PEXPIREAT", "PFADD", "RENAMENX", "SETNX", "SISMEMBER",
                 "SMOVE", "VISMEMBER", "VADD", "VREM", "VSETATTR"}
FieldInts    == {"HEXPIRE", "HPEXPIRE", "HEXPIREAT", "HPEXPIREAT", "HTTL", "HPTTL", "HEXPIRETIME",
                 "HPEXPIRETIME", "HPERSIST", "SMISMEMBER", "XDELEX", "WAITAOF", "GCRA", "BITRANGEINTARRAY"}
Trees        == {"ROLE", "SLOWLOG", "COMMAND"}
Scripts      == {"EVAL", "EVAL_RO", "EVALSHA", "EVALSHA_RO", "FCALL", "FCALL_RO", "RAWCOMMAND"}
Places       == {"GEORADIUS", "GEORADIUS_RO", "GEORADIUSBYMEMBER", "GEORADIUSBYMEMBER_RO", "GEOSEARCH"}

\* Of a command with subcommands.
SubReplies(kw, op, args) ==
  CASE kw = "CLIENT" -> CASE op \in {"LIST", "INFO"} -> {V}
                          [] op = "GETNAME" -> {V, Nil}
                          [] op \in {"GETREDIR", "ID", "UNBLOCK"} -> {Num(1)}
                          [] op = "TRACKINGINFO" -> {Array(<<Name, Array(<<V>>), Name, Num(0)>>)}
                          [] OTHER -> {Ok}
    [] kw = "CONFIG" -> IF op = "GET" THEN {Array(<<>>), Array(<<Name, V>>)} ELSE {Ok}
    [] kw = "ACL" -> CASE op \in {"LOAD", "SAVE", "SETUSER", "DRYRUN"} \/ "RESET" \in Said(args) -> {Ok}
                       [] op \in {"GENPASS", "WHOAMI"} -> {V}
                       [] op = "DELUSER" -> {Num(1)}
                       [] op = "GETUSER" -> {Array(<<Name, Array(<<V, V>>), Name, V>>)}
                       [] op = "LOG" /\ "RESET" \notin Said(args) ->
                            {Array(<<>>), Array(<<Array(<<Name, Num(1), Name, V, Name, N>>)>>)}
                       [] OTHER -> Plain
    [] kw = "SCRIPT" -> CASE op = "LOAD" -> {V}
                          [] op = "EXISTS" -> {Array(<<Num(1), Num(0)>>)}
                          [] OTHER -> {Ok}
    [] kw = "FUNCTION" -> CASE op \in {"DUMP", "LOAD"} -> {V}
                            [] op \in {"LIST", "STATS"} -> {Array(<<Array(<<Name, V, Name, Array(<<V>>)>>)>>)}
                            [] OTHER -> {Ok}
    [] kw = "PUBSUB" -> CASE op = "NUMPAT" -> {Num(1)}
                          [] op \in {"CHANNELS", "SHARDCHANNELS"} -> Plain
                          [] OTHER -> {Array(<<>>), Array(<<Name, Num(1)>>)}
    [] kw = "OBJECT" -> IF op = "ENCODING" THEN {V, Nil} ELSE {Num(1), Nil}
    [] kw = "HIMPORT" -> IF op \in {"DISCARD", "DISCARDALL"} THEN {Num(1)} ELSE {Ok}
    [] kw = "XGROUP" -> CASE op \in {"CREATE", "SETID"} -> {Ok} [] op = "HELP" -> Plain [] OTHER -> {Num(1)}
    [] kw = "XINFO" -> {Array(<<Name, Num(1), Name, V>>), Array(<<Name, Array(<<Name, Num(1)>>), Name, V>>)}
    [] kw = "COMMAND" -> CASE op = "COUNT" -> {Num(1)}
                           [] op \in {"GETKEYS", "LIST"} -> Plain
                           [] op = "GETKEYSANDFLAGS" -> {Array(<<Array(<<V, Array(<<Line("+", "RW")>>)>>)>>)}
                           [] OTHER -> {Array(<<Array(<<V, Num(2), Array(<<Line("+", "readonly")>>)>>)>>)}
    [] kw = "SLOWLOG" -> CASE op = "LEN" -> {Num(1)} [] op = "RESET" -> {Ok}
                           [] OTHER -> {Array(<<Array(<<Num(1), Num(2), Array(<<V>>)>>)>>)}

Subcommands == {"CLIENT", "CONFIG", "ACL", "SCRIPT", "FUNCTION", "PUBSUB", "OBJECT", "HIMPORT", "XGROUP",
                "XINFO", "COMMAND", "SLOWLOG"}

StreamReplies(kw, args) ==
  CASE kw \in {"XRANGE", "XREVRANGE"} -> {Array(<<>>), Array(<<Message, Message>>)}
    [] kw \in {"XREAD", "XREADGROUP"} ->
         {NilArray, Array(<<Array(<<Name, Array(<<Message, Message>>)>>)>>)}
         \cup (IF kw = "XREADGROUP" THEN {Array(<<Array(<<Name, Array(<<Array(<<V, NilArray>>)>>)>>)>>)} ELSE {})
    [] kw = "XCLAIM" -> IF "JUSTID" \in Said(args) THEN Plain
                        ELSE {Array(<<>>), Array(<<Message, Message>>), Array(<<Nil, Message>>)}
    [] kw = "XAUTOCLAIM" -> LET ms == IF "JUSTID" \in Said(args) THEN Array(<<V, V>>) ELSE Array(<<Message>>)
                            IN {Array(<<V, ms>>), Array(<<V, ms, Array(<<V>>)>>)}
    [] kw = "XPENDING" -> {Array(<<Num(1), V, V, Array(<<Array(<<V, N>>)>>)>>), Array(<<Num(0), Nil, Nil, NilArray>>)}
Streams == {"XRANGE", "XREVRANGE", "XREAD", "XREADGROUP", "XCLAIM", "XAUTOCLAIM", "XPENDING"}

OtherReplies(kw, args, has(_)) ==
  CASE kw = "SET" -> IF has("GET") THEN {P, Nil} ELSE {Ok, Nil}
    [] kw = "TYPE" -> {Line("+", "string")}
    [] kw = "PING" -> IF args = <<>> THEN {Line("+", "PONG")} ELSE {V}
    [] kw \in {"ZRANK", "ZREVRANK"} -> {Num(0), Nil}
    [] kw = "ZADD" -> IF has("INCR") THEN {N, Nil} ELSE {Num(0), Num(1)}
    [] kw = "LPOS" -> IF has("COUNT") THEN {Array(<<>>), Array(<<Num(0), Num(3)>>)} ELSE {Num(3), Nil}
    [] kw \in {"BLPOP", "BRPOP"} -> {NilArray, Array(<<V, P>>)}
    [] kw \in {"BZPOPMAX", "BZPOPMIN"} -> {NilArray, Array(<<V, P, N>>)}
    [] kw = "MGET" -> {Array(<<P, Nil>>)}
    [] kw \in {"HMGET", "HGETDEL", "HGETEX"} ->
         LET n == Cardinality({i \in DOMAIN args : args[i].is = "field"}) IN {PerField(n, P), PerField(n, Nil)}
    [] kw = "HGETALL" -> {Array(<<>>), Array(<<V, P, V, P>>)}
    [] kw = "HRANDFIELD" -> CASE has("WITHVALUES") -> {Array(<<>>), Array(<<V, P>>)}
                              [] has("arg") /\ ~has("WITHVALUES") -> Plain
                              [] OTHER -> {V, Nil}
    [] kw = "ZRANDMEMBER" -> CASE has("WITHSCORES") -> IF has("arg") THEN Pairs ELSE {}
                               [] has("arg") /\ ~has("WITHSCORES") -> Values
                               [] OTHER -> {P, Nil}
    [] kw = "ZMSCORE" -> {Array(<<N, Nil>>)}
    [] kw \in {"ZPOPMAX", "ZPOPMIN"} -> Pairs
    [] kw \in {"LMPOP", "BLMPOP"} -> {NilArray, Array(<<V, Array(<<P, P>>)>>)}
    [] kw \in {"ZMPOP", "BZMPOP"} -> {NilArray, Array(<<V, Array(<<Array(<<P, N>>)>>)>>)}
    [] kw = "GEOHASH" -> {Array(<<Nil, V>>)}
    [] kw = "GEOPOS" -> {Array(<<Array(<<N, N>>), NilArray>>)}
    [] kw = "SORT" -> IF has("STORE") THEN {Num(1)} ELSE Values
    [] kw = "SORT_RO" -> IF has("STORE") THEN {} ELSE Values
    [] kw = "LCS" -> IF has("IDX") THEN {Array(<<Name, Array(<<Num(1)>>), Name, Num(2)>>)}
                     ELSE IF has("LEN") THEN {Num(1)} ELSE {V}
    [] kw = "VINFO" -> {Array(<<Line("+", "quant-type"), Line("+", "int8"), Line("+", "size"), Num(1)>>), NilArray}
    [] kw = "VEMB" -> IF has("RAW") THEN {Array(<<Line("+", "fp32"), V, N>>)} ELSE {Array(<<N, N>>), Nil}
    [] kw = "VLINKS" -> IF has("WITHSCORES") THEN {Array(<<Array(<<P, N>>), Array(<<>>)>>)}
                        ELSE {Array(<<Array(<<P, P>>), Array(<<P>>)>>)}
    [] kw = "HELLO" -> {Array(<<Name, V, Name, V, Name, Num(2), Name, Array(<<>>)>>)}
    [] kw = "SCAN" -> {Array(<<V, w>>) : w \in Plain}
    [] kw = "SSCAN" -> {Array(<<V, w>>) : w \in Values}
    [] kw = "HSCAN" -> {Array(<<V, w>>) : w \in {Array(<<>>), Array(<<V, P>>)}}
    [] kw = "ZSCAN" -> {Array(<<V, w>>) : w \in Pairs}
    [] OTHER -> {Num(0), Num(1), Num(2)}

(* Any command may be refused as well. *)
MayAnswer(kw, args) ==
  LET has(word) == word \in Said(args)
  IN {Error} \cup
     CASE kw \in Statuses     -> {Ok}
       [] kw \in StartedLater -> {Line("+", "started")}
       [] kw \in StoredValues -> {P, Nil}
       [] kw \in OwnTexts     -> {V}
       [] kw \in MaybeTexts   -> {V, Nil}
       [] kw \in Outcomes     -> {Num(0), Num(1)}
       [] kw \in Floats       -> {N, Nil}
       [] kw \in MaybeOne     -> IF has("arg") THEN Values \cup {NilArray} ELSE {P, Nil}
       [] kw \in ValueArrays  -> Values
       [] kw \in ScoredArrays -> IF has("WITHSCORES") THEN Pairs ELSE Values
       [] kw \in TextArrays   -> Plain
       [] kw \in FieldInts    -> {Array(<<Num(1), Num(0)>>)}
       [] kw \in Subcommands  -> SubReplies(kw, IF args = <<>> THEN "" ELSE args[1].is, args)
       [] kw \in Trees        -> {Array(<<V, Num(1), Array(<<V, Array(<<>>)>>)>>)}
       [] kw \in Scripts      -> {Ok, Num(1), Nil, V, Array(<<V, Nil>>), NilArray}
       [] kw \in Places       ->
            CASE Said(args) \cap {"STORE", "STOREDIST"} # {} -> {Num(1)}
              [] Said(args) \cap {"WITHCOORD", "WITHDIST", "WITHHASH"} # {} ->
                   {Array(<<>>), Array(<<Array(<<P, N>>), Array(<<P, N>>)>>)}
              [] OTHER -> Values
       [] kw \in Streams      -> StreamReplies(kw, args)
       [] OTHER               -> OtherReplies(kw, args, has)
=============================================================================
