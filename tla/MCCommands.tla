----------------------------- MODULE MCCommands -----------------------------
(***************************************************************************)
(* The calls that Commands is checked for: every method, with the keys, the  *)
(* subcommands, the options and the numbers of members its builder tells      *)
(* apart; of options at most two at a time.                                  *)
(***************************************************************************)
EXTENDS Commands

\* The keys are 1, 2 and 3: 1 and 2 share a slot; without the prefix none do.
MCSlotOf     == <<2, 2, 3>>
MCBareSlotOf == <<2, 4, 5>>

Keyless  == {"ACL", "AUTH", "BGREWRITEAOF", "BGSAVE", "CLIENT", "COMMAND", "CONFIG", "DBSIZE", "ECHO", "FAILOVER",
             "FLUSHALL", "FLUSHDB", "FUNCTION", "INFO", "LASTSAVE", "PING", "RANDOMKEY", "REPLICAOF",
             "ROLE", "SAVE", "SCAN", "SCRIPT", "SELECT", "SERVERNAME", "SERVERVERSION", "SLAVEOF", "SLOWLOG",
             "SWAPDB", "TIME", "UNWATCH", "WAIT", "WAITAOF"}
TwoKeys  == TwoKeyCommands \cup {"ZDIFFSTORE", "ZINTERSTORE", "ZUNIONSTORE"}
AnyKeys  == ManyKeyCommands \cup PairCommands \cup BlockingPops \cup CountedCommands \cup LaterCounted
            \cup {"MSETEX", "BITOP", "XREAD", "XREADGROUP", "UNSUBSCRIBE", "PUNSUBSCRIBE", "SUNSUBSCRIBE"}

Several == {<<1>>, <<1, 2>>, <<1, 3>>, <<1, 2, 3>>}
KeysOf(m, op, o) ==
  LET kw == Keyword(m)
  IN CASE m \in Keyless -> {<<>>}
       [] kw \in TwoKeys \/ o \cap {"STORE", "STOREDIST"} # {} ->
            IF kw \in CountedStores THEN Several ELSE {<<1, 2>>, <<1, 3>>}
       [] kw \in AnyKeys -> Several \cup IF kw \in {"EVAL", "EVAL_RO", "FCALL", "MGET", "WATCH"} THEN {<<>>} ELSE {}
       [] kw = "MIGRATE" -> IF "KEYS" \in o THEN Several ELSE {<<1>>}
       [] kw = "PUBSUB" -> IF op \in {"NUMSUB", "SHARDNUMSUB"} THEN {<<>>, <<1>>} ELSE {<<>>}
       [] kw \in {"XGROUP", "XINFO"} -> IF op = "HELP" THEN {<<>>} ELSE {<<1>>}
       [] kw = "RAWCOMMAND" -> {<<>>, <<1>>}
       [] OTHER -> {<<1>>}

Subs ==
  [ACL |-> {"LOAD", "SAVE", "SETUSER", "DRYRUN", "GENPASS", "WHOAMI", "DELUSER", "GETUSER", "LOG", "CAT"},
   CLIENT |-> {"INFO", "LIST", "GETNAME", "GETREDIR", "ID", "UNBLOCK", "TRACKINGINFO", "KILL", "SETNAME",
               "TRACKING", "PAUSE", "UNPAUSE"},
   COMMAND |-> {"", "COUNT", "GETKEYS", "LIST", "GETKEYSANDFLAGS", "INFO"},
   CONFIG |-> {"GET", "SET", "RESETSTAT"}, SLOWLOG |-> {"GET", "LEN", "RESET"},
   FUNCTION |-> {"DELETE", "DUMP", "FLUSH", "KILL", "LIST", "LOAD", "RESTORE", "STATS"},
   HIMPORT |-> {"PREPARE", "SET", "DISCARD", "DISCARDALL"},
   OBJECT |-> {"REFCOUNT", "IDLETIME", "ENCODING"},
   PUBSUB |-> {"CHANNELS", "NUMSUB", "NUMPAT", "SHARDCHANNELS", "SHARDNUMSUB"},
   SCRIPT |-> {"LOAD", "EXISTS", "FLUSH", "KILL", "NONE"},
   XGROUP |-> {"HELP", "CREATE", "SETID", "CREATECONSUMER", "DELCONSUMER", "DESTROY"},
   XINFO |-> {"STREAM", "GROUPS", "CONSUMERS"}]
OpsOf(m) == IF m \in DOMAIN Subs THEN Subs[m] ELSE {""}

Expiries == {"EX", "PX", "KEEPTTL", "PERSIST", "NX", "XX"}
Sorting  == {"BY", "ASC", "DESC", "STORE", "GET", "ALPHA", "LIMIT"}
Shapes   == {"WITHCOORD", "WITHDIST", "ASC", "DESC", "COUNT", "ANY", "STORE", "STOREDIST", "unit",
             "polygon", "member", "box"}
OptionsOf(m) ==
  LET kw == Keyword(m)
  IN CASE kw \in {"SET", "MSETEX"} -> {"EX", "PX", "KEEPTTL", "NX", "XX", "IFEQ", "IFDEQ", "GET", "seconds"}
       [] kw \in {"GETEX", "HGETEX"} -> {"EX", "PX", "PERSIST"}
       [] kw = "HSETEX" -> {"EX", "PX", "KEEPTTL", "FNX", "FXX"}
       [] kw = "DELEX" -> {"IFEQ", "IFNE", "IFDEQ"}
       [] kw \in {"SORT", "SORT_RO"} -> Sorting
       [] kw \in {"EXPIRE", "PEXPIRE", "EXPIREAT", "HEXPIRE", "HPEXPIRE"} -> {"NX", "XX", "GT", "LT"}
       [] kw = "ZADD" -> {"NX", "XX", "LT", "GT", "CH", "INCR"}
       [] kw \in {"ZRANGE", "ZRANGESTORE", "ZREVRANGE", "ZRANGEBYSCORE", "ZREVRANGEBYSCORE", "ZRANGEBYLEX"} ->
            {"WITHSCORES", "BYSCORE", "BYLEX", "REV", "LIMIT"}
       [] kw \in {"ZDIFF", "ZINTER", "ZUNION", "ZINTERSTORE", "ZUNIONSTORE"} ->
            {"WITHSCORES", "AGGREGATE", "WEIGHTS"}
       [] kw \in {"GEORADIUS", "GEORADIUS_RO", "GEORADIUSBYMEMBER", "GEORADIUSBYMEMBER_RO", "GEOSEARCH",
                  "GEOSEARCHSTORE"} ->
            IF kw \in {"GEOSEARCH", "GEORADIUS_RO", "GEORADIUSBYMEMBER_RO"} THEN Shapes \ {"STORE", "STOREDIST"}
            ELSE Shapes
       [] kw = "GEODIST" -> {"unit"}
       [] kw = "GEOADD" -> {"NX", "XX", "CH"}
       [] kw = "RESTORE" -> {"REPLACE", "ABSTTL", "IDLETIME", "FREQ"}
       [] kw = "MIGRATE" -> {"COPY", "REPLACE", "AUTH", "AUTH2", "KEYS"}
       [] kw = "COPY" -> {"DB", "REPLACE"}
       [] kw = "LCS" -> {"IDX", "LEN", "WITHMATCHLEN", "MINMATCHLEN"}
       [] kw = "LPOS" -> {"RANK", "COUNT", "MAXLEN"}
       [] kw \in {"LMOVEM", "BLMOVEM"} -> {"COUNT", "EXACTLY"}
       [] kw \in {"BITPOS", "BITCOUNT", "BITRANGEINTARRAY"} -> {"range", "BIT", "LIMIT", "ZEROS"}
       [] kw \in {"LPOP", "RPOP", "SPOP", "SRANDMEMBER", "VRANDMEMBER", "ZPOPMAX", "ZPOPMIN"} -> {"count"}
       [] kw = "HRANDFIELD" -> {"count", "WITHVALUES"} [] kw = "ZRANDMEMBER" -> {"count", "WITHSCORES"}
       [] kw = "XADD" -> {"NOMKSTREAM", "MAXLEN", "~"}
       [] kw = "XTRIM" -> {"MINID", "~", "LIMIT"}
       [] kw \in {"XDELEX", "XACKDEL"} -> {"KEEPREF", "DELREF", "ACKED"}
       [] kw \in {"XCLAIM", "XAUTOCLAIM"} -> {"TIME", "IDLE", "RETRYCOUNT", "FORCE", "JUSTID", "COUNT"}
       [] kw = "XPENDING" -> {"range", "IDLE", "consumer"}
       [] kw = "XGROUP" -> {"MKSTREAM", "ENTRIESREAD"}
       [] kw = "XINFO" -> {"arg", "COUNT"}
       [] kw \in {"XREAD", "XREADGROUP"} -> {"COUNT", "BLOCK"}
       [] kw \in {"XRANGE", "XREVRANGE", "VRANGE"} -> {"COUNT"}
       [] kw = "VADD" -> {"REDUCE", "VALUES", "CAS", "Q8", "BIN", "NOQUANT", "EF", "SETATTR"}
       [] kw = "VSIM" -> {"FP32", "VALUES", "ELE", "WITHSCORES", "COUNT", "EF", "TRUTH"}
       [] kw \in {"VEMB", "VGETATTR"} -> {"RAW", "raw"} [] kw = "VLINKS" -> {"WITHSCORES"}
       [] kw \in {"FLUSHDB", "FLUSHALL"} -> {"ASYNC", "SYNC"}
       [] kw = "FAILOVER" -> {"TO", "FORCE", "ABORT", "TIMEOUT"}
       [] kw \in {"INCR", "DECR"} -> {"by"} [] kw = "BRPOPLPUSH" -> {"timeout"}
       [] kw \in {"LMPOP", "BLMPOP", "ZMPOP", "BZMPOP"} -> {"COUNT"}
       [] kw \in {"SUNIONCARD", "SDIFFCARD", "SINTERCARD", "ZINTERCARD"} -> {"LIMIT", "APPROX"}
       [] kw = "ACL" -> {"RESET"} [] kw = "AUTH" -> {"user"} [] kw = "GCRA" -> {"TOKENS"}
       [] kw = "CLIENT" -> {"TYPE", "ID", "USER", "REDIRECT", "PREFIX", "BCAST", "OPTIN", "NOLOOP"}
       [] kw \in Scans -> {"COUNT", "MATCH"}
       [] kw \in {"EXPIREMEMBER", "EXPIREMEMBERAT"} -> {"unit"}
       [] OTHER -> {}

\* How many members, fields or arguments.
Numbers(m) ==
  IF m \in {"ACL", "CLIENT", "COMMAND", "CONFIG", "FUNCTION", "HIMPORT", "PUBSUB", "SCRIPT", "SLOWLOG", "PING", "INFO",
            "RAWCOMMAND", "REPLICAOF", "SLAVEOF", "EVAL", "EVALSHA", "FCALL", "HMGET", "HGETDEL", "HGETEX",
            "HSETEX", "HSET", "HMSET", "HDEL", "HEXPIRE", "HTTL", "SADD", "SADDARRAY", "SREM", "ZADD", "ZREM", "RPUSH",
            "GEOADD", "XADD", "XACK", "XDEL", "XDELEX", "XACKDEL", "XCLAIM", "VADD", "VSIM", "PFADD", "ZINTERSTORE", "ZUNION"}
  THEN {0, 1, 2} ELSE {1}

Combinations(os) == {{}} \cup {{a, b} : a \in os, b \in os}

AllMethods ==
  {"APPEND", "BITCOUNT", "BITOP", "BITPOS", "BITRANGEINTARRAY", "BLMOVE", "BLMOVEM", "BLMPOP", "BLPOP", "BRPOP",
   "ACL", "AUTH", "BGREWRITEAOF", "BGSAVE", "BRPOPLPUSH", "BZMPOP", "BZPOPMAX", "BZPOPMIN", "CLIENT",
   "COMMAND", "CONFIG", "COPY", "DBSIZE", "DEBUG", "DECR", "DECRBY", "DECRBYFLOAT", "DEL", "DELEX",
   "DELIFEQ", "DIGEST", "DUMP", "ECHO", "EVAL", "EVALSHA", "EVALSHA_RO", "EVAL_RO", "EXISTS", "EXPIRE",
   "EXPIREAT", "EXPIREMEMBER", "EXPIREMEMBERAT", "EXPIRETIME", "FAILOVER", "FCALL", "FCALL_RO", "FLUSHALL",
   "FLUSHDB", "FUNCTION", "GCRA", "GEOADD", "GEODIST", "GEOHASH", "GEOPOS", "GEORADIUS",
   "GEORADIUSBYMEMBER", "GEORADIUSBYMEMBER_RO", "GEORADIUS_RO", "GEOSEARCH", "GEOSEARCHSTORE", "GET",
   "GETBIT", "GETDEL", "GETEX", "GETRANGE", "GETSET", "GETWITHMETA", "HDEL", "HEXISTS", "HEXPIRE",
   "HEXPIREAT", "HEXPIRETIME", "HGET", "HGETALL", "HGETDEL", "HGETEX", "HGETWITHMETA", "HIMPORT", "HINCRBY",
   "HINCRBYFLOAT", "HKEYS", "HLEN", "HMGET", "HMSET", "HPERSIST", "HPEXPIRE", "HPEXPIREAT", "HPEXPIRETIME",
   "HPTTL", "HRANDFIELD", "HSCAN", "HSET", "HSETEX", "HSETNX", "HSTRLEN", "HTTL", "HVALS", "INCR", "INCRBY",
   "INCRBYFLOAT", "INFO", "KEYS", "LASTSAVE", "LCS", "LGET", "LINDEX", "LINSERT", "LLEN", "LMOVE", "LMOVEM",
   "LMPOP", "LPOP", "LPOS", "LPUSH", "LPUSHX", "LRANGE", "LREM", "LSET", "LTRIM", "MGET", "MIGRATE", "MOVE",
   "MSET", "MSETEX", "MSETNX", "OBJECT", "PERSIST", "PEXPIRE", "PEXPIREAT", "PEXPIRETIME", "PFADD",
   "PFCOUNT", "PFMERGE", "PING", "PSETEX", "PSUBSCRIBE", "PTTL", "PUBLISH", "PUBSUB", "PUNSUBSCRIBE",
   "RANDOMKEY", "RAWCOMMAND", "RENAME", "RENAMENX", "REPLICAOF", "RESTORE", "ROLE", "RPOP", "RPOPLPUSH",
   "RPUSH", "RPUSHX", "SADD", "SADDARRAY", "SAVE", "SCAN", "SCARD", "SCRIPT", "SDIFF", "SDIFFCARD",
   "SDIFFSTORE", "SELECT", "SERVERNAME", "SERVERVERSION", "SET", "SETBIT", "SETEX", "SETNX", "SETRANGE",
   "SINTER", "SINTERCARD", "SINTERSTORE", "SISMEMBER", "SLAVEOF", "SLOWLOG", "SMEMBERS", "SMISMEMBER",
   "SMOVE", "SORT", "SORTASC", "SORTASCALPHA", "SORTDESC", "SORTDESCALPHA", "SORT_RO", "SPOP",
   "SRANDMEMBER", "SREM", "SSCAN", "SSUBSCRIBE", "STRLEN", "SUBSCRIBE", "SUNION", "SUNIONCARD",
   "SUNIONSTORE", "SUNSUBSCRIBE", "SWAPDB", "TIME", "TOUCH", "TTL", "TYPE", "UNLINK", "UNSUBSCRIBE",
   "UNWATCH", "VADD", "VCARD", "VDIM", "VEMB", "VGETATTR", "VINFO", "VISMEMBER", "VLINKS", "VRANDMEMBER",
   "VRANGE", "VREM", "VSETATTR", "VSIM", "WAIT", "WAITAOF", "WATCH", "XACK", "XADD", "XAUTOCLAIM", "XCLAIM",
   "XDEL", "XDELEX", "XGROUP", "XINFO", "XLEN", "XPENDING", "XRANGE", "XREAD", "XREADGROUP", "XREVRANGE",
   "XTRIM", "ZADD", "ZCARD", "ZCOUNT", "ZDIFF", "ZDIFFSTORE", "ZINCRBY", "ZINTER", "ZINTERCARD",
   "ZINTERSTORE", "ZLEXCOUNT", "ZMPOP", "ZMSCORE", "ZPOPMAX", "ZPOPMIN", "ZRANDMEMBER", "ZRANGE",
   "ZRANGEBYLEX", "ZRANGEBYSCORE", "ZRANGESTORE", "ZRANK", "ZREM", "ZREMRANGEBYLEX", "ZREMRANGEBYRANK",
   "ZREMRANGEBYSCORE", "ZREVRANGE", "ZREVRANGEBYLEX", "ZREVRANGEBYSCORE", "ZREVRANK", "ZSCAN", "ZSCORE",
   "ZUNION", "ZUNIONSTORE"}

CallsOf(m) ==
  UNION { { [m |-> m, r |-> Request(ks, op, o, n, late)] :
              ks \in KeysOf(m, op, o), n \in Numbers(m),
              late \in IF Cardinality(o) > 1 THEN BOOLEAN ELSE {FALSE} }
          : op \in OpsOf(m), o \in Combinations(OptionsOf(m)) }
MCCalls == UNION {CallsOf(m) : m \in AllMethods}
=============================================================================
