----------------------------- MODULE RedisServer -----------------------------
(***************************************************************************)
(* The server, as far as the client relies on it: where it looks for the     *)
(* keys of a command, which commands write, which options rule each other     *)
(* out, and what it may answer.                                             *)
(***************************************************************************)
EXTENDS Replies, RedisCmd, FiniteSets

Said(args)        == {args[i].is : i \in DOMAIN args}
At(args, word)    == CHOOSE i \in DOMAIN args : args[i].is = word
After(args, word) == IF word \in Said(args) THEN {At(args, word) + 1} ELSE {}
FromTo(i, j)      == {k \in 1..20 : i <= k /\ k <= j}

(* Keys. *)

TwoKeyCommands   == {"RENAME", "RENAMENX", "RPOPLPUSH", "BRPOPLPUSH", "LMOVE", "BLMOVE", "LMOVEM",
                     "BLMOVEM", "SMOVE", "COPY", "LCS", "ZRANGESTORE", "GEOSEARCHSTORE"}
ManyKeyCommands  == {"DEL", "UNLINK", "EXISTS", "TOUCH", "MGET", "PFCOUNT", "PFMERGE", "SDIFF",
                     "SDIFFSTORE", "SINTER", "SINTERSTORE", "SUNION", "SUNIONSTORE", "WATCH",
                     "SUBSCRIBE", "PSUBSCRIBE", "SSUBSCRIBE",
                     "UNSUBSCRIBE", "PUNSUBSCRIBE", "SUNSUBSCRIBE"}
PairCommands     == {"MSET", "MSETNX"}
BlockingPops     == {"BLPOP", "BRPOP", "BZPOPMAX", "BZPOPMIN"}
CountedCommands  == {"SINTERCARD", "ZINTERCARD", "SUNIONCARD", "SDIFFCARD", "LMPOP", "ZMPOP",
                     "ZDIFF", "ZINTER", "ZUNION"}
LaterCounted     == {"BLMPOP", "BZMPOP", "EVAL", "EVAL_RO", "EVALSHA", "EVALSHA_RO", "FCALL", "FCALL_RO"}
CountedStores    == {"ZDIFFSTORE", "ZINTERSTORE", "ZUNIONSTORE"}
SecondIsKey      == {"OBJECT", "XGROUP", "XINFO"}
Storing          == {"SORT", "GEORADIUS", "GEORADIUSBYMEMBER"}   \* with STORE
KeylessCommands  == {"ACL", "AUTH", "BGREWRITEAOF", "BGSAVE", "CLIENT", "COMMAND", "CONFIG", "DBSIZE", "DEBUG",
                     "ECHO", "FAILOVER", "FLUSHALL", "FLUSHDB", "FUNCTION", "HELLO", "INFO",
                     "LASTSAVE", "PING", "RANDOMKEY", "RAWCOMMAND", "REPLICAOF",
                     "ROLE", "SAVE", "SCAN", "SCRIPT", "SELECT", "SLAVEOF", "SLOWLOG", "SWAPDB", "TIME",
                     "UNWATCH", "WAIT", "WAITAOF"}

(* The places of keys, and of the channels and patterns that are named like them. *)
KeysAt(kw, args) ==
  LET last == Len(args)
      half(i) == FromTo(i, i + ((last - i) \div 2))
      Store == UNION {After(args, w) : w \in {"STORE", "STOREDIST"}}
  IN CASE kw \in KeylessCommands  -> {}
       [] kw \in TwoKeyCommands   -> FromTo(1, 2)
       [] kw \in ManyKeyCommands  -> FromTo(1, last)
       [] kw \in PairCommands     -> {i \in FromTo(1, last) : i % 2 = 1}
       [] kw \in BlockingPops     -> FromTo(1, last - 1)
       [] kw \in CountedCommands  -> FromTo(2, 1 + args[1].n)
       [] kw \in LaterCounted     -> FromTo(3, 2 + args[2].n)
       [] kw \in CountedStores    -> {1} \cup FromTo(3, 2 + args[2].n)
       [] kw \in SecondIsKey      -> IF last < 2 THEN {} ELSE {2}
       [] kw = "PUBSUB"           -> IF args[1].is \in {"NUMSUB", "SHARDNUMSUB"} THEN FromTo(2, last) ELSE {}
       [] kw = "HIMPORT"          -> IF args[1].is = "SET" THEN {2} ELSE {}
       [] kw = "MSETEX"           -> {i \in FromTo(2, 1 + 2 * args[1].n) : i % 2 = 0}
       [] kw = "BITOP"            -> FromTo(2, last)
       [] kw = "MIGRATE"          -> IF "KEYS" \in Said(args) THEN FromTo(At(args, "KEYS") + 1, last) ELSE {3}
       [] kw \in {"XREAD", "XREADGROUP"} -> half(At(args, "STREAMS") + 1)
       [] kw \in Storing \cup {"SORT_RO"} -> {1} \cup Store
       [] OTHER                   -> {1}

-----------------------------------------------------------------------------
(* What a replica refuses. *)

Writes ==
  {"APPEND", "BITOP", "DECR", "DECRBY", "DEL", "DELEX", "DELIFEQ", "EXPIRE", "EXPIREAT", "EXPIREMEMBER",
   "EXPIREMEMBERAT", "FLUSHALL", "FLUSHDB", "GCRA", "GEOADD", "GEOSEARCHSTORE", "GETDEL", "GETEX", "GETSET",
   "HDEL", "HEXPIRE", "HEXPIREAT", "HGETDEL", "HGETEX", "HIMPORT", "HINCRBY", "HINCRBYFLOAT", "HMSET",
   "HPERSIST", "HPEXPIRE", "HPEXPIREAT", "HSET", "HSETEX", "HSETNX", "INCR", "INCRBY", "INCRBYFLOAT",
   "LINSERT", "LMPOP", "BLMPOP", "LMOVE", "BLMOVE", "LMOVEM", "BLMOVEM", "LPOP", "LPUSH", "LPUSHX", "LREM",
   "LSET", "LTRIM", "BLPOP", "BRPOP", "BRPOPLPUSH", "MIGRATE", "MOVE", "MSET", "MSETEX", "MSETNX", "PERSIST",
   "PEXPIRE", "PEXPIREAT", "PFADD", "PFMERGE", "PSETEX", "RENAME", "RENAMENX", "RESTORE", "RPOP",
   "RPOPLPUSH", "RPUSH", "RPUSHX", "SADD", "SDIFFSTORE", "SET", "SETBIT", "SETEX", "SETNX", "SETRANGE",
   "SINTERSTORE", "SMOVE", "SPOP", "SREM", "SUNIONSTORE", "SWAPDB", "UNLINK", "VADD", "VREM", "VSETATTR",
   "XACK", "XADD", "XAUTOCLAIM", "XCLAIM", "XDEL", "XDELEX", "XGROUP", "XREADGROUP", "XTRIM", "ZADD",
   "ZDIFFSTORE", "ZINCRBY", "ZINTERSTORE", "ZMPOP", "BZMPOP", "ZPOPMAX", "ZPOPMIN", "BZPOPMAX", "BZPOPMIN",
   "ZRANGESTORE", "ZREM", "ZREMRANGEBYLEX", "ZREMRANGEBYRANK", "ZREMRANGEBYSCORE", "ZUNIONSTORE", "COPY"}
IsWrite(kw, args) == kw \in Writes \/ (kw \in Storing /\ Said(args) \cap {"STORE", "STOREDIST"} # {})

\* At most one of each of these.
Rivals(kw) ==
  { {"NX", "XX"}, {"EX", "PX", "EXAT", "PXAT", "KEEPTTL", "PERSIST"}, {"IFEQ", "IFNE", "IFDEQ", "IFDNE"},
    {"ASC", "DESC"}, {"BYSCORE", "BYLEX"}, {"FNX", "FXX"}, {"KEEPREF", "DELREF", "ACKED"},
    {"ASYNC", "SYNC"}, {"STORE", "STOREDIST"}, {"MAXLEN", "MINID"},
    {"Q8", "BIN", "NOQUANT"}, {"IDLETIME", "FREQ"}, {"AUTH", "AUTH2"}, {"OPTIN", "OPTOUT"},
    {"GT", "LT"} }
  \cup (IF kw \in {"HEXPIRE", "HPEXPIRE", "HEXPIREAT", "HPEXPIREAT", "EXPIRE", "PEXPIRE", "EXPIREAT", "PEXPIREAT"}
        THEN { {"NX", "XX", "GT", "LT"} } ELSE {})
  \cup (IF kw = "LCS" THEN { {"IDX", "LEN"} } ELSE { {"FP32", "VALUES", "ELE"} })
=============================================================================
