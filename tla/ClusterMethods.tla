--------------------------- MODULE ClusterMethods ---------------------------
(***************************************************************************)
(* Which handler reads the reply to a method of RedisCluster, whether it may *)
(* go to a replica, and the methods that name the node they go to            *)
(* (redis_cluster.c).                                                       *)
(***************************************************************************)
EXTENDS ClusterReplies

-----------------------------------------------------------------------------
(* Methods written out. *)

ClientTypes == [LIST |-> "$", KILL |-> "+", SETNAME |-> "+", GETNAME |-> "$"]
NodeTypes   == [SAVE |-> "+", BGSAVE |-> "+", BGREWRITEAOF |-> "+", DBSIZE |-> ":", LASTSAVE |-> ":",
                ROLE |-> "*", TIME |-> "*", RANDOMKEY |-> "$"]

\* The type of reply a directed command waits for, or "" for any.
reply_type(m, op, arg, atomic) ==
  CASE m \in DOMAIN NodeTypes -> IF atomic THEN NodeTypes[m] ELSE "+"
    [] m \in {"FLUSHDB", "FLUSHALL"} -> "+"
    [] m = "CLIENT" -> IF atomic \/ op \in {"KILL", "SETNAME"} THEN ClientTypes[op] ELSE "+"
    [] m \in {"INFO", "ECHO"} -> IF atomic THEN "$" ELSE "+"
    [] m = "PING" -> IF atomic /\ arg THEN "$" ELSE "+"
    [] m = "RAWCOMMAND" -> IF atomic THEN "" ELSE "+"
    [] m = "WAIT" -> ":"
    [] m = "WAITAOF" -> "*"
    [] OTHER -> ""

\* Not within MULTI.
AtomicOnly == {"CONFIG", "PUBSUB", "SLOWLOG", "SCRIPT", "SCAN", "SSCAN", "HSCAN", "ZSCAN"}

cluster_client(c, in, ctx) ==
  CASE ctx.op = "LIST"              -> cluster_client_list_resp(c, in, ctx)
    [] ctx.op \in {"KILL", "SETNAME"} -> cluster_bool_resp(c, in, ctx)
    [] ctx.op = "GETNAME"           -> cluster_bulk_resp(c, in, ctx)
cluster_acl(c, in, ctx) ==
  CASE ctx.op = "GETUSER" -> cluster_acl_getuser_resp(c, in, ctx)
    [] ctx.op = "LOG"     -> cluster_acl_log_resp(c, in, ctx)
    [] OTHER              -> cluster_variant_resp(c, in, ctx)
cluster_ping(c, in, ctx) ==
  IF ctx.n > 0 THEN cluster_bulk_resp(c, in, ctx) ELSE cluster_variant_resp(c, in, ctx)

cluster_directed_methods(m, c, in, ctx) ==
  CASE m \in {"SAVE", "BGSAVE", "BGREWRITEAOF", "FLUSHDB", "FLUSHALL"} -> cluster_bool_resp(c, in, ctx)
    [] m \in {"DBSIZE", "LASTSAVE"} -> cluster_long_resp(c, in, ctx)
    [] m = "INFO" -> cluster_info_resp(c, in, ctx)
    [] m = "CLIENT" -> cluster_client(c, in, ctx)
    [] m \in {"RANDOMKEY", "ECHO"} -> cluster_bulk_resp(c, in, ctx)
    [] m = "PING" -> cluster_ping(c, in, ctx)
    [] m = "ACL" -> cluster_acl(c, in, ctx)
    [] m = "RAWCOMMAND" -> cluster_variant_raw_resp(c, in, ctx)
    [] m \in {"ROLE", "TIME", "WAIT", "WAITAOF", "CONFIG", "PUBSUB", "SLOWLOG", "SCRIPT"} ->
         cluster_variant_resp(c, in, ctx)

\* A count or none, and the SCAN family.
cluster_other_methods(m, c, in, ctx) ==
  CASE m = "SPOP" -> IF ~ctx.count THEN cluster_bulk_resp(c, in, ctx) ELSE cluster_mbulk_resp(c, in, ctx)
    [] m \in {"ZPOPMAX", "ZPOPMIN"} -> cluster_mbulk_zipdbl_resp(c, in, ctx)
    [] m \in {"SCAN", "SSCAN", "HSCAN", "ZSCAN"} -> cluster_scan_resp(c, in, m)
    [] OTHER -> cluster_directed_methods(m, c, in, ctx)

cluster_last_methods(m, c, in, ctx) ==
  CASE m = "COMMAND" -> cluster_variant_resp_strings(c, in, ctx)
    [] m = "COPY" -> cluster_1_resp(c, in, ctx) [] m = "DIGEST" -> cluster_bulk_raw_resp(c, in, ctx)
    [] OTHER -> cluster_other_methods(m, c, in, ctx)
cluster_last_reads == {"DIGEST"}

cluster_stream_methods(m, c, in, ctx) ==
  CASE m \in {"VADD", "VCARD", "VDIM", "VREM", "VSETATTR", "XACK", "XDEL", "XLEN", "XTRIM"} ->
         cluster_long_resp(c, in, ctx) [] m = "VSIM" -> cluster_zrange_resp(c, in, ctx)
    [] m = "VINFO" -> cluster_vinfo_resp(c, in, ctx) [] m = "VISMEMBER" -> cluster_1_resp(c, in, ctx)
    [] m = "VEMB" -> cluster_vemb_resp(c, in, ctx)
    [] m = "VRANDMEMBER" -> cluster_randmember_resp(c, in, ctx)
    [] m = "VRANGE" -> cluster_mbulk_resp(c, in, ctx) [] m = "VLINKS" -> cluster_vlinks_resp(c, in, ctx)
    [] m = "VGETATTR" -> cluster_vgetattr_resp(c, in, ctx)
    [] m \in {"GCRA", "XDELEX", "XGROUP"} -> cluster_variant_resp(c, in, ctx)
    [] m = "XADD" -> cluster_bulk_raw_resp(c, in, ctx)
    [] m \in {"XCLAIM", "XAUTOCLAIM"} -> cluster_xclaim_resp(c, in, ctx)
    [] m = "XINFO" -> cluster_xinfo_resp(c, in, ctx)
    [] m = "XPENDING" -> cluster_variant_resp_strings(c, in, ctx)
    [] m \in {"XRANGE", "XREVRANGE"} -> cluster_xrange_resp(c, in, ctx)
    [] m \in {"XREAD", "XREADGROUP"} -> cluster_xread_resp(c, in, ctx)
    [] OTHER -> cluster_last_methods(m, c, in, ctx)
cluster_stream_reads == {"VSIM", "VCARD", "VDIM", "VINFO", "VISMEMBER", "VEMB", "VRANDMEMBER",
   "VRANGE", "VLINKS", "VGETATTR", "XLEN", "XPENDING", "XRANGE", "XREVRANGE", "XREAD"}

cluster_geo_methods(m, c, in, ctx) ==
  CASE m \in {"GEOADD", "GEOSEARCHSTORE"} -> cluster_long_resp(c, in, ctx)
    [] m = "GEOHASH" -> cluster_mbulk_raw_resp(c, in, ctx)
    [] m \in {"GEOPOS", "GEORADIUS", "GEORADIUS_RO", "GEORADIUSBYMEMBER", "GEORADIUSBYMEMBER_RO"} ->
         cluster_variant_resp(c, in, ctx) [] m = "GEODIST" -> cluster_dbl_resp(c, in, ctx)
    [] m = "GEOSEARCH" -> cluster_geosearch_resp(c, in, ctx)
    [] OTHER -> cluster_stream_methods(m, c, in, ctx)
cluster_geo_reads == {"GEOHASH", "GEOPOS", "GEODIST", "GEORADIUS", "GEORADIUS_RO",
   "GEORADIUSBYMEMBER", "GEORADIUSBYMEMBER_RO", "GEOSEARCH"}

cluster_eval_methods(m, c, in, ctx) ==
  CASE m \in {"EVAL", "EVAL_RO", "EVALSHA", "EVALSHA_RO"} -> cluster_variant_raw_resp(c, in, ctx)
    [] OTHER -> cluster_geo_methods(m, c, in, ctx)
cluster_eval_reads == {"EVAL_RO", "EVALSHA_RO"}

cluster_zset_methods(m, c, in, ctx) ==
  CASE m \in {"ZDIFF", "ZINTER", "ZUNION"} -> cluster_zdiff_resp(c, in, ctx)
    [] m \in {"ZDIFFSTORE", "ZINTERSTORE", "ZINTERCARD", "ZREM", "ZLEXCOUNT", "ZREMRANGEBYLEX"} ->
         cluster_long_resp(c, in, ctx) [] m = "ZRANDMEMBER" -> cluster_zrandmember_resp(c, in, ctx)
    [] m = "ZREVRANGEBYSCORE" -> cluster_zrange_resp(c, in, ctx)
    [] m \in {"ZRANGEBYLEX", "ZREVRANGEBYLEX", "BZPOPMAX", "BZPOPMIN"} -> cluster_mbulk_resp(c, in, ctx)
    [] m \in {"SORT", "SORT_RO"} -> cluster_variant_resp(c, in, ctx)
    [] m = "OBJECT" -> cluster_object_resp(c, in, ctx)
    [] OTHER -> cluster_eval_methods(m, c, in, ctx)
cluster_zset_reads == {"ZDIFF", "ZINTER", "ZUNION", "ZRANDMEMBER", "ZREVRANGEBYSCORE",
   "ZRANGEBYLEX", "ZREVRANGEBYLEX", "ZLEXCOUNT", "SORT_RO", "OBJECT"}

cluster_range_methods(m, c, in, ctx) ==
  CASE m \in {"BITRANGEINTARRAY", "LCS"} -> cluster_variant_resp(c, in, ctx)
    [] m \in {"LGET", "GETRANGE"} -> cluster_bulk_resp(c, in, ctx)
    [] m \in {"LMPOP", "BLMPOP", "ZMPOP", "BZMPOP"} -> cluster_mpop_resp(c, in, ctx)
    [] m \in {"LTRIM", "RENAME", "PFMERGE", "RESTORE"} -> cluster_bool_resp(c, in, ctx)
    [] m = "LRANGE" -> cluster_mbulk_resp(c, in, ctx)
    [] m \in {"ZREMRANGEBYRANK", "PUBLISH", "PFCOUNT", "SETRANGE", "ZRANGESTORE", "ZUNIONSTORE"} ->
         cluster_long_resp(c, in, ctx) [] m \in {"RENAMENX", "PFADD"} -> cluster_1_resp(c, in, ctx)
    [] m \in {"ZRANGE", "ZREVRANGE", "ZRANGEBYSCORE"} -> cluster_zrange_resp(c, in, ctx)
    [] OTHER -> cluster_zset_methods(m, c, in, ctx)
\* Variant: a pop among the reads.
range_reads_and_a_pop == {"BITRANGEINTARRAY", "LGET", "GETRANGE", "LCS", "LRANGE", "LMPOP"}

cluster_range_reads == {"BITRANGEINTARRAY", "LGET", "GETRANGE", "LCS", "LRANGE", "PFCOUNT",
   "ZRANGE", "ZREVRANGE", "ZRANGEBYSCORE"}

cluster_key_methods(m, c, in, ctx) ==
  CASE m \in {"HMGET", "HGETEX", "HGETDEL"} -> cluster_mbulk_assoc_resp(c, in, ctx)
    [] m \in {"HSETEX", "HSTRLEN", "INCR", "INCRBY", "DECR", "DECRBY", "EXPIRETIME", "PEXPIRETIME",
         "APPEND", "GETBIT", "EXPIREMEMBER", "EXPIREMEMBERAT", "SETBIT", "BITOP", "BITCOUNT", "BITPOS"} ->
         cluster_long_resp(c, in, ctx) [] m = "HIMPORT" -> cluster_himport_resp(c, in, ctx)
    [] m = "DUMP" -> cluster_bulk_raw_resp(c, in, ctx)
    [] m \in {"INCRBYFLOAT", "DECRBYFLOAT"} -> cluster_dbl_resp(c, in, ctx)
    [] m \in {"EXPIRE", "EXPIREAT", "PEXPIRE", "PEXPIREAT"} -> cluster_1_resp(c, in, ctx)
    [] OTHER -> cluster_range_methods(m, c, in, ctx)
cluster_key_reads == {"HMGET", "HSTRLEN", "DUMP", "EXPIRETIME", "PEXPIRETIME", "GETBIT", "BITCOUNT",
   "BITPOS"}

cluster_hash_methods(m, c, in, ctx) ==
  CASE m \in {"ZCOUNT", "ZRANK", "ZREVRANK", "HLEN", "HSET", "HINCRBY", "HDEL"} ->
         cluster_long_resp(c, in, ctx) [] m = "HKEYS" -> cluster_mbulk_raw_resp(c, in, ctx)
    [] m = "HVALS" -> cluster_mbulk_resp(c, in, ctx) [] m = "HGET" -> cluster_bulk_resp(c, in, ctx)
    [] m = "HGETWITHMETA" -> cluster_bulk_withmeta_resp(c, in, ctx)
    [] m \in {"HSETNX", "HEXISTS"} -> cluster_1_resp(c, in, ctx)
    [] m = "HGETALL" -> cluster_mbulk_zipstr_resp(c, in, ctx)
    [] m = "HINCRBYFLOAT" -> cluster_dbl_resp(c, in, ctx)
    [] m = "HMSET" -> cluster_bool_resp(c, in, ctx)
    [] m \in {"HEXPIRE", "HPEXPIRE", "HEXPIREAT", "HPEXPIREAT", "HTTL", "HPTTL", "HEXPIRETIME",
         "HPEXPIRETIME", "HPERSIST"} -> cluster_variant_resp(c, in, ctx)
    [] m = "HRANDFIELD" -> cluster_hrandfield_resp(c, in, ctx)
    [] OTHER -> cluster_key_methods(m, c, in, ctx)
cluster_hash_reads == {"ZCOUNT", "ZRANK", "ZREVRANK", "HLEN", "HKEYS", "HVALS", "HGET",
   "HGETWITHMETA", "HGETALL", "HEXISTS", "HTTL", "HPTTL", "HEXPIRETIME", "HPEXPIRETIME",
   "HRANDFIELD"}

cluster_set_methods(m, c, in, ctx) ==
  CASE m \in {"SMEMBERS", "SUNION", "SINTER", "SDIFF"} -> cluster_mbulk_resp(c, in, ctx)
    [] m \in {"SISMEMBER", "SMOVE", "PERSIST"} -> cluster_1_resp(c, in, ctx)
    [] m = "SMISMEMBER" -> cluster_variant_resp(c, in, ctx)
    [] m \in {"SADD", "SADDARRAY", "SREM", "SUNIONCARD", "SDIFFCARD", "SUNIONSTORE", "SINTERCARD",
         "SINTERSTORE", "SDIFFSTORE", "TTL", "PTTL", "ZCARD", "ZREMRANGEBYSCORE"} -> cluster_long_resp(c,
         in, ctx) [] m \in {"ZSCORE", "ZINCRBY"} -> cluster_dbl_resp(c, in, ctx)
    [] m = "ZMSCORE" -> cluster_mbulk_dbl_resp(c, in, ctx)
    [] m = "ZADD" -> cluster_zadd_resp(c, in, ctx)
    [] OTHER -> cluster_hash_methods(m, c, in, ctx)
cluster_set_reads == {"SMEMBERS", "SISMEMBER", "SMISMEMBER", "SDIFF", "TTL", "PTTL", "ZCARD",
   "ZSCORE", "ZMSCORE"}

cluster_list_methods(m, c, in, ctx) ==
  CASE m = "TYPE" -> cluster_type_resp(c, in, ctx)
    [] m \in {"LPOP", "RPOP"} -> cluster_pop_resp(c, in, ctx)
    [] m = "LPOS" -> cluster_lpos_resp(c, in, ctx) [] m = "LSET" -> cluster_bool_resp(c, in, ctx)
    [] m = "SRANDMEMBER" -> cluster_randmember_resp(c, in, ctx)
    [] m \in {"STRLEN", "LPUSH", "RPUSH", "RPUSHX", "LPUSHX", "LINSERT", "LREM", "LLEN", "SCARD"} ->
         cluster_long_resp(c, in, ctx)
    [] m \in {"BLPOP", "BRPOP", "LMOVEM", "BLMOVEM"} -> cluster_mbulk_resp(c, in, ctx)
    [] m \in {"LINDEX", "RPOPLPUSH", "BRPOPLPUSH", "LMOVE", "BLMOVE"} -> cluster_bulk_resp(c, in, ctx)
    [] OTHER -> cluster_set_methods(m, c, in, ctx)
cluster_list_reads == {"TYPE", "LPOS", "SRANDMEMBER", "STRLEN", "LLEN", "SCARD"}

cluster_string_methods(m, c, in, ctx) ==
  CASE m \in {"GETEX", "GETSET"} -> cluster_bulk_resp(c, in, ctx)
    [] m \in {"SETEX", "PSETEX"} -> cluster_bool_resp(c, in, ctx)
    [] m = "SETNX" -> cluster_1_resp(c, in, ctx)
    [] m \in {"EXISTS", "TOUCH"} -> cluster_long_resp(c, in, ctx)
    [] OTHER -> cluster_list_methods(m, c, in, ctx)
cluster_string_reads == {"EXISTS"}

cluster_get_methods(m, c, in, ctx) ==
  CASE m \in {"GET", "GETDEL"} -> cluster_bulk_resp(c, in, ctx)
    [] m = "GETWITHMETA" -> cluster_bulk_withmeta_resp(c, in, ctx)
    [] m = "SET" -> cluster_set_resp(c, in, ctx)
    [] OTHER -> cluster_string_methods(m, c, in, ctx)
cluster_get_reads == {"GET", "GETDEL", "GETWITHMETA"}

cluster_delete_methods(m, c, in, ctx) ==
  CASE m \in {"DELEX", "DELIFEQ", "MSETEX"} -> cluster_long_resp(c, in, ctx)
    [] OTHER -> cluster_get_methods(m, c, in, ctx)

ClusterReads(m, c, in, ctx) == cluster_delete_methods(m, c, in, ctx)
Readonly ==
  cluster_get_reads \cup cluster_string_reads \cup cluster_list_reads \cup cluster_set_reads \cup
  cluster_hash_reads \cup cluster_key_reads \cup cluster_range_reads \cup cluster_zset_reads \cup
  cluster_eval_reads \cup cluster_geo_reads \cup cluster_stream_reads \cup cluster_last_reads
=============================================================================
