---------------------------- MODULE RedisMethods ----------------------------
(***************************************************************************)
(* Which handler reads the reply to a method of Redis: the tables of        *)
(* redis.c, and the methods written out there.                              *)
(***************************************************************************)
EXTENDS RedisReplies

redis_other_methods_read(m, in, ctx) ==
  CASE m = "SPOP" -> IF ~ctx.count THEN redis_string_response(in, ctx)
                     ELSE redis_sock_read_multibulk_reply(in, ctx)
    [] m \in {"ZPOPMAX", "ZPOPMIN"} -> redis_mbulk_reply_zipped_keys_dbl(in, ctx)
    [] m \in {"SERVERNAME", "SERVERVERSION"} -> redis_hello_response(in, ctx)
    [] m \in {"SCAN", "SSCAN", "HSCAN", "ZSCAN"} -> redis_sock_read_scan_reply(in, m)

redis_kw_methods_p_to_z_read(m, in, ctx) ==
  CASE m \in {"PERSIST", "PEXPIRE", "PEXPIREAT", "RENAMENX", "SETNX", "SISMEMBER", "VISMEMBER"} ->
         redis_1_response(in, ctx)
    [] m \in {"PEXPIRETIME", "PTTL", "PUBLISH", "RPUSH", "RPUSHX", "SADD", "SADDARRAY", "SDIFFSTORE",
         "SINTERSTORE", "SUNIONSTORE", "SCARD", "SETRANGE", "SINTERCARD", "SREM", "STRLEN", "TOUCH", "TTL",
         "UNLINK", "VCARD", "VDIM", "VREM", "WAIT", "XDEL", "XLEN", "ZCARD", "ZCOUNT", "ZLEXCOUNT",
         "ZRANK", "ZREM", "ZREMRANGEBYLEX", "ZREMRANGEBYRANK", "ZREMRANGEBYSCORE", "ZREVRANK",
         "ZINTERCARD", "ZINTERSTORE", "ZRANGESTORE", "ZUNIONSTORE"} -> redis_long_response(in, ctx)
    [] m \in {"PING", "ROLE", "SMISMEMBER", "SORT", "SORT_RO"} -> redis_read_variant_reply(in, ctx)
    [] m \in {"PSETEX", "RENAME", "REPLICAOF", "SAVE", "SETEX", "SLAVEOF", "SWAPDB"} ->
         redis_boolean_response(in, ctx) [] m = "RPOP" -> redis_pop_response(in, ctx)
    [] m = "RANDOMKEY" -> redis_ping_response(in, ctx)
    [] m = "RPOPLPUSH" -> redis_string_response(in, ctx)
    [] m \in {"SDIFF", "SINTER", "SMEMBERS", "SUNION", "VRANGE", "ZRANGEBYLEX", "ZREVRANGEBYLEX"} ->
         redis_sock_read_multibulk_reply(in, ctx)
    [] m \in {"SRANDMEMBER", "VRANDMEMBER"} -> redis_randmember_response(in, ctx)
    [] m = "TIME" -> redis_mbulk_reply_raw(in, ctx) [] m = "TYPE" -> redis_type_response(in, ctx)
    [] m = "UNWATCH" -> redis_unwatch_response(in, ctx) [] m = "VINFO" -> redis_vinfo_reply(in, ctx)
    [] m = "WATCH" -> redis_watch_response(in, ctx)
    [] m \in {"XRANGE", "XREVRANGE"} -> redis_xrange_reply(in, ctx)
    [] m = "ZMSCORE" -> redis_mbulk_reply_double(in, ctx)
    [] m \in {"ZRANGE", "ZRANGEBYSCORE", "ZREVRANGE", "ZREVRANGEBYSCORE"} -> redis_zrange_response(in,
         ctx) [] m = "ZSCORE" -> redis_bulk_double_response(in, ctx)
    [] m \in {"ZINTER", "ZUNION"} -> redis_zdiff_response(in, ctx)
    [] m = "ZMPOP" -> redis_mpop_response(in, ctx)
    [] OTHER -> redis_other_methods_read(m, in, ctx)

redis_kw_methods_a_to_m_read(m, in, ctx) ==
  CASE m \in {"APPEND", "DBSIZE", "DECRBY", "DEL", "DELIFEQ", "EXISTS", "EXPIRETIME", "GETBIT",
         "HLEN", "INCRBY", "LLEN", "LPUSH", "LPUSHX", "LASTSAVE"} -> redis_long_response(in, ctx)
    [] m \in {"BGSAVE", "BGREWRITEAOF", "FLUSHALL", "FLUSHDB", "LSET", "LTRIM", "MSET"} ->
         redis_boolean_response(in, ctx)
    [] m \in {"BLPOP", "BLMOVEM", "BRPOP", "BZPOPMAX", "BZPOPMIN", "HVALS", "LMOVEM", "LRANGE"} ->
         redis_sock_read_multibulk_reply(in, ctx)
    [] m \in {"BLMOVE", "DEBUG", "DUMP", "ECHO", "GET", "GETDEL", "GETRANGE", "GETSET", "HGET",
         "LMOVE", "LINDEX"} -> redis_string_response(in, ctx)
    [] m \in {"BLMPOP", "BZMPOP", "LMPOP"} -> redis_mpop_response(in, ctx)
    [] m = "DIGEST" -> redis_ping_response(in, ctx)
    [] m \in {"EVAL", "EVAL_RO", "EVALSHA", "EVALSHA_RO", "FCALL", "FCALL_RO"} ->
         redis_read_raw_variant_reply(in, ctx)
    [] m \in {"EXPIRE", "EXPIREAT", "HEXISTS", "MOVE", "MSETNX"} -> redis_1_response(in, ctx)
    [] m \in {"GEOHASH", "HKEYS", "KEYS"} -> redis_mbulk_reply_raw(in, ctx)
    [] m \in {"GEOPOS", "GEORADIUS", "GEORADIUS_RO", "GEORADIUSBYMEMBER", "GEORADIUSBYMEMBER_RO",
         "HEXPIRE", "HEXPIREAT", "HEXPIRETIME", "HPERSIST", "HPEXPIRE", "HPEXPIREAT", "HPEXPIRETIME",
         "HPTTL", "HTTL"} -> redis_read_variant_reply(in, ctx)
    [] m \in {"GETWITHMETA", "HGETWITHMETA"} -> redis_bulk_withmeta_response(in, ctx)
    [] m = "HGETALL" -> redis_mbulk_reply_zipped_vals(in, ctx)
    [] m = "INCRBYFLOAT" -> redis_bulk_double_response(in, ctx)
    [] m = "LPOP" -> redis_pop_response(in, ctx)
    [] OTHER -> redis_kw_methods_p_to_z_read(m, in, ctx)

redis_methods_read(m, in, ctx) ==
  CASE m = "ACL" -> redis_acl_response(in, ctx)
    [] m \in {"AUTH", "FAILOVER", "HMSET", "MIGRATE", "PFMERGE", "RESTORE"} ->
         redis_boolean_response(in, ctx)
    [] m \in {"BITCOUNT", "BITOP", "BITPOS", "DECR", "DELEX", "EXPIREMEMBER", "EXPIREMEMBERAT",
         "GEOADD", "GEOSEARCHSTORE", "HDEL", "HINCRBY", "HSET", "HSTRLEN", "HSETEX", "INCR", "LINSERT",
         "LREM", "MSETEX", "PFADD", "PFCOUNT", "SETBIT", "SUNIONCARD", "SDIFFCARD", "VADD", "VSETATTR",
         "XACK", "XTRIM", "ZDIFFSTORE"} -> redis_long_response(in, ctx)
    [] m \in {"BITRANGEINTARRAY", "GCRA", "LCS", "SCRIPT", "SLOWLOG", "SORTASC", "SORTASCALPHA",
         "SORTDESC", "SORTDESCALPHA", "WAITAOF", "XADD", "XDELEX", "XGROUP"} ->
         redis_read_variant_reply(in, ctx)
    [] m \in {"BRPOPLPUSH", "GETEX"} -> redis_string_response(in, ctx)
    [] m = "CLIENT" -> redis_client_response(in, ctx)
    [] m = "COMMAND" -> redis_command_response(in, ctx)
    [] m = "CONFIG" -> redis_config_response(in, ctx)
    [] m \in {"COPY", "HSETNX", "SMOVE"} -> redis_1_response(in, ctx)
    [] m = "FUNCTION" -> redis_function_response(in, ctx)
    [] m \in {"GEODIST", "HINCRBYFLOAT", "ZINCRBY"} -> redis_bulk_double_response(in, ctx)
    [] m = "GEOSEARCH" -> redis_geosearch_response(in, ctx)
    [] m \in {"HMGET", "HGETDEL", "HGETEX"} -> redis_mbulk_reply_assoc(in, ctx)
    [] m = "HRANDFIELD" -> redis_hrandfield_response(in, ctx)
    [] m = "HIMPORT" -> redis_himport_response(in, ctx) [] m = "INFO" -> redis_info_response(in, ctx)
    [] m = "LPOS" -> redis_lpos_response(in, ctx)
    [] m = "MGET" -> redis_sock_read_multibulk_reply(in, ctx)
    [] m = "OBJECT" -> redis_object_response(in, ctx) [] m = "PUBSUB" -> redis_pubsub_response(in, ctx)
    [] m = "RAWCOMMAND" -> redis_read_raw_variant_reply(in, ctx)
    [] m = "SELECT" -> redis_select_response(in, ctx) [] m = "SET" -> redis_set_response(in, ctx)
    [] m = "VEMB" -> redis_vemb_reply(in, ctx) [] m = "VGETATTR" -> redis_vgetattr_reply(in, ctx)
    [] m = "VLINKS" -> redis_vlinks_reply(in, ctx) [] m = "VSIM" -> redis_zrange_response(in, ctx)
    [] m \in {"XAUTOCLAIM", "XCLAIM"} -> redis_xclaim_reply(in, ctx)
    [] m = "XINFO" -> redis_xinfo_reply(in, ctx)
    [] m = "XPENDING" -> redis_read_variant_reply_strings(in, ctx)
    [] m \in {"XREAD", "XREADGROUP"} -> redis_xread_reply(in, ctx)
    [] m = "ZADD" -> redis_zadd_response(in, ctx)
    [] m = "ZRANDMEMBER" -> redis_zrandmember_response(in, ctx)
    [] m = "ZDIFF" -> redis_zdiff_response(in, ctx)
    [] OTHER -> redis_kw_methods_a_to_m_read(m, in, ctx)

RedisReads(m, in, ctx) == redis_methods_read(m, in, ctx)
=============================================================================
