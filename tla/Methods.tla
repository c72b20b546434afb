------------------------------ MODULE Methods ------------------------------
(***************************************************************************)
(* Which builder makes the command of a method of Redis (the tables of      *)
(* redis.c and the methods written out there).  RedisCluster has most of    *)
(* them, made by the same builders.  A method goes by its keyword, or by its *)
(* own name where it shares the keyword with another.                       *)
(***************************************************************************)
EXTENDS ChannelCommands, CollectionCommands, GeoCommands, KeyCommands,
        StreamCommands, StringCommands, VectorCommands, ZsetCommands

SharedKeyword ==
  [GETWITHMETA |-> "GET", HGETWITHMETA |-> "HGET", SADDARRAY |-> "SADD", LGET |-> "LINDEX",
   SORTASC |-> "SORT", SORTASCALPHA |-> "SORT", SORTDESC |-> "SORT", SORTDESCALPHA |-> "SORT",
   SERVERNAME |-> "HELLO", SERVERVERSION |-> "HELLO"]
Keyword(m) == IF m \in DOMAIN SharedKeyword THEN SharedKeyword[m] ELSE m


\* REDIS_SORT_CMD_FUNC: what the name of the method says.
Sorted_by(m, r) ==
  [r EXCEPT !.o = (@ \ {"DESC", "ALPHA"})
                  \cup (IF m \in {"SORTDESC", "SORTDESCALPHA"} THEN {"DESC"} ELSE {})
                  \cup (IF m \in {"SORTASCALPHA", "SORTDESCALPHA"} THEN {"ALPHA"} ELSE {})]

(* Methods written out: a count or none, HELLO, and the SCAN family. *)
redis_other_methods(m, kw, r) ==
  CASE m \in {"SPOP", "ZPOPMAX", "ZPOPMIN"} ->
         IF "count" \in r.o THEN redis_key_long_cmd(kw, r) ELSE redis_key_cmd(kw, r)
    [] m \in {"SERVERNAME", "SERVERVERSION"} -> redis_empty_cmd(kw, r)
    [] m \in {"SCAN", "SSCAN", "HSCAN", "ZSCAN"} -> redis_fmt_scan_cmd(kw, r)
    [] m \in {"LGET"} -> redis_key_long_cmd(kw, r)
    [] m \in {"DECRBYFLOAT"} -> redis_key_dbl_cmd(kw, r)

redis_kw_methods_p_to_z(m, kw, r) ==
  CASE m \in {"PERSIST", "PEXPIRETIME", "PTTL", "SMEMBERS", "SCARD", "STRLEN", "TTL", "TYPE",
         "VCARD", "VDIM", "VINFO", "XLEN", "ZCARD"} -> redis_key_cmd(kw, r)
    [] m \in {"PEXPIRE", "PEXPIREAT"} -> redis_expire_cmd(kw, r)
    [] m = "PING" -> redis_opt_str_cmd(kw, r)
    [] m \in {"PSETEX", "SETEX"} -> redis_key_long_val_cmd(kw, r)
    [] m \in {"PSUBSCRIBE", "SSUBSCRIBE", "SUBSCRIBE"} -> redis_subscribe_cmd(kw, r)
    [] m = "PUBLISH" -> redis_key_str_cmd(kw, r)
    [] m \in {"PUNSUBSCRIBE", "SUNSUBSCRIBE", "UNSUBSCRIBE"} -> redis_unsubscribe_cmd(kw, r)
    [] m = "RPOP" -> redis_pop_cmd(kw, r)
    [] m \in {"RPUSH", "SADD", "SMISMEMBER", "SREM", "ZMSCORE", "ZREM"} -> redis_key_varval_cmd(kw, r)
    [] m \in {"RPUSHX", "SETNX", "SISMEMBER", "VISMEMBER", "VREM", "ZRANK", "ZREVRANK", "ZSCORE"} ->
         redis_kv_cmd(kw, r)
    [] m \in {"RANDOMKEY", "ROLE", "SAVE", "TIME", "UNWATCH"} -> redis_empty_cmd(kw, r)
    [] m \in {"RENAME", "RENAMENX", "RPOPLPUSH"} -> redis_key_key_cmd(kw, r)
    [] m \in {"REPLICAOF", "SLAVEOF"} -> redis_replicaof_cmd(kw, r)
    [] m = "SADDARRAY" -> redis_key_val_arr_cmd(kw, r)
    [] m \in {"SDIFF", "SDIFFSTORE", "SINTER", "SINTERSTORE", "SUNION", "SUNIONSTORE", "TOUCH",
         "UNLINK", "WATCH"} -> redis_varkey_cmd(kw, r)
    [] m \in {"SRANDMEMBER", "VRANDMEMBER"} -> redis_randmember_cmd(kw, r)
    [] m = "SETRANGE" -> redis_key_long_str_cmd(kw, r)
    [] m \in {"SINTERCARD", "ZINTERCARD"} -> redis_intercard_cmd(kw, r)
    [] m \in {"SORT", "SORT_RO"} -> redis_sort_cmd(kw, r)
    [] m \in {"SWAPDB", "WAIT"} -> redis_long_long_cmd(kw, r)
    [] m \in {"VRANGE", "XRANGE", "XREVRANGE"} -> redis_xrange_generic_cmd(kw, r)
    [] m = "XDEL" -> redis_key_str_arr_cmd(kw, r)
    [] m \in {"ZCOUNT", "ZREMRANGEBYSCORE"} -> redis_key_str_str_cmd(kw, r)
    [] m \in {"ZLEXCOUNT", "ZREMRANGEBYLEX"} -> redis_gen_zlex_cmd(kw, r)
    [] m \in {"ZRANGE", "ZRANGEBYSCORE", "ZREVRANGE", "ZREVRANGEBYSCORE", "ZRANGESTORE"} ->
         redis_zrange_cmd(kw, r)
    [] m \in {"ZRANGEBYLEX", "ZREVRANGEBYLEX"} -> redis_zrangebylex_cmd(kw, r)
    [] m = "ZREMRANGEBYRANK" -> redis_key_long_long_cmd(kw, r)
    [] m \in {"ZINTER", "ZUNION"} -> redis_zinterunion_cmd(kw, r)
    [] m \in {"ZINTERSTORE", "ZUNIONSTORE"} -> redis_zinterunionstore_cmd(kw, r)
    [] m = "ZMPOP" -> redis_mpop_cmd(kw, r)
    [] OTHER -> redis_other_methods(m, kw, r)

redis_kw_methods_a_to_m(m, kw, r) ==
  CASE m \in {"APPEND", "DELIFEQ", "GETSET", "LPUSHX"} -> redis_kv_cmd(kw, r)
    [] m \in {"BGSAVE", "BGREWRITEAOF", "DBSIZE", "LASTSAVE"} -> redis_empty_cmd(kw, r)
    [] m \in {"BLPOP", "BRPOP", "BZPOPMAX", "BZPOPMIN"} -> redis_blocking_pop_cmd(kw, r)
    [] m \in {"BLMOVE", "LMOVE"} -> redis_lmove_cmd(kw, r)
    [] m \in {"BLMOVEM", "LMOVEM"} -> redis_lmovem_cmd_impl(kw, r)
    [] m \in {"BLMPOP", "BZMPOP", "LMPOP"} -> redis_mpop_cmd(kw, r)
    [] m \in {"DEBUG", "DIGEST", "DUMP", "EXPIRETIME", "GET", "GETDEL", "GETWITHMETA", "HGETALL",
         "HKEYS", "HLEN", "HVALS", "KEYS", "LLEN"} -> redis_key_cmd(kw, r)
    [] m \in {"DECRBY", "GETBIT", "INCRBY", "LINDEX", "MOVE"} -> redis_key_long_cmd(kw, r)
    [] m \in {"DEL", "EXISTS"} -> redis_varkey_cmd(kw, r) [] m = "ECHO" -> redis_str_cmd(kw, r)
    [] m \in {"EVAL", "EVAL_RO", "EVALSHA", "EVALSHA_RO"} -> redis_eval_cmd(kw, r)
    [] m \in {"EXPIRE", "EXPIREAT"} -> redis_expire_cmd(kw, r)
    [] m \in {"FCALL", "FCALL_RO"} -> redis_fcall_cmd(kw, r)
    [] m \in {"FLUSHALL", "FLUSHDB"} -> redis_flush_cmd(kw, r)
    [] m \in {"GEOHASH", "GEOPOS", "LPUSH"} -> redis_key_varval_cmd(kw, r)
    [] m \in {"GEORADIUS", "GEORADIUS_RO"} -> redis_georadius_cmd(kw, r)
    [] m \in {"GEORADIUSBYMEMBER", "GEORADIUSBYMEMBER_RO"} -> redis_georadiusbymember_cmd(kw, r)
    [] m \in {"GETRANGE", "LRANGE", "LTRIM"} -> redis_key_long_long_cmd(kw, r)
    [] m \in {"HEXISTS", "HGET", "HGETWITHMETA"} -> redis_key_str_cmd(kw, r)
    [] m \in {"HEXPIRE", "HEXPIREAT", "HPEXPIRE", "HPEXPIREAT"} -> redis_hexpire_cmd(kw, r)
    [] m \in {"HEXPIRETIME", "HPERSIST", "HPEXPIRETIME", "HPTTL", "HTTL"} -> redis_httl_cmd(kw, r)
    [] m = "INCRBYFLOAT" -> redis_key_dbl_cmd(kw, r) [] m = "LPOP" -> redis_pop_cmd(kw, r)
    [] m = "LSET" -> redis_key_long_val_cmd(kw, r) [] m \in {"MSET", "MSETNX"} -> redis_mset_cmd(kw, r)
    [] OTHER -> redis_kw_methods_p_to_z(m, kw, r)

redis_methods(m, kw, r) ==
  CASE m = "ACL" -> redis_acl_cmd(kw, r) [] m = "AUTH" -> redis_auth_cmd(kw, r)
    [] m = "BITCOUNT" -> redis_bitcount_cmd(kw, r) [] m = "BITOP" -> redis_bitop_cmd(kw, r)
    [] m = "BITPOS" -> redis_bitpos_cmd(kw, r)
    [] m = "BITRANGEINTARRAY" -> redis_bitrangeintarray_cmd(kw, r)
    [] m = "BRPOPLPUSH" -> redis_brpoplpush_cmd(kw, r) [] m = "CLIENT" -> redis_client_cmd(kw, r)
    [] m = "COMMAND" -> redis_command_cmd(kw, r) [] m = "CONFIG" -> redis_config_cmd(kw, r)
    [] m = "COPY" -> redis_copy_cmd(kw, r) [] m = "DECR" -> redis_decr_cmd(kw, r)
    [] m = "DELEX" -> redis_delex_cmd(kw, r) [] m = "EXPIREMEMBER" -> redis_expiremember_cmd(kw, r)
    [] m = "EXPIREMEMBERAT" -> redis_expirememberat_cmd(kw, r)
    [] m = "FAILOVER" -> redis_failover_cmd(kw, r) [] m = "FUNCTION" -> redis_function_cmd(kw, r)
    [] m = "GCRA" -> redis_gcra_cmd(kw, r) [] m = "GEOADD" -> redis_geoadd_cmd(kw, r)
    [] m = "GEODIST" -> redis_geodist_cmd(kw, r) [] m = "GEOSEARCH" -> redis_geosearch_cmd(kw, r)
    [] m = "GEOSEARCHSTORE" -> redis_geosearchstore_cmd(kw, r) [] m = "GETEX" -> redis_getex_cmd(kw, r)
    [] m = "HDEL" -> redis_hdel_cmd(kw, r) [] m = "HINCRBY" -> redis_hincrby_cmd(kw, r)
    [] m = "HINCRBYFLOAT" -> redis_hincrbyfloat_cmd(kw, r) [] m = "HMGET" -> redis_hmget_cmd(kw, r)
    [] m = "HMSET" -> redis_hmset_cmd(kw, r) [] m = "HRANDFIELD" -> redis_hrandfield_cmd(kw, r)
    [] m = "HSET" -> redis_hset_cmd(kw, r) [] m = "HSETNX" -> redis_hsetnx_cmd(kw, r)
    [] m = "HSTRLEN" -> redis_hstrlen_cmd(kw, r) [] m = "HGETDEL" -> redis_hgetdel_cmd(kw, r)
    [] m = "HIMPORT" -> redis_himport_cmd(kw, r) [] m = "HGETEX" -> redis_hgetex_cmd(kw, r)
    [] m = "HSETEX" -> redis_hsetex_cmd(kw, r) [] m = "INCR" -> redis_incr_cmd(kw, r)
    [] m = "INFO" -> redis_info_cmd(kw, r) [] m = "LINSERT" -> redis_linsert_cmd(kw, r)
    [] m = "LPOS" -> redis_lpos_cmd(kw, r) [] m = "LCS" -> redis_lcs_cmd(kw, r)
    [] m = "LREM" -> redis_lrem_cmd(kw, r) [] m = "MGET" -> redis_mget_cmd(kw, r)
    [] m = "MIGRATE" -> redis_migrate_cmd(kw, r) [] m = "MSETEX" -> redis_msetex_cmd(kw, r)
    [] m = "OBJECT" -> redis_object_cmd(kw, r) [] m \in {"PFADD", "PFMERGE"} -> redis_gen_pf_cmd(kw, r)
    [] m = "PFCOUNT" -> redis_pfcount_cmd(kw, r) [] m = "PUBSUB" -> redis_pubsub_cmd(kw, r)
    [] m = "RAWCOMMAND" -> redis_build_raw_cmd(kw, r) [] m = "RESTORE" -> redis_restore_cmd(kw, r)
    [] m = "SMOVE" -> redis_smove_cmd(kw, r) [] m = "SCRIPT" -> redis_build_script_cmd(kw, r)
    [] m = "SELECT" -> redis_select_cmd(kw, r) [] m = "SET" -> redis_set_cmd(kw, r)
    [] m = "SETBIT" -> redis_setbit_cmd(kw, r) [] m = "SLOWLOG" -> redis_slowlog_cmd(kw, r)
    [] m \in {"SORTASC", "SORTASCALPHA", "SORTDESC", "SORTDESCALPHA"} -> generic_sort_cmd(kw, Sorted_by(m, r))
    [] m \in {"SUNIONCARD", "SDIFFCARD"} -> gen_suniondiffcard_cmd(kw, r)
    [] m = "VADD" -> redis_vadd_cmd(kw, r) [] m = "VEMB" -> redis_vemb_cmd(kw, r)
    [] m = "VGETATTR" -> redis_vgetattr_cmd(kw, r) [] m = "VLINKS" -> redis_vlinks_cmd(kw, r)
    [] m = "VSETATTR" -> redis_vsetattr_cmd(kw, r) [] m = "VSIM" -> redis_vsim_cmd(kw, r)
    [] m = "WAITAOF" -> redis_waitaof_cmd(kw, r) [] m = "XACK" -> redis_xack_cmd(kw, r)
    [] m = "XADD" -> redis_xadd_cmd(kw, r) [] m = "XAUTOCLAIM" -> redis_xautoclaim_cmd(kw, r)
    [] m = "XCLAIM" -> redis_xclaim_cmd(kw, r) [] m = "XDELEX" -> redis_xdelex_cmd(kw, r)
    [] m = "XGROUP" -> redis_xgroup_cmd(kw, r) [] m = "XINFO" -> redis_xinfo_cmd(kw, r)
    [] m = "XPENDING" -> redis_xpending_cmd(kw, r) [] m = "XREAD" -> redis_xread_cmd(kw, r)
    [] m = "XREADGROUP" -> redis_xreadgroup_cmd(kw, r) [] m = "XTRIM" -> redis_xtrim_cmd(kw, r)
    [] m = "ZADD" -> redis_zadd_cmd(kw, r) [] m = "ZINCRBY" -> redis_zincrby_cmd(kw, r)
    [] m = "ZRANDMEMBER" -> redis_zrandmember_cmd(kw, r) [] m = "ZDIFF" -> redis_zdiff_cmd(kw, r)
    [] m = "ZDIFFSTORE" -> redis_zdiffstore_cmd(kw, r)
    [] OTHER -> redis_kw_methods_a_to_m(m, kw, r)

Command(m, r) == redis_methods(m, Keyword(m), r)

-----------------------------------------------------------------------------
(* Methods of RedisCluster that name the node they go to, as one would a key. *)

CONSTANT Node
ASSUME NodeAssumption == Node \in DOMAIN SlotOf

EmptyNodeMethods == {"SAVE", "BGSAVE", "BGREWRITEAOF", "DBSIZE", "LASTSAVE", "ROLE", "TIME", "RANDOMKEY"}
RawMethods       == {"CONFIG", "PUBSUB", "SLOWLOG"}
DirectedMethods  ==
  EmptyNodeMethods \cup RawMethods
  \cup {"FLUSHDB", "FLUSHALL", "INFO", "CLIENT", "SCRIPT", "WAIT", "WAITAOF", "PING", "ECHO",
        "RAWCOMMAND", "ACL", "SCAN"}

\* cluster_raw_cmd: the arguments as they are.
cluster_raw_cmd(m, r) ==
  Cmd(m, <<Word(r.op)>> \o [i \in 1..Len(r.ks) |-> Arg("rawkey")] \o Times(r.n, <<Arg("arg")>>))

cluster_client_cmd(r) ==
  CmdIf(r.op \in {"LIST", "KILL", "SETNAME", "GETNAME"},
        Cmd("CLIENT", <<Word(r.op)>> \o If(r.n > 0, <<Arg("arg")>>)))

cluster_node_methods(m, r) ==
  CASE m \in EmptyNodeMethods         -> Cmd(m, <<>>)
    [] m \in RawMethods \cup {"ACL"}   -> cluster_raw_cmd(m, r)
    [] m \in {"FLUSHDB", "FLUSHALL"}  -> Cmd(m, Flag(r, "ASYNC"))
    [] m = "CLIENT"                   -> cluster_client_cmd(r)
    [] m \in {"INFO", "PING"}         -> Cmd(m, Times(r.n, <<Arg("arg")>>))
    [] m \in {"SCRIPT", "WAIT", "WAITAOF", "ECHO", "RAWCOMMAND", "SCAN"} -> Command(m, r)

DirectedCommand(m, r) ==
  LET cmd == cluster_node_methods(m, r)
  IN IF cmd = NoCmd THEN NoCmd ELSE [cmd EXCEPT !.pieces = <<SlotFor(Node)>> \o @, !.ctx = "default"]
=============================================================================
