-------------------------- MODULE ChannelCommands --------------------------
(***************************************************************************)
(* Builders for channels and for the administration of the server           *)
(* (redis_commands.c).                                                      *)
(***************************************************************************)
EXTENDS GenericCommands

Channels(ks) == [i \in 1..Len(ks) |-> Channel(ks[i])]

(* The channels are prefixed and hashed like keys; the shard's slot is that of *)
(* the first channel as the caller wrote it, without the prefix.               *)
redis_subscribe_cmd(kw, r) ==
  LET shard == kw = "SSUBSCRIBE"
      Chan(k) == <<TryKey(k)>> \o If(shard, <<InSlot(BareSlotOf[r.ks[1]])>>)
  IN CmdIf(r.ks # <<>>,
           Cmd(kw, FlattenSeq([i \in 1..Len(r.ks) |-> Chan(r.ks[i])])
                     \o If(~shard, <<RandSlot>>)))

redis_unsubscribe_cmd(kw, r) == CmdIf(r.ks # <<>>, Cmd(kw, Channels(r.ks)))

PubsubCtx(op) ==
  CASE op = "NUMPAT"                        -> "long"
    [] op \in {"CHANNELS", "SHARDCHANNELS"} -> "variant"
    [] OTHER                                -> "zipped_int"

redis_pubsub_cmd(kw, r) ==
  WithCtx(Cmd("PUBSUB",
              <<Word(r.op)>>
              \o If(r.op \in {"CHANNELS", "SHARDCHANNELS"}, Times(r.n, <<Arg("arg")>>))
              \o If(r.op \in {"NUMSUB", "SHARDNUMSUB"}, Channels(r.ks))),
          PubsubCtx(r.op))

-----------------------------------------------------------------------------
(* The server. *)

redis_failover_cmd(kw, r) ==
  Cmd("FAILOVER", If("TO" \in r.o, <<Word("TO"), Arg("arg"), Arg("arg")>> \o Flag(r, "FORCE"))
                  \o Flag(r, "ABORT") \o Option(r, "TIMEOUT"))

redis_flush_cmd(kw, r) == Cmd(kw, OneFlag(r, <<"ASYNC", "SYNC">>))

redis_replicaof_cmd(kw, r) ==
  Cmd(kw, IF r.n = 2 THEN <<Arg("arg"), Arg("arg")>> ELSE <<Word("NO"), Word("ONE")>>)

redis_config_cmd(kw, r) ==
  LET Settings == IF r.op = "GET" THEN <<Arg("arg")>> ELSE <<Arg("arg"), Arg("arg")>>
  IN CmdIf(r.op \in {"GET", "SET"} => r.n > 0,
           WithCtx(Cmd("CONFIG", <<Word(r.op)>>
                                 \o If(r.op \in {"GET", "SET"}, Times(r.n, Settings))),
                   IF r.op = "GET" THEN "zipped_raw" ELSE "bool"))

AclCtx(r) ==
  CASE r.op \in {"LOAD", "SAVE", "SETUSER", "DRYRUN"} -> "bool"
    [] r.op \in {"GENPASS", "WHOAMI"}                 -> "string"
    [] r.op = "DELUSER"                               -> "long"
    [] r.op = "GETUSER"                               -> "acl_getuser"
    [] r.op = "LOG"                                   -> IF "RESET" \in r.o THEN "bool" ELSE "acl_log"
    [] OTHER                                          -> "variant"

redis_acl_cmd(kw, r) ==
  LET needs == CASE r.op \in {"SETUSER", "DELUSER", "GETUSER"} -> 1
                 [] r.op = "DRYRUN" -> 2
                 [] OTHER -> 0
  IN CmdIf(r.n >= needs,
           WithCtx(Cmd("ACL", <<Word(r.op)>> \o If(r.op = "LOG", Flag(r, "RESET")) \o Times(r.n, <<Arg("arg")>>)),
                   AclCtx(r)))

redis_waitaof_cmd(kw, r) == Cmd("WAITAOF", Times(3, <<Arg("arg")>>))
redis_info_cmd(kw, r)    == gen_vararg_cmd("INFO", r)

(* SCAN, SSCAN, HSCAN, ZSCAN; the pattern comes with its prefix. *)
redis_fmt_scan_cmd(kw, r) ==
  Cmd(kw, If(kw # "SCAN", <<One(r)>>) \o <<Arg("cursor")>> \o Option(r, "COUNT") \o Option(r, "MATCH"))
=============================================================================
