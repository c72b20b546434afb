---------------------------- MODULE ZsetCommands ----------------------------
(***************************************************************************)
(* Builders of the commands on sorted sets (redis_commands.c).              *)
(***************************************************************************)
EXTENDS GenericCommands

\* redis_get_zcmd_flags: the options a command of the family is given.
redis_get_zcmd_flags(kw) ==
  CASE kw \in {"ZRANGESTORE", "ZRANGE"} -> {"WITHSCORES", "BYSCORE", "BYLEX", "REV", "LIMIT"}
    [] kw \in {"ZREVRANGE", "ZDIFF"}    -> {"WITHSCORES"}
    [] kw \in {"ZRANGEBYSCORE", "ZREVRANGEBYSCORE"} -> {"LIMIT", "WITHSCORES"}
    [] kw \in {"ZRANGEBYLEX", "ZREVRANGEBYLEX"}     -> {"LIMIT"}
    [] kw \in {"ZINTER", "ZUNION"}      -> {"WITHSCORES", "AGGREGATE"}

\* Of BYSCORE and BYLEX the one named last stays.
redis_get_zcmd_options(kw, r) ==
  LET both == {"BYSCORE", "BYLEX"} \subseteq r.o
      lost == IF ~both THEN {} ELSE IF r.late THEN {"BYSCORE"} ELSE {"BYLEX"}
  IN [r EXCEPT !.o = (@ \cap redis_get_zcmd_flags(kw)) \ lost]

ScoresCtx(opts, cmd) == IF "WITHSCORES" \in opts.o THEN WithCtx(cmd, "withscores") ELSE cmd

Limit(r) == If("LIMIT" \in r.o, <<Word("LIMIT"), Arg("arg"), Arg("arg")>>)

redis_zrange_cmd(kw, r) ==
  LET opts  == redis_get_zcmd_options(kw, r)
      store == kw = "ZRANGESTORE"
  IN ScoresCtx(opts, Cmd(kw,
       If(store, <<Two(r)>>) \o <<One(r), Arg("arg"), Arg("arg")>>
       \o Flags(opts, <<"BYSCORE", "BYLEX", "REV">>) \o Limit(opts) \o Flag(opts, "WITHSCORES")))

redis_zrandmember_cmd(kw, r) ==
  LET Ctx == CASE "WITHSCORES" \in r.o -> "withscores"
               [] r.o = {"count"}      -> "count"
               [] OTHER                -> "string"
  IN WithCtx(Cmd("ZRANDMEMBER", <<Key1(r)>> \o If("count" \in r.o, <<Arg("arg")>>)
                                \o Flag(r, "WITHSCORES")), Ctx)

redis_zdiff_cmd(kw, r) ==
  CmdIf(r.ks # <<>>, ScoresCtx(r, Cmd("ZDIFF", Counted(r.ks) \o Flag(r, "WITHSCORES"))))

Weights(r)   == If("WEIGHTS" \in r.o, <<Word("WEIGHTS")>> \o Times(r.n, <<Arg("weight")>>))
GoodWeights(r) == "WEIGHTS" \in r.o => r.n = Len(r.ks)

redis_zinterunion_cmd(kw, r) ==
  CmdIf(r.ks # <<>> /\ GoodWeights(r),
        ScoresCtx(r, Cmd(kw, Counted(r.ks) \o Weights(r) \o Option(r, "AGGREGATE")
                             \o Flag(r, "WITHSCORES"))))

\* The destination comes first among the keys of the request.
Sources(r) == Tail(r.ks)
redis_zdiffstore_cmd(kw, r) ==
  CmdIf(Sources(r) # <<>>, Cmd("ZDIFFSTORE", <<Key1(r)>> \o Counted(Sources(r))))

redis_zinterunionstore_cmd(kw, r) ==
  CmdIf(Sources(r) # <<>> /\ ("WEIGHTS" \in r.o => r.n = Len(Sources(r))),
        Cmd(kw, <<Key1(r)>> \o Counted(Sources(r)) \o Weights(r) \o Option(r, "AGGREGATE")))

redis_zrangebylex_cmd(kw, r) == Cmd(kw, <<Key1(r), Arg("arg"), Arg("arg")>> \o Limit(r))
redis_gen_zlex_cmd(kw, r)    == Cmd(kw, <<Key1(r), Arg("arg"), Arg("arg")>>)

\* INCR is for one member.
redis_zadd_cmd(kw, r) ==
  LET cmd == Cmd("ZADD", <<Key1(r)>> \o OneFlag(r, <<"NX", "XX">>) \o OneFlag(r, <<"LT", "GT">>)
                         \o Flags(r, <<"CH", "INCR">>)
                         \o Times(r.n, <<Arg("score"), Packed("value")>>))
  IN CmdIf(r.n > 0 /\ ("INCR" \in r.o => r.n = 1),
           IF "INCR" \in r.o THEN WithCtx(cmd, "incr") ELSE cmd)

redis_zincrby_cmd(kw, r)     == Cmd("ZINCRBY", <<Key1(r), Arg("score"), Packed("value")>>)
=============================================================================
