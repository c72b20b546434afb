--------------------------- MODULE StreamCommands ---------------------------
(***************************************************************************)
(* Builders of the commands on streams (redis_commands.c).                  *)
(***************************************************************************)
EXTENDS GenericCommands

Ids(n) == Times(n, <<Arg("id")>>)
redis_cmd_cat_delex_mode(r) == OneFlag(r, <<"KEEPREF", "DELREF", "ACKED">>)

redis_xdelex_cmd(kw, r) ==
  CmdIf(r.n > 0, Cmd("XDELEX", <<Key1(r)>> \o redis_cmd_cat_delex_mode(r)
                               \o <<Word("IDS"), Count(r.n)>> \o Ids(r.n)))
redis_xackdel_cmd(kw, r) ==
  CmdIf(r.n > 0, Cmd("XACKDEL", <<Key1(r), Arg("group")>> \o redis_cmd_cat_delex_mode(r)
                                \o <<Word("IDS"), Count(r.n)>> \o Ids(r.n)))
redis_xack_cmd(kw, r) ==
  CmdIf(r.n > 0, Cmd("XACK", <<Key1(r), Arg("group")>> \o Ids(r.n)))

redis_xadd_cmd(kw, r) ==
  CmdIf(r.n > 0,
        Cmd("XADD", <<Key1(r)>> \o Flag(r, "NOMKSTREAM")
                    \o If("MAXLEN" \in r.o, <<Word("MAXLEN")>> \o Flag(r, "~") \o <<Arg("arg")>>)
                    \o <<Arg("id")>> \o Times(r.n, <<Arg("field"), Packed("value")>>)))

redis_xpending_cmd(kw, r) ==
  Cmd("XPENDING", <<Key1(r), Arg("group")>>
        \o If("range" \in r.o, Option(r, "IDLE") \o Ids(2) \o <<Arg("arg")>>
                               \o If("consumer" \in r.o, <<Arg("consumer")>>)))

\* The count of VRANGE has no word before it.
redis_xrange_generic_cmd(kw, r) ==
  Cmd(kw, <<Key1(r)>> \o Ids(2)
          \o If("COUNT" \in r.o, If(kw # "VRANGE", <<Word("COUNT")>>) \o <<Arg("arg")>>))

redis_cmd_cat_stream_args(r) == <<Word("STREAMS")>> \o Keys(r.ks) \o Ids(Len(r.ks))

redis_xread_cmd(kw, r) ==
  CmdIf(r.ks # <<>>, Cmd("XREAD", Options(r, <<"COUNT", "BLOCK">>) \o redis_cmd_cat_stream_args(r)))
redis_xreadgroup_cmd(kw, r) ==
  CmdIf(r.ks # <<>>,
        Cmd("XREADGROUP", <<Word("GROUP"), Arg("group"), Arg("consumer")>>
                          \o Options(r, <<"COUNT", "BLOCK">>) \o redis_cmd_cat_stream_args(r)))

redis_xautoclaim_cmd(kw, r) ==
  WithCtx(Cmd("XAUTOCLAIM", <<Key1(r), Arg("group"), Arg("consumer"), Arg("arg"), Arg("id")>>
                            \o Option(r, "COUNT") \o Flag(r, "JUSTID")), "xautoclaim")

redis_xclaim_cmd(kw, r) ==
  CmdIf(r.n > 0,
        Cmd("XCLAIM", <<Key1(r), Arg("group"), Arg("consumer"), Arg("arg")>> \o Ids(r.n)
                      \o OneOption(r, <<"TIME", "IDLE">>) \o Option(r, "RETRYCOUNT")
                      \o Flags(r, <<"FORCE", "JUSTID">>)))

-----------------------------------------------------------------------------
(* Groups, what is known of a stream, and its length. *)

\* MKSTREAM is for CREATE and ENTRIESREAD for CREATE and SETID; elsewhere they are left out.
redis_xgroup_cmd(kw, r) ==
  LET create == r.op = "CREATE"
  IN CmdIf(r.op \in {"HELP", "CREATE", "SETID", "CREATECONSUMER", "DELCONSUMER", "DESTROY"},
           Cmd("XGROUP", <<Word(r.op)>>
                         \o If(r.op # "HELP", <<Key1(r), Arg("group")>>)
                         \o If(r.op \notin {"HELP", "DESTROY"}, <<Arg("id")>>)
                         \o If(create, Flag(r, "MKSTREAM"))
                         \o If(create \/ r.op = "SETID", Option(r, "ENTRIESREAD"))))

redis_xinfo_cmd(kw, r) ==
  CmdIf(("arg" \in r.o => r.ks # <<>>) /\ ("COUNT" \in r.o => "arg" \in r.o),
        Cmd("XINFO", <<Word(r.op)>> \o If(r.ks # <<>>, <<Key1(r)>>)
                     \o If("arg" \in r.o, <<Arg("arg")>>) \o Option(r, "COUNT")))

\* LIMIT is for an approximate threshold.
redis_xtrim_cmd(kw, r) ==
  Cmd("XTRIM", <<Key1(r), Word(IF "MINID" \in r.o THEN "MINID" ELSE "MAXLEN"),
                 Word(IF "~" \in r.o THEN "~" ELSE "="), Arg("arg")>>
               \o If("~" \in r.o, Option(r, "LIMIT")))
=============================================================================
