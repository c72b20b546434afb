------------------------- MODULE CollectionCommands -------------------------
(***************************************************************************)
(* Builders of the commands on lists, sets and hashes, and those that sort,  *)
(* move and restore keys (redis_commands.c).                                *)
(***************************************************************************)
EXTENDS GenericCommands

(* Lists. *)

\* A negative timeout does not block.
redis_brpoplpush_cmd(kw, r) ==
  IF "timeout" \in r.o THEN Cmd("BRPOPLPUSH", <<Key1(r), Two(r), Arg("arg")>>)
                       ELSE Cmd("RPOPLPUSH", <<Key1(r), Two(r)>>)

redis_lmove_cmd(kw, r) ==
  Cmd(kw, <<Key1(r), Two(r), Word("LEFT"), Word("RIGHT")>>
          \o If(kw = "BLMOVE", <<Arg("arg")>>))

redis_lmovem_cmd_impl(kw, r) ==
  CmdIf(~({"COUNT", "EXACTLY"} \subseteq r.o),
        Cmd(kw, <<Key1(r), Two(r), Word("LEFT"), Word("RIGHT")>>
                \o If(kw = "BLMOVEM", <<Arg("arg")>>)
                \o If(r.o # {}, OneOption(r, <<"COUNT", "EXACTLY">>) \o <<Word("BULK")>>)))

redis_linsert_cmd(kw, r) ==
  Cmd("LINSERT", <<Key1(r), Word("BEFORE"), Packed("value"), Packed("value")>>)
redis_lrem_cmd(kw, r) == Cmd("LREM", <<Key1(r), Arg("arg"), Packed("value")>>)
redis_lpos_cmd(kw, r) ==
  LET cmd == Cmd("LPOS", <<Key1(r), Packed("value")>> \o Options(r, <<"RANK", "COUNT", "MAXLEN">>))
  IN IF "COUNT" \in r.o THEN WithCtx(cmd, "count") ELSE cmd

-----------------------------------------------------------------------------
(* Sets. *)

redis_smove_cmd(kw, r) == Cmd("SMOVE", <<Key1(r), Two(r), Packed("value")>>)

gen_suniondiffcard_cmd(kw, r) ==
  CmdIf(r.ks # <<>>, Cmd(kw, Counted(r.ks) \o Option(r, "LIMIT")
                             \o If(kw = "SUNIONCARD", Flag(r, "APPROX"))))

redis_randmember_cmd(kw, r) ==
  LET cmd == Cmd(kw, <<Key1(r)>> \o If("count" \in r.o, <<Arg("arg")>>))
  IN IF "count" \in r.o THEN WithCtx(cmd, "count") ELSE cmd

-----------------------------------------------------------------------------
(* Hashes: the names of fields go as they are, their values packed. *)

FieldValues(n) == Times(n, <<Arg("field"), Packed("value")>>)
Fields(n)      == <<Word("FIELDS"), Count(n)>> \o Times(n, <<Arg("field")>>)

redis_hset_cmd(kw, r)   == CmdIf(r.n > 0, Cmd("HSET", <<Key1(r)>> \o FieldValues(r.n)))
redis_hmset_cmd(kw, r)  == CmdIf(r.n > 0, Cmd("HMSET", <<Key1(r)>> \o FieldValues(r.n)))
redis_hsetnx_cmd(kw, r) == Cmd("HSETNX", <<Key1(r)>> \o FieldValues(1))
redis_hdel_cmd(kw, r)   == CmdIf(r.n > 0, Cmd("HDEL", <<Key1(r)>> \o Times(r.n, <<Arg("field")>>)))
redis_hincrby_cmd(kw, r)      == Cmd("HINCRBY", <<Key1(r), Arg("field"), Arg("arg")>>)
redis_hincrbyfloat_cmd(kw, r) == Cmd("HINCRBYFLOAT", <<Key1(r), Arg("field"), Arg("arg")>>)
redis_hstrlen_cmd(kw, r)      == Cmd("HSTRLEN", <<Key1(r), Arg("field")>>)

\* The fields asked for, each once, are kept for the reply.
redis_hmget_cmd(kw, r) ==
  CmdIf(r.n > 0, WithCtx(Cmd("HMGET", <<Key1(r)>> \o Times(r.n, <<Arg("field")>>)), "fields"))

\* Values come with a count, if only of one.
redis_hrandfield_cmd(kw, r) ==
  LET values == "WITHVALUES" \in r.o
      count  == "count" \in r.o \/ values
  IN WithCtx(Cmd("HRANDFIELD", <<Key1(r)>> \o If(count, <<Arg("arg")>>) \o Flag(r, "WITHVALUES")),
             CASE values -> "withvalues" [] count /\ ~values -> "count" [] OTHER -> "string")

\* The commands that count the fields they name.
redis_httl_cmd(kw, r)    == CmdIf(r.n > 0, Cmd(kw, <<Key1(r)>> \o Fields(r.n)))
redis_hgetdel_cmd(kw, r) == CmdIf(r.n > 0, WithCtx(Cmd("HGETDEL", <<Key1(r)>> \o Fields(r.n)), "fields"))

redis_hexpire_cmd(kw, r) ==
  CmdIf(r.n > 0, Cmd(kw, <<Key1(r), Arg("arg")>> \o OneFlag(r, <<"NX", "XX", "GT", "LT">>) \o Fields(r.n)))

redis_hgetex_cmd(kw, r) ==
  LET named == LastNamed(r, <<"EX", "PX", "EXAT", "PXAT", "PERSIST">>)
  IN CmdIf(r.n > 0,
           WithCtx(Cmd("HGETEX", <<Key1(r)>>
                        \o If(named # <<>>, <<Word(Head(named))>>
                                            \o If(Head(named) # "PERSIST", <<Arg("arg")>>))
                        \o Fields(r.n)), "fields"))

redis_hsetex_cmd(kw, r) ==
  LET named == LastNamed(r, <<"EX", "PX", "EXAT", "PXAT", "KEEPTTL">>)
  IN CmdIf(r.n > 0,
           Cmd("HSETEX", <<Key1(r)>> \o OneFlag(r, <<"FNX", "FXX">>)
                         \o If(named # <<>>, <<Word(Head(named))>>
                                             \o If(Head(named) # "KEEPTTL", <<Arg("arg")>>))
                         \o <<Word("FIELDS"), Count(r.n)>> \o FieldValues(r.n)))

\* The key of SET; of the others, which are of the session, it is only where they go.
redis_himport_cmd(kw, r) ==
  LET cmd == Cmd("HIMPORT",
                 <<Word(r.op), IF r.op = "SET" THEN Key1(r) ELSE SlotFor(r.ks[1])>>
                 \o If(r.op # "DISCARDALL", <<Arg("arg")>>)
                 \o Times(r.n, <<IF r.op = "SET" THEN Packed("value") ELSE Arg("field")>>))
  IN CmdIf(r.op \in {"PREPARE", "SET"} <=> r.n > 0,
           IF r.op \in {"DISCARD", "DISCARDALL"} THEN WithCtx(cmd, "long") ELSE cmd)
=============================================================================
