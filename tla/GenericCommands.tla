-------------------------- MODULE GenericCommands --------------------------
(***************************************************************************)
(* Builders that many commands share (redis_commands.c): one per signature, *)
(* and those for scripts, channels and the administration of the server.    *)
(* Each gives the command for the request r, or NoCmd if it refuses it.      *)
(***************************************************************************)
EXTENDS RedisCmd

One(r)  == TryKey(r.ks[1])
Two(r)  == TryKey(r.ks[2])
Key1(r) == Key(r.ks[1])

redis_empty_cmd(kw, r)         == Cmd(kw, <<RandSlot>>)
redis_opt_str_cmd(kw, r)       == Cmd(kw, Times(r.n, <<Arg("arg")>>))
redis_str_cmd(kw, r)           == Cmd(kw, <<Arg("arg")>>)
redis_key_cmd(kw, r)           == Cmd(kw, <<Key1(r)>>)
redis_key_long_cmd(kw, r)      == Cmd(kw, <<Key1(r), Arg("arg")>>)
redis_key_dbl_cmd(kw, r)       == Cmd(kw, <<Key1(r), Arg("arg")>>)
redis_key_str_cmd(kw, r)       == Cmd(kw, <<Key1(r), Arg("arg")>>)
redis_kv_cmd(kw, r)            == Cmd(kw, <<Key1(r), Packed("value")>>)
redis_key_str_str_cmd(kw, r)   == Cmd(kw, <<Key1(r), Arg("arg"), Arg("arg")>>)
redis_key_long_long_cmd(kw, r) == Cmd(kw, <<Key1(r), Arg("arg"), Arg("arg")>>)
redis_key_long_str_cmd(kw, r)  == Cmd(kw, <<Key1(r), Arg("arg"), Arg("arg")>>)
redis_key_long_val_cmd(kw, r)  == Cmd(kw, <<Key1(r), Arg("arg"), Packed("value")>>)
redis_key_key_cmd(kw, r)       == Cmd(kw, <<Key1(r), Two(r)>>)
redis_long_long_cmd(kw, r)     == Cmd(kw, <<Arg("arg"), Arg("arg")>>)
redis_varkey_cmd(kw, r)        == CmdIf(r.ks # <<>>, Cmd(kw, Keys(r.ks)))
redis_blocking_pop_cmd(kw, r)  == CmdIf(r.ks # <<>>, Cmd(kw, Keys(r.ks) \o <<Arg("arg")>>))
redis_key_varval_cmd(kw, r)    == CmdIf(r.n > 0, Cmd(kw, <<Key1(r)>> \o Times(r.n, <<Packed("value")>>)))
redis_key_val_arr_cmd(kw, r)   == redis_key_varval_cmd(kw, r)
redis_key_str_arr_cmd(kw, r)   == CmdIf(r.n > 0, Cmd(kw, <<Key1(r)>> \o Times(r.n, <<Arg("field")>>)))
gen_vararg_cmd(kw, r)          == Cmd(kw, Times(r.n, <<Arg("arg")>>))

redis_mset_cmd(kw, r) ==
  CmdIf(r.ks # <<>>,
        Cmd(kw, FlattenSeq([i \in 1..Len(r.ks) |-> <<TryKey(r.ks[i]), Packed("value")>>])))

redis_pop_cmd(kw, r) ==
  LET cmd == Cmd(kw, <<Key1(r)>> \o If("count" \in r.o, <<Arg("arg")>>))
  IN IF "count" \in r.o THEN WithCtx(cmd, "count") ELSE cmd

\* The members popped come with their scores if they are of a sorted set.
redis_mpop_cmd(kw, r) ==
  LET blocking == kw \in {"BLMPOP", "BZMPOP"}
      zset     == kw \in {"ZMPOP", "BZMPOP"}
      from     == IF zset THEN "MIN" ELSE "LEFT"
  IN CmdIf(r.ks # <<>>,
           WithCtx(Cmd(kw, If(blocking, <<Arg("arg")>>) \o Counted(r.ks)
                             \o <<Word(from)>> \o Option(r, "COUNT")),
                   IF zset THEN "withscores" ELSE "default"))

redis_intercard_cmd(kw, r) ==
  CmdIf(r.ks # <<>>, Cmd(kw, Counted(r.ks) \o Option(r, "LIMIT")))

-----------------------------------------------------------------------------
(* Scripts and functions. *)

\* The caller says how many of the elements of the array are keys, and that number is sent as it
\* is: a request says how many are, so it has no number beyond the array.
redis_eval_cmd(kw, r) ==
  Cmd(kw, <<Arg("script"), Count(Len(r.ks))>> \o If(r.ks = <<>>, <<RandSlot>>)
            \o Keys(r.ks) \o Times(r.n, <<Arg("value")>>))

redis_fcall_cmd(kw, r) ==
  Cmd(kw, <<Arg("script"), Count(Len(r.ks))>> \o Keys(r.ks)
            \o Times(r.n, <<Packed("value")>>))

\* Made without a socket: no prefix, and no slot.  What follows the arguments of KILL, FLUSH
\* (SYNC or ASYNC) and LOAD is not looked at.
redis_build_script_cmd(kw, r) ==
  CmdIf(r.op \in {"KILL", "FLUSH"} \/ (r.op \in {"LOAD", "EXISTS"} /\ r.n > 0),
        Cmd("SCRIPT", <<Word(r.op)>> \o CASE r.op = "KILL"                        -> <<>>
                                          [] r.op \in {"FLUSH", "LOAD"} /\ r.n > 0 -> <<Arg("arg")>>
                                          [] OTHER -> Times(r.n, <<Arg("arg")>>)))

FunctionCtx(op) ==
  CASE op \in {"DUMP", "LOAD"}  -> "string"
    [] op \in {"LIST", "STATS"} -> "function"
    [] OTHER                    -> "bool"

redis_function_cmd(kw, r) ==
  CmdIf(r.op \in {"DELETE", "LOAD", "RESTORE"} => r.n > 0,
        WithCtx(Cmd("FUNCTION", <<Word(r.op)>> \o Times(r.n, <<Arg("arg")>>)),
                FunctionCtx(r.op)))

-----------------------------------------------------------------------------
(* What is sent word for word. *)

redis_sentinel_cmd(kw, r)     == Cmd("SENTINEL", <<Word(kw)>>)
redis_sentinel_str_cmd(kw, r) == Cmd("SENTINEL", <<Word(kw), Arg("name")>>)

\* Made without a socket: a key is an argument like the others.
redis_build_raw_cmd(kw, r) ==
  Cmd(kw, [i \in 1..Len(r.ks) |-> Arg("rawkey")] \o Times(r.n, <<Arg("arg")>>))
=============================================================================
