--------------------------- MODULE VectorCommands ---------------------------
(***************************************************************************)
(* Builders of the commands on vector sets (redis_commands.c).              *)
(***************************************************************************)
EXTENDS GenericCommands

\* The numbers of a vector one by one, or their bytes in one string.
redis_cmd_cat_fp32_values(n) == <<Count(n)>> \o Times(n, <<Arg("number")>>)
redis_cmd_cat_fp32(n)        == <<Arg("blob")>>

Vector(values, n) == IF values THEN <<Word("VALUES")>> \o redis_cmd_cat_fp32_values(n)
                               ELSE <<Word("FP32")>> \o redis_cmd_cat_fp32(n)

redis_vadd_cmd(kw, r) ==
  CmdIf(r.n > 0,
        Cmd("VADD", <<Key1(r)>> \o Option(r, "REDUCE") \o Vector("VALUES" \in r.o, r.n)
                    \o <<Packed("value")>> \o Flag(r, "CAS")
                    \o OneFlag(r, <<"Q8", "BIN", "NOQUANT">>)
                    \o Options(r, <<"EF", "SETATTR", "M">>)))

\* Of FP32, VALUES and ELE the one named last stays; unnamed, an array of numbers is a vector.
redis_vsim_cmd(kw, r) ==
  LET named  == LastNamed(r, <<"FP32", "VALUES", "ELE">>)
      vector == IF named = <<>> THEN r.n > 0 ELSE Head(named) # "ELE"
      values == named # <<>> /\ Head(named) = "VALUES"
      cmd    == Cmd("VSIM", <<Key1(r)>>
                     \o (IF vector THEN Vector(values, r.n) ELSE <<Word("ELE"), Packed("value")>>)
                     \o Flag(r, "WITHSCORES") \o Options(r, <<"COUNT", "EF", "FILTER", "FILTER-EF">>)
                     \o Flags(r, <<"TRUTH", "NOTHREAD">>))
  IN CmdIf(vector => r.n > 0,
           IF "WITHSCORES" \in r.o THEN WithCtx(cmd, "withscores") ELSE cmd)

redis_vemb_cmd(kw, r) == Cmd("VEMB", <<Key1(r), Packed("value")>> \o Flag(r, "RAW"))

redis_vlinks_cmd(kw, r) ==
  LET cmd == Cmd("VLINKS", <<Key1(r), Packed("value")>> \o Flag(r, "WITHSCORES"))
  IN IF "WITHSCORES" \in r.o THEN WithCtx(cmd, "withscores") ELSE cmd

\* The attributes are JSON, decoded unless the caller asks for them raw.
redis_vgetattr_cmd(kw, r) ==
  WithCtx(Cmd("VGETATTR", <<Key1(r), Packed("value")>>),
          IF "raw" \in r.o THEN "default" ELSE "decode_json")
redis_vsetattr_cmd(kw, r) == Cmd("VSETATTR", <<Key1(r), Packed("value"), Arg("attributes")>>)
=============================================================================
