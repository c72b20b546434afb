--------------------------- MODULE StringCommands ---------------------------
(***************************************************************************)
(* Builders of the commands on strings, bitmaps and HyperLogLogs            *)
(* (redis_commands.c).                                                      *)
(***************************************************************************)
EXTENDS GenericCommands

ExpiryWords == <<"EX", "PX", "EXAT", "PXAT">>
EqWords     == <<"IFEQ", "IFNE", "IFDEQ", "IFDNE">>
SetTypes    == <<"NX", "XX">>

redis_cmd_cat_expiry(r) ==
  IF "KEEPTTL" \in r.o THEN <<Word("KEEPTTL")>> ELSE OneOption(r, ExpiryWords)

\* Variant: the value is compared unpacked.
EqClauseUnpacked(r) ==
  LET eq == LastNamed(r, EqWords)
  IN If(eq # <<>>, <<Word(Head(eq)), Arg("value")>>)

\* A value is compared as it is stored, a digest as it is.
redis_cmd_cat_eq_clause(r) ==
  LET eq == LastNamed(r, EqWords)
  IN If(eq # <<>>, <<Word(Head(eq)),
                     IF Head(eq) \in {"IFEQ", "IFNE"} THEN Packed("value") ELSE Arg("digest")>>)

redis_cmd_cat_set_type(r) == OneFlag(r, SetTypes)

redis_msetex_cmd(kw, r) ==
  CmdIf(r.ks # <<>>,
        Cmd("MSETEX", <<Count(Len(r.ks))>> \o redis_mset_cmd("MSET", r).pieces
                      \o redis_cmd_cat_set_type(r) \o redis_cmd_cat_expiry(r)))

(* A bare number of seconds makes it a SETEX, and so does KEEPTTL named after *)
(* an expiry, whose seconds stay while its kind is cleared.  'GET' => true     *)
(* named after a comparison clears that (zstr_to_eq_type).                    *)
redis_set_cmd(kw, asked) ==
  LET r == IF "GET" \in asked.o /\ asked.late THEN [asked EXCEPT !.o = @ \ ToSet(EqWords)] ELSE asked
      type   == LastNamed(r, SetTypes) # <<>>
      expiry == LastNamed(r, ExpiryWords) # <<>>
      bare   == r.o = {"seconds"} \/ (expiry /\ "KEEPTTL" \in r.o /\ r.late)
      cmd    == Cmd("SET", <<Key1(r), Packed("value")>>
                           \o redis_cmd_cat_eq_clause(r) \o redis_cmd_cat_set_type(r)
                           \o Flag(r, "GET") \o redis_cmd_cat_expiry(r))
  IN CASE type /\ LastNamed(r, EqWords) # <<>> -> NoCmd
       [] bare /\ ~type -> redis_key_long_val_cmd("SETEX", r)
       [] OTHER -> IF "GET" \in r.o THEN WithCtx(cmd, "string") ELSE cmd

redis_mget_cmd(kw, r) == CmdIf(r.ks # <<>>, Cmd("MGET", Keys(r.ks)))

redis_getex_cmd(kw, r) ==
  LET named == LastNamed(r, ExpiryWords \o <<"PERSIST">>)
  IN Cmd("GETEX", <<Key1(r)>>
                  \o If(named # <<>>, IF Head(named) = "PERSIST"
                                      THEN <<Word("PERSIST")>> ELSE OneOption(r, ExpiryWords)))

redis_incr_cmd(kw, r) ==
  IF "by" \in r.o THEN redis_key_long_cmd("INCRBY", r) ELSE redis_key_cmd("INCR", r)
redis_decr_cmd(kw, r) ==
  IF "by" \in r.o THEN redis_key_long_cmd("DECRBY", r) ELSE redis_key_cmd("DECR", r)

redis_delex_cmd(kw, r) == Cmd("DELEX", <<Key1(r)>> \o redis_cmd_cat_eq_clause(r))

redis_lcs_cmd(kw, r) ==
  Cmd("LCS", <<Key1(r), Two(r)>> \o OneFlag(r, <<"IDX", "LEN">>)
             \o Flag(r, "WITHMATCHLEN") \o Option(r, "MINMATCHLEN"))

redis_setbit_cmd(kw, r) == Cmd("SETBIT", <<Key1(r), Arg("arg"), Arg("arg")>>)

redis_bitpos_cmd(kw, r) ==
  Cmd("BITPOS", <<Key1(r), Arg("arg")>> \o If("range" \in r.o, <<Arg("arg"), Arg("arg")>>)
                \o If("range" \in r.o, Flag(r, "BIT")))

redis_bitcount_cmd(kw, r) == Cmd("BITCOUNT", <<Key1(r), Arg("arg"), Arg("arg")>> \o Flag(r, "BIT"))

redis_bitrangeintarray_cmd(kw, r) ==
  Cmd("BITRANGEINTARRAY", <<Key1(r), Arg("arg"), Arg("arg")>>
        \o Flag(r, "BIT") \o Option(r, "LIMIT") \o Flag(r, "ZEROS"))

\* The destination comes first.
redis_bitop_cmd(kw, r) == Cmd("BITOP", <<Arg("arg")>> \o Keys(r.ks))

redis_gen_pf_cmd(kw, r) ==
  IF kw = "PFMERGE" THEN CmdIf(Len(r.ks) > 1, Cmd(kw, Keys(r.ks)))
                    ELSE redis_key_varval_cmd(kw, r)
redis_pfcount_cmd(kw, r) == CmdIf(r.ks # <<>>, Cmd("PFCOUNT", Keys(r.ks)))
redis_gcra_cmd(kw, r) == Cmd("GCRA", <<Key1(r)>> \o Times(3, <<Arg("arg")>>) \o Option(r, "TOKENS"))
=============================================================================
