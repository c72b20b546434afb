--------------------------- MODULE ClusterReplies ---------------------------
(***************************************************************************)
(* The handlers of replies of RedisCluster (cluster_library.c).  The header  *)
(* of the reply c is read before one is chosen: its type, its length or       *)
(* number, and the line of a status.  Outside of EXEC no handler sees an      *)
(* error; in EXEC an error has the length 0.                                 *)
(***************************************************************************)
EXTENDS ReplyReaders

Status(c) == c.t = "+"
IsInt(c)  == c.t = ":"
IsBulk(c) == c.t = "$"
IsArray(c) == c.t = "*"

\* cluster_check_response, for what is no redirection.
cluster_check_response(in) ==
  LET l == redis_sock_gets(in)
  IN [c |-> IF l.line.t = "+" THEN [l.line EXCEPT !.n = IF l.line.v = "OK" THEN 2 ELSE 3] ELSE l.line,
      in |-> l.in]

-----------------------------------------------------------------------------
(* One value. *)

BulkAs(c, in, As(_)) ==
  IF IsBulk(c) THEN StringOf(redis_sock_read_bulk_reply(in, c.n), As) ELSE Refuses(in)

cluster_bulk_raw_resp(c, in, ctx) == BulkAs(c, in, LAMBDA el : el)
cluster_bulk_resp(c, in, ctx)     == BulkAs(c, in, redis_unpack)
cluster_dbl_resp(c, in, ctx)      == BulkAs(c, in, LAMBDA el : [el EXCEPT !.as = "double"])
cluster_bulk_withmeta_resp(c, in, ctx) == [cluster_bulk_resp(c, in, ctx) EXCEPT !.array = TRUE]
cluster_vgetattr_resp(c, in, ctx) ==
  IF c.n <= 0 THEN Refuses(in)
  ELSE BulkAs(c, in, LAMBDA el : IF ctx.mode = "decode_json" THEN [el EXCEPT !.as = "json"] ELSE el)

cluster_bool_resp(c, in, ctx) == GivesBool(in, Status(c) /\ c.v = "OK")
cluster_1_resp(c, in, ctx)    == GivesBool(in, IsInt(c) /\ c.n # 0)
cluster_long_resp(c, in, ctx) == Gives(in, IF IsInt(c) THEN El(c.v, "long") ELSE False)
cluster_type_resp(c, in, ctx) == Gives(in, IF Status(c) THEN El(c.v, "long") ELSE False)

\* Whatever the type, as many bytes as its length says: after an error, the start of what follows it.
cluster_info_resp(c, in, ctx) ==
  LET b == redis_sock_read_bulk_reply(in, c.n)
  IN IF b.got = Nothing THEN Refuses(b.in) ELSE GivesAll(b.in, <<b.got>>)
cluster_client_list_resp(c, in, ctx) == cluster_info_resp(c, in, ctx)

-----------------------------------------------------------------------------
(* Arrays. *)

\* Stops at the first nil, which "should never come back".
mbulk_resp_loop_raw(in, n, ctx) ==
  LET One(at) == Text(Start(at))
  IN InTurn(n, in, One)

mbulk_resp_loop(in, n, ctx) == redis_mbulk_reply_loop(in, n, "all")

ValuesAs(l, As(_)) == [l EXCEPT !.els = [i \in DOMAIN @ |-> IF i % 2 = 0 THEN As(@[i]) ELSE @[i]]]
KeysAs(l, As(_))   == [l EXCEPT !.els = [i \in DOMAIN @ |-> IF i % 2 = 1 THEN As(@[i]) ELSE @[i]]]
WithoutNil(l) == [l EXCEPT !.els = SelectSeq(@, LAMBDA el : el # False)]
AllDoubles(l) ==
  [l EXCEPT !.els = [i \in DOMAIN @ |-> IF @[i] = False THEN @[i] ELSE [@[i] EXCEPT !.as = "double"]]]

mbulk_resp_loop_dbl(in, n, ctx) == AllDoubles(redis_mbulk_reply_loop(in, n, "none"))

mbulk_resp_loop_zipstr(in, n, ctx) ==
  IF n % 2 # 0 THEN Fails(Start(in)) ELSE ValuesAs(mbulk_resp_loop_raw(in, n, ctx), redis_unpack)

\* A nil is passed over, so that what follows it changes places.
mbulk_resp_loop_zipdbl(in, n, ctx) ==
  IF n % 2 # 0 THEN Fails(Start(in))
  ELSE Zipped(KeysAs(WithoutNil(redis_mbulk_reply_loop(in, n, "none")), redis_unpack), "double")

\* One line for each field, however many there are.
mbulk_resp_loop_assoc(in, n, ctx) == redis_mbulk_reply_loop(in, ctx.n, "all")

cluster_gen_mbulk_resp(c, in, ctx, Loop(_, _, _)) ==
  CASE ~IsArray(c) -> Refuses(in)
    [] IsArray(c) /\ c.n = -1 /\ NullMbulkAsNull -> Gives(in, Null)
    [] OTHER -> IF c.n <= 0 THEN GivesAll(in, <<>>) ELSE GivesRead(Loop(in, c.n, ctx))

cluster_mbulk_raw_resp(c, in, ctx)    == cluster_gen_mbulk_resp(c, in, ctx, mbulk_resp_loop_raw)
cluster_mbulk_resp(c, in, ctx)        == cluster_gen_mbulk_resp(c, in, ctx, mbulk_resp_loop)
cluster_mbulk_dbl_resp(c, in, ctx)    == cluster_gen_mbulk_resp(c, in, ctx, mbulk_resp_loop_dbl)
cluster_mbulk_zipstr_resp(c, in, ctx) == cluster_gen_mbulk_resp(c, in, ctx, mbulk_resp_loop_zipstr)
cluster_mbulk_zipdbl_resp(c, in, ctx) == cluster_gen_mbulk_resp(c, in, ctx, mbulk_resp_loop_zipdbl)
cluster_mbulk_assoc_resp(c, in, ctx)  == cluster_gen_mbulk_resp(c, in, ctx, mbulk_resp_loop_assoc)

-----------------------------------------------------------------------------
(* Replies of any type. *)

\* What Redis makes false is null if it was nil.
ClusterVariant(line, in, strings) ==
  CASE line.t = "$" /\ line.n = -1 -> Null
    [] line.t = "*" -> IF NullMbulkAsNull THEN Null ELSE El("", "empty")
    [] OTHER -> Variant(line, in, strings)

cluster_multibulk_resp_recursive(in, n, strings) ==
  ReadNested(in, n, LAMBDA line, rest : ClusterVariant(line, rest, strings))

cluster_variant_resp_generic(c, in, strings) ==
  CASE IsInt(c)  -> Gives(in, El(c.v, "long"))
    [] Status(c) -> Gives(in, IF strings THEN El(c.v, "raw") ELSE El("", "true"))
    [] IsBulk(c) -> Gives(redis_sock_read_bulk_reply(in, c.n).in,
                          IF c.n < 0 THEN Null ELSE redis_sock_read_bulk_reply(in, c.n).got)
    [] IsArray(c) /\ c.n < 0 /\ NullMbulkAsNull -> Gives(in, Null)
    [] IsArray(c) /\ ~(c.n < 0 /\ NullMbulkAsNull) -> GivesRead(cluster_multibulk_resp_recursive(in, c.n, strings))
    [] OTHER -> Refuses(in)
cluster_variant_resp(c, in, ctx)         == cluster_variant_resp_generic(c, in, FALSE)
cluster_variant_raw_resp(c, in, ctx)     == cluster_variant_resp_generic(c, in, FALSE)
cluster_variant_resp_strings(c, in, ctx) == cluster_variant_resp_generic(c, in, TRUE)

-----------------------------------------------------------------------------
(* Readers shared with Redis; those that look at the type first say so. *)

cluster_lpos_resp(c, in, ctx) == redis_read_lpos_response(c, in, ctx.mode)
cluster_mpop_resp(c, in, ctx) == redis_read_mpop_response(in, c.n, ctx.mode)
cluster_geosearch_resp(c, in, ctx) ==
  IF IsArray(c) THEN redis_read_geosearch_response(in, c.n, ctx.mode = "geo_withmeta") ELSE Refuses(in)
cluster_xrange_resp(c, in, ctx) == GivesRead(redis_read_stream_messages(in, c.n))
\* Variant: nil is an empty array whatever the option.
XreadNilEmpty(c, in, ctx) == GivesRead(redis_read_stream_messages_multi(in, c.n))

cluster_xread_resp(c, in, ctx) ==
  IF c.n = -1 /\ NullMbulkAsNull THEN Gives(in, Null)
  ELSE GivesRead(redis_read_stream_messages_multi(in, c.n))
cluster_xclaim_resp(c, in, ctx) ==
  IF IsArray(c) THEN GivesRead(redis_read_xclaim_reply(in, c.n, ctx.mode = "xautoclaim")) ELSE Refuses(in)
cluster_vemb_resp(c, in, ctx) ==
  IF IsArray(c) /\ c.n >= 0 THEN GivesRead(redis_read_vemb_response(in, c.n)) ELSE Refuses(in)
cluster_vinfo_resp(c, in, ctx) ==
  IF c.n < 2 \/ c.n % 2 # 0 THEN Refuses(in) ELSE GivesRead(redis_read_vinfo_response(in, c.n))
cluster_vlinks_resp(c, in, ctx) ==
  IF c.n < 0 THEN Refuses(in) ELSE GivesRead(redis_read_vlinks_response(in, c.n, ctx.mode))
cluster_xinfo_resp(c, in, ctx)       == GivesRead(redis_read_xinfo_response(in, c.n))
cluster_acl_getuser_resp(c, in, ctx) == GivesRead(redis_read_acl_getuser_reply(in, c.n))
cluster_acl_log_resp(c, in, ctx)     == GivesRead(redis_read_acl_log_reply(in, c.n))

-----------------------------------------------------------------------------
(* By the context the builder left. *)

cluster_pop_resp(c, in, ctx) ==
  IF ctx.mode = "count" THEN cluster_mbulk_resp(c, in, ctx) ELSE cluster_bulk_resp(c, in, ctx)
cluster_randmember_resp(c, in, ctx) == cluster_pop_resp(c, in, ctx)
cluster_hrandfield_resp(c, in, ctx) ==
  CASE ctx.mode = "string"     -> cluster_bulk_resp(c, in, ctx)
    [] ctx.mode = "count"      -> cluster_mbulk_raw_resp(c, in, ctx)
    [] ctx.mode = "withvalues" -> cluster_mbulk_zipdbl_resp(c, in, ctx)
cluster_zrandmember_resp(c, in, ctx) ==
  CASE ctx.mode = "string"     -> cluster_bulk_resp(c, in, ctx)
    [] ctx.mode = "count"      -> cluster_mbulk_raw_resp(c, in, ctx)
    [] ctx.mode = "withscores" -> cluster_mbulk_zipdbl_resp(c, in, ctx)
cluster_zdiff_resp(c, in, ctx) ==
  IF ctx.mode = "withscores" THEN cluster_mbulk_zipdbl_resp(c, in, ctx) ELSE cluster_mbulk_raw_resp(c, in, ctx)
cluster_zrange_resp(c, in, ctx) ==
  IF ctx.mode = "withscores" THEN cluster_mbulk_zipdbl_resp(c, in, ctx) ELSE cluster_mbulk_resp(c, in, ctx)
cluster_zadd_resp(c, in, ctx) ==
  IF ctx.mode = "incr" THEN cluster_dbl_resp(c, in, ctx) ELSE cluster_long_resp(c, in, ctx)
cluster_object_resp(c, in, ctx) ==
  IF ctx.mode = "long" THEN cluster_long_resp(c, in, ctx) ELSE cluster_bulk_resp(c, in, ctx)
cluster_himport_resp(c, in, ctx) ==
  IF ctx.mode = "long" THEN cluster_long_resp(c, in, ctx) ELSE cluster_bool_resp(c, in, ctx)
cluster_set_resp(c, in, ctx) ==
  IF ctx.mode = "default" THEN cluster_bool_resp(c, in, ctx) ELSE cluster_bulk_resp(c, in, ctx)

\* HSCAN, SSCAN, ZSCAN and SCAN: where to go on, and what there was on the way.
PageOf(els, type) ==
  CASE type = "SCAN"  -> cluster_mbulk_raw_resp(els.c, els.in, <<>>)
    [] type = "SSCAN" -> cluster_mbulk_resp(els.c, els.in, <<>>)
    [] type = "HSCAN" -> cluster_mbulk_zipstr_resp(els.c, els.in, <<>>)
    [] type = "ZSCAN" -> cluster_mbulk_zipdbl_resp(els.c, els.in, <<>>)
ArrayOrFalse(a) == IF a.array THEN a ELSE Refuses(a.in)
PageAfter(it, type) ==
  IF IsBulk(it.c) /\ it.c.n # -1
  THEN ArrayOrFalse(PageOf(cluster_check_response(redis_sock_read_bulk_reply(it.in, it.c.n).in), type))
  ELSE Refuses(it.in)
cluster_scan_resp(c, in, type) ==
  IF IsArray(c) /\ c.n = 2 THEN PageAfter(cluster_check_response(in), type) ELSE Refuses(in)
=============================================================================
