---------------------------- MODULE RedisReplies ----------------------------
(***************************************************************************)
(* The handlers of replies of Redis (library.c): each takes the wire and the *)
(* context its builder left, and gives the wire without the reply, what the   *)
(* caller gets (one value, or an array of them) and whether a pipeline or an   *)
(* EXEC gets an element for it.                                             *)
(***************************************************************************)
EXTENDS ReplyReaders

\* An error that leaves no element behind.
FailsUnadded(in)  == Answer(in, FALSE, <<False>>, FALSE)
\* What is read as a string, if it is one.
StringAs(in, As(_)) == StringOf(redis_sock_read(in), As)
\* What follows the header of an array, if it is one.
WhenArray(h, Read(_, _)) == IF h.ok THEN Read(h.in, h.n) ELSE Refuses(h.in)
ArrayOf(in, Read(_, _))  == WhenArray(read_mbulk_header(in), Read)

-----------------------------------------------------------------------------
(* One value. *)

redis_string_response(in, ctx)      == StringAs(in, redis_unpack)
redis_ping_response(in, ctx)        == StringAs(in, LAMBDA el : el)
redis_bulk_double_response(in, ctx) == StringAs(in, LAMBDA el : [el EXCEPT !.as = "double"])
redis_type_response(in, ctx)        == StringAs(in, LAMBDA el : [el EXCEPT !.as = "long"])
redis_vgetattr_reply(in, ctx) ==
  StringAs(in, LAMBDA el : CASE el.v = "" -> False
                             [] ctx.mode = "decode_json" /\ el.v # "" -> [el EXCEPT !.as = "json"]
                             [] OTHER -> el)

redis_boolean_response(in, ctx) ==
  LET r == redis_sock_read(in)
  IN GivesBool(r.in, r.got # Nothing /\ FirstOf(in).t = "+")

redis_select_response(in, ctx)  == redis_boolean_response(in, ctx)
redis_watch_response(in, ctx)   == redis_boolean_response(in, ctx)
redis_unwatch_response(in, ctx) == redis_boolean_response(in, ctx)

\* Only an integer will do.
redis_long_response(in, ctx) ==
  LET r == redis_sock_read(in)
  IN IF FirstOf(in).t = ":" THEN Gives(r.in, [r.got EXCEPT !.as = "long"]) ELSE Refuses(r.in)

redis_1_response(in, ctx) ==
  GivesBool(redis_sock_read(in).in, FirstOf(in).t = ":" /\ FirstOf(in).n = 1)

\* The length of the value comes with it, of a missing one too.
redis_bulk_withmeta_response(in, ctx) ==
  LET r == redis_sock_read(in)
  IN GivesAll(r.in, <<IF r.got = Nothing THEN False ELSE redis_unpack(r.got)>>)

redis_info_response(in, ctx) ==
  LET r == redis_sock_read(in)
  IN IF r.got = Nothing THEN FailsUnadded(r.in) ELSE GivesAll(r.in, <<r.got>>)
redis_client_info_reply(in, ctx) == redis_info_response(in, ctx)
redis_client_list_reply(in, ctx) == redis_info_response(in, ctx)

-----------------------------------------------------------------------------
(* Arrays of values. *)

\* An array that may be empty, or nil where nil is told apart.
LoopUnless(nil, in, n, unserialize) ==
  IF n < 1 THEN IF nil /\ n = -1 /\ NullMbulkAsNull THEN Gives(in, Null) ELSE GivesAll(in, <<>>)
  ELSE GivesRead(redis_mbulk_reply_loop(in, n, unserialize))

redis_sock_read_multibulk_reply(in, ctx) ==
  ArrayOf(in, LAMBDA rest, n : LoopUnless(TRUE, rest, n, "all"))
redis_mbulk_reply_raw(in, ctx) ==
  ArrayOf(in, LAMBDA rest, n : LoopUnless(FALSE, rest, n, "none"))

AsDoubles(l) ==
  [l EXCEPT !.els = [i \in DOMAIN @ |-> IF @[i] = False THEN @[i] ELSE [@[i] EXCEPT !.as = "double"]]]
redis_mbulk_reply_double(in, ctx) ==
  ArrayOf(in, LAMBDA rest, n : GivesRead(AsDoubles(redis_mbulk_reply_loop(rest, n, "none"))))

redis_mbulk_reply_zipped(in, unserialize, decode) ==
  ArrayOf(in, LAMBDA rest, n : GivesRead(Zipped(redis_mbulk_reply_loop(rest, n, unserialize), decode)))
redis_mbulk_reply_zipped_raw(in, ctx)      == redis_mbulk_reply_zipped(in, "none", "none")
redis_mbulk_reply_zipped_keys_int(in, ctx) == redis_mbulk_reply_zipped(in, "keys", "long")
redis_mbulk_reply_zipped_keys_dbl(in, ctx) == redis_mbulk_reply_zipped(in, "keys", "double")
redis_mbulk_reply_zipped_vals(in, ctx)     == redis_mbulk_reply_zipped(in, "vals", "none")

\* The fields the builder kept, one value each; any other number is refused.
redis_mbulk_reply_assoc(in, ctx) ==
  LET Read(rest, n) ==
        IF n # ctx.n THEN Refuses(rest)
        ELSE GivesRead(redis_mbulk_reply_loop(rest, n, "all"))
  IN ArrayOf(in, Read)

\* A reply of any type; nothing is added if there is none.
VariantOf(h, strings, nil) ==
  CASE h.line = NoTok -> FailsUnadded(h.in)
    [] h.line.t = "*" /\ h.line.n # -1 -> GivesRead(redis_read_multibulk_recursive(h.in, h.line.n, strings))
    [] h.line.t = "*" /\ h.line.n = -1 -> IF nil THEN Gives(h.in, Null) ELSE GivesAll(h.in, <<>>)
    [] OTHER -> Gives(AfterVariant(h.line, h.in), Variant(h.line, h.in, strings))
variant_reply_generic(in, strings, nil) == VariantOf(redis_read_reply_type(in), strings, nil)
redis_read_raw_variant_reply(in, ctx) == variant_reply_generic(in, FALSE, NullMbulkAsNull)
redis_read_variant_reply(in, ctx)     == variant_reply_generic(in, FALSE, NullMbulkAsNull)
redis_read_variant_reply_strings(in, ctx) == variant_reply_generic(in, TRUE, FALSE)

\* Arrays in arrays; HELLO only looks for two of the values.
Nested(in) == ArrayOf(in, LAMBDA rest, n : GivesRead(redis_read_multibulk_recursive(rest, n, FALSE)))
redis_client_trackinginfo_reply(in, ctx) == Nested(in)
redis_command_info_reply(in, ctx)        == Nested(in)
redis_function_reply(in, ctx)            == Nested(in)
HelloOf(a) == IF a.array THEN Gives(a.in, El("", "raw")) ELSE a
redis_hello_response(in, ctx) == HelloOf(Nested(in))

-----------------------------------------------------------------------------
(* Replies with a reader of their own. *)

redis_lpos_response(in, ctx) ==
  LET l == redis_sock_gets(in) IN redis_read_lpos_response(l.line, l.in, ctx.mode)
redis_mpop_response(in, ctx) ==
  ArrayOf(in, LAMBDA rest, n : redis_read_mpop_response(rest, n, ctx.mode))
redis_geosearch_response(in, ctx) ==
  ArrayOf(in, LAMBDA rest, n : redis_read_geosearch_response(rest, n, ctx.mode = "geo_withmeta"))

redis_xrange_reply(in, ctx) ==
  ArrayOf(in, LAMBDA rest, n : GivesRead(redis_read_stream_messages(rest, n)))
redis_xread_reply(in, ctx) ==
  LET Read(rest, n) == IF n = -1 /\ NullMbulkAsNull THEN Gives(rest, Null)
                       ELSE GivesRead(redis_read_stream_messages_multi(rest, n))
  IN ArrayOf(in, Read)
redis_xclaim_reply(in, ctx) ==
  ArrayOf(in, LAMBDA rest, n : GivesRead(redis_read_xclaim_reply(rest, n, ctx.mode = "xautoclaim")))
redis_xinfo_reply(in, ctx) ==
  ArrayOf(in, LAMBDA rest, n : GivesRead(redis_read_xinfo_response(rest, n)))

redis_vinfo_reply(in, ctx) ==
  LET Read(rest, n) == IF n < 0 \/ n % 2 # 0 THEN Refuses(rest)
                       ELSE GivesRead(redis_read_vinfo_response(rest, n))
  IN ArrayOf(in, Read)
redis_vemb_reply(in, ctx) ==
  ArrayOf(in, LAMBDA rest, n : IF n < 1 THEN Refuses(rest)
                               ELSE GivesRead(redis_read_vemb_response(rest, n)))
redis_vlinks_reply(in, ctx) ==
  ArrayOf(in, LAMBDA rest, n : IF n < 0 THEN Refuses(rest)
                               ELSE GivesRead(redis_read_vlinks_response(rest, n, ctx.mode)))

(* Of what is no array only the type is read, and the number after it. *)
redis_acl_custom_reply(in, Read(_, _)) ==
  LET h == redis_read_reply_type(in)
  IN IF h.line.t = "*" THEN GivesRead(Read(h.in, h.line.n)) ELSE Refuses(h.in)
redis_acl_getuser_reply(in, ctx) == redis_acl_custom_reply(in, redis_read_acl_getuser_reply)
redis_acl_log_reply(in, ctx)     == redis_acl_custom_reply(in, redis_read_acl_log_reply)

-----------------------------------------------------------------------------
(* By the context the builder left. *)

redis_config_response(in, ctx) ==
  IF ctx.mode = "bool" THEN redis_boolean_response(in, ctx) ELSE redis_mbulk_reply_zipped_raw(in, ctx)
redis_zrange_response(in, ctx) ==
  IF ctx.mode = "withscores" THEN redis_mbulk_reply_zipped_keys_dbl(in, ctx)
                             ELSE redis_sock_read_multibulk_reply(in, ctx)
redis_randmember_response(in, ctx) ==
  IF ctx.mode = "count" THEN redis_sock_read_multibulk_reply(in, ctx) ELSE redis_string_response(in, ctx)
redis_pop_response(in, ctx) == redis_randmember_response(in, ctx)
redis_zadd_response(in, ctx) ==
  IF ctx.mode = "incr" THEN redis_bulk_double_response(in, ctx) ELSE redis_long_response(in, ctx)
redis_zrandmember_response(in, ctx) ==
  CASE ctx.mode = "string"     -> redis_string_response(in, ctx)
    [] ctx.mode = "count"      -> redis_mbulk_reply_raw(in, ctx)
    [] ctx.mode = "withscores" -> redis_mbulk_reply_zipped_keys_dbl(in, ctx)
redis_zdiff_response(in, ctx) ==
  IF ctx.mode = "withscores" THEN redis_mbulk_reply_zipped_keys_dbl(in, ctx)
                             ELSE redis_mbulk_reply_raw(in, ctx)
redis_set_response(in, ctx) ==
  IF ctx.mode = "string" THEN redis_string_response(in, ctx) ELSE redis_boolean_response(in, ctx)
redis_hrandfield_response(in, ctx) ==
  CASE ctx.mode = "string"     -> redis_string_response(in, ctx)
    [] ctx.mode = "count"      -> redis_mbulk_reply_raw(in, ctx)
    [] ctx.mode = "withvalues" -> redis_mbulk_reply_zipped_raw(in, ctx)
redis_object_response(in, ctx) ==
  IF ctx.mode = "long" THEN redis_long_response(in, ctx) ELSE redis_string_response(in, ctx)
redis_himport_response(in, ctx) ==
  IF ctx.mode = "long" THEN redis_long_response(in, ctx) ELSE redis_boolean_response(in, ctx)
redis_pubsub_response(in, ctx) ==
  CASE ctx.mode = "long"       -> redis_long_response(in, ctx)
    [] ctx.mode = "variant"    -> redis_read_variant_reply(in, ctx)
    [] ctx.mode = "zipped_int" -> redis_mbulk_reply_zipped_keys_int(in, ctx)
redis_client_response(in, ctx) ==
  CASE ctx.mode = "client_info"         -> redis_client_info_reply(in, ctx)
    [] ctx.mode = "client_list"         -> redis_client_list_reply(in, ctx)
    [] ctx.mode = "client_trackinginfo" -> redis_client_trackinginfo_reply(in, ctx)
    [] ctx.mode = "bool"                -> redis_boolean_response(in, ctx)
    [] ctx.mode = "long"                -> redis_long_response(in, ctx)
    [] ctx.mode = "string"              -> redis_string_response(in, ctx)
redis_function_response(in, ctx) ==
  CASE ctx.mode = "bool"     -> redis_boolean_response(in, ctx)
    [] ctx.mode = "string"   -> redis_string_response(in, ctx)
    [] ctx.mode = "function" -> redis_function_reply(in, ctx)
redis_command_response(in, ctx) ==
  CASE ctx.mode = "command_info"    -> redis_command_info_reply(in, ctx)
    [] ctx.mode = "long"            -> redis_long_response(in, ctx)
    [] ctx.mode = "multibulk_raw"   -> redis_mbulk_reply_raw(in, ctx)
    [] ctx.mode = "variant_strings" -> redis_read_variant_reply_strings(in, ctx)
redis_acl_response(in, ctx) ==
  CASE ctx.mode = "variant"     -> redis_read_variant_reply(in, ctx)
    [] ctx.mode = "bool"        -> redis_boolean_response(in, ctx)
    [] ctx.mode = "string"      -> redis_string_response(in, ctx)
    [] ctx.mode = "long"        -> redis_long_response(in, ctx)
    [] ctx.mode = "acl_getuser" -> redis_acl_getuser_reply(in, ctx)
    [] ctx.mode = "acl_log"     -> redis_acl_log_reply(in, ctx)

\* SCAN, SSCAN, HSCAN, ZSCAN: where to go on, and what there was on the way.
redis_sock_read_scan_reply(in, type) ==
  LET h  == redis_read_reply_type(in)
      it == redis_read_reply_type(h.in)
      b  == redis_sock_read_bulk_reply(it.in, it.line.n)
  IN CASE h.line.t # "*" \/ h.line.n # 2 ->
            Refuses(IF h.line.t = "-" THEN redis_sock_gets(in).in ELSE h.in)
       [] h.line.t = "*" /\ h.line.n = 2 /\ (it.line.t # "$" \/ b.got = Nothing) -> Refuses(it.in)
       [] OTHER -> CASE type = "SCAN"  -> redis_mbulk_reply_raw(b.in, <<>>)
                     [] type = "SSCAN" -> redis_sock_read_multibulk_reply(b.in, <<>>)
                     [] type = "ZSCAN" -> redis_mbulk_reply_zipped_keys_dbl(b.in, <<>>)
                     [] type = "HSCAN" -> redis_mbulk_reply_zipped_vals(b.in, <<>>)
=============================================================================
