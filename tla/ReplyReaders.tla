---------------------------- MODULE ReplyReaders ----------------------------
(***************************************************************************)
(* Readers of the elements of particular replies (library.c), which Redis    *)
(* and RedisCluster share, and what a handler gives its caller.              *)
(***************************************************************************)
EXTENDS Replies

\* One value, or an array of them; and an element in a pipeline or an EXEC, or none.
Answer(in, array, els, adds) == [in |-> in, array |-> array, els |-> els, adds |-> adds]
Gives(in, el)     == Answer(in, FALSE, <<el>>, TRUE)
GivesAll(in, els) == Answer(in, TRUE, els, TRUE)
GivesBool(in, b)  == Gives(in, IF b THEN El("", "true") ELSE False)
\* Variant: nothing is added to the results.
RefusesSilently(in) == Answer(in, FALSE, <<False>>, FALSE)

Refuses(in)       == Gives(in, False)     \* REDIS_RESPONSE_ERROR

GivesRead(l)      == IF l.ok THEN GivesAll(l.in, l.els) ELSE Refuses(l.in)
StringOf(r, As(_)) == IF r.got = Nothing THEN Refuses(r.in) ELSE Gives(r.in, As(r.got))
NilOrFalse        == IF NullMbulkAsNull THEN Null ELSE False

Numeric(el)       == IF el.v = "num" THEN [el EXCEPT !.as = "double"] ELSE el

-----------------------------------------------------------------------------
(* Positions, pops and places. *)

\* The line of the reply is read; with COUNT a line follows for each position.
redis_read_lpos_response(line, in, mode) ==
  LET Position(s, l) == [s EXCEPT !.in = l.in, !.els = Append(@, El(l.line.v, "long"))]
      Step(s, i) == Position(s, redis_sock_gets(s.in))
  IN CASE mode = "count" /\ line.t = "*" -> GivesRead(Repeat(line.n, in, Step))
       [] mode # "count" /\ line.t \in {":", "$"} ->
            Gives(in, IF line.n > -1 THEN El(line.v, "long") ELSE NilOrFalse)
       [] OTHER -> Refuses(in)

\* A pair of a member and its score, in an array of its own.
ScoredPair(in) == Elements(TwoParts(Header(Start(in))), "keys")

\* The key popped from, and what was popped.
Popped(s, mode) ==
  IF s.ok /\ mode = "withscores" THEN Joined(s, Zipped(InTurn(s.n, s.in, ScoredPair), "double"))
                                 ELSE Elements(s, "all")
NotNil(s) == Expect(s, s.n >= 0)
redis_read_mpop_response(in, n, mode) ==
  CASE n < 0 -> Gives(in, NilOrFalse)
    [] n = 2 -> GivesRead(Popped(NotNil(Header(Text(Start(in)))), mode))
    [] OTHER -> Refuses(in)

\* The name of a place and, made numbers, what was asked about it.
MetaAsNumbers(l) ==
  [l EXCEPT !.els = [i \in DOMAIN @ |->
     IF i > 1 /\ @[i].as = "raw" THEN [@[i] EXCEPT !.as = "double"] ELSE @[i]]]
PlaceOf(h) ==
  IF h.line.t # "*" \/ h.line.n < 1 THEN Fails(Start(h.in))
  ELSE MetaAsNumbers(redis_read_multibulk_recursive(h.in, h.line.n, FALSE))
Place(in) == PlaceOf(redis_read_reply_type(in))

redis_read_geosearch_response(in, n, meta) ==
  LET PlacesOr(l, in2) == IF l.ok THEN GivesAll(l.in, l.els) ELSE Refuses(in2)
  IN CASE n < 0 /\ NullMbulkAsNull -> Gives(in, Null)
       [] meta -> PlacesOr(InTurn(n, in, Place), redis_read_multibulk_recursive(in, n, FALSE).in)
       [] OTHER -> GivesRead(redis_mbulk_reply_loop(in, n, "none"))

-----------------------------------------------------------------------------
(* What the server says of its streams, its vectors and its users. *)

(* Pairs of a name and a value that may be an array of pairs: a level for each *)
(* array that is open, with what is left of it and whether a name waits.       *)
XinfoValue(s, line, in) ==
  LET top  == Head(s.open)
      flip == [left |-> top.left - 1, named |-> ~top.named]
      open == <<flip>> \o Tail(s.open)
      b    == redis_sock_read_bulk_reply(in, line.n)
      to   == IF top.named THEN "raw" ELSE "name"
  IN CASE line.t = "$" /\ line.n = -1 ->
            [s EXCEPT !.in = in, !.ok = top.named, !.open = open, !.els = Append(@, Null)]
       [] line.t = "$" /\ line.n # -1 ->
            [s EXCEPT !.in = b.in, !.open = open, !.els = Append(@, [b.got EXCEPT !.as = to])]
       [] line.t = ":" ->
            [s EXCEPT !.in = in, !.open = open,
                      !.els = Append(@, El(line.v, IF top.named THEN "long" ELSE "name"))]
       [] line.t = "*" ->
            [s EXCEPT !.in = in,
                      !.open = << [left |-> line.n, named |-> FALSE] >>
                               \o << [left |-> top.left - 1, named |-> FALSE] >> \o Tail(@)]
       [] OTHER -> [s EXCEPT !.in = in, !.ok = FALSE]

XinfoNext(s, h) ==
  CASE ~s.ok \/ s.open = <<>> -> s
    [] s.ok /\ s.open # <<>> /\ Head(s.open).left < 1 -> [s EXCEPT !.open = Tail(@)]
    [] OTHER -> XinfoValue(s, h.line, h.in)
redis_read_xinfo_response(in, n) ==
  LET Step(s, i) == XinfoNext(s, redis_read_reply_type(s.in))
  IN FoldLeft(Step, [in |-> in, els |-> <<>>, ok |-> TRUE, open |-> << [left |-> n, named |-> FALSE] >>],
              [i \in 1..(2 * Len(in) + 2) |-> i])

\* Names are status lines, values status lines or integers.
VinfoValue(k, v) ==
  [Start(v.in) EXCEPT
     !.els = <<El(k.line.v, "name"), El(v.line.v, IF v.line.t = ":" THEN "long" ELSE "raw")>>]
VinfoAfter(k) ==
  IF FirstOf(k.in).t \in {"+", ":"} THEN VinfoValue(k, redis_sock_gets(k.in)) ELSE Fails(Start(Rest(k.in)))
VinfoPair(in) ==
  IF FirstOf(in).t = "+" THEN VinfoAfter(redis_sock_gets(in)) ELSE Fails(Start(Rest(in)))
redis_read_vinfo_response(in, n) == InTurn(n \div 2, in, VinfoPair)

\* A coordinate, or with RAW the quantization as a status line.
NumericRead(r) == [r EXCEPT !.got = Numeric(@)]
VembCoordinate(h) ==
  IF h.line.t = "$" THEN Named(Start(h.in), NumericRead(redis_sock_read_bulk_reply(h.in, h.line.n)))
                    ELSE Fails(Start(h.in))
VembElement(in) ==
  IF FirstOf(in).t = "+" THEN Text(Start(in)) ELSE VembCoordinate(redis_read_reply_type(in))
redis_read_vemb_response(in, n) == InTurn(n, in, VembElement)

\* The links of a vector at one layer of the graph.
redis_read_vlinks_response(in, n, mode) ==
  LET Layer(at) == Elements(Header(Start(at)), "keys")
      ScoredLayer(at) == Zipped(Layer(at), "double")
  IN IF mode = "withscores" THEN InTurn(n, in, ScoredLayer) ELSE InTurn(n, in, Layer)

\* Values as numbers where they look like numbers.
RawValue(s, h) ==
  CASE ~s.ok \/ h.line = NoTok -> Fails(s)
    [] s.ok /\ h.line.t = "$" -> Named(s, NumericRead(redis_sock_read_bulk_reply(h.in, h.line.n)))
    [] OTHER -> [s EXCEPT !.in = h.in,
                          !.els = Append(@, IF h.line.t = ":" THEN El(h.line.v, "long") ELSE Null)]
WithRawValue(s) == RawValue(s, redis_read_reply_type(s.in))
RawPair(in)     == WithRawValue(Text(Start(in)))
redis_mbulk_reply_zipped_raw_variant(in, n) == InTurn((n + 1) \div 2, in, RawPair)

redis_read_acl_log_reply(in, n) ==
  LET Pairs(s)  == IF s.ok THEN redis_mbulk_reply_zipped_raw_variant(s.in, s.n) ELSE s
      Entry(at) == Pairs(Evenly(Header(Start(at))))
  IN InTurn(n, in, Entry)

\* A name, and the value after it: a string or an array of them.
UserValue(s, h) ==
  CASE ~s.ok -> s
    [] s.ok /\ h.line.t = "*" -> Joined(s, redis_mbulk_reply_loop(h.in, h.line.n, "none"))
    [] s.ok /\ h.line.t = "$" -> Named(s, redis_sock_read_bulk_reply(h.in, h.line.n))
    [] OTHER -> Fails([s EXCEPT !.in = h.in])
redis_read_acl_getuser_reply(in, n) ==
  LET Valued(s) == UserValue(s, redis_read_reply_type(s.in))
      Pair(at)  == Valued(Text(Start(at)))
  IN InTurn((n + 1) \div 2, in, Pair)
=============================================================================
