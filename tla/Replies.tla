------------------------------- MODULE Replies -------------------------------
(***************************************************************************)
(* How the bytes of a reply are read (library.c): the readers every handler *)
(* of a reply is made of.                                                   *)
(*                                                                         *)
(* The wire is a sequence of tokens: the type byte of a status or an error   *)
(* and the line after it, which readers consume apart; the line that starts  *)
(* an integer, a bulk string (its length, -1 for nil) or an array (the number *)
(* of its elements, -1 for nil); and the body of a bulk string.              *)
(*                                                                         *)
(* What a reader gives is the wire without what it consumed and the elements  *)
(* it read in order, nested arrays flattened: what each was ("packed" if it   *)
(* went through the serializer on its way to the server) and as what the      *)
(* caller gets it.                                                          *)
(***************************************************************************)
EXTENDS Integers, Sequences, SequencesExt

CONSTANT NullMbulkAsNull    \* the option OPT_NULL_MULTIBULK_AS_NULL

Tok(t, n, v) == [t |-> t, n |-> n, v |-> v]
NoTok        == Tok("eof", 0, "")

El(v, as) == [v |-> v, as |-> as]
False     == El("", "false")
Null      == El("", "null")
Nothing   == El("", "NULL")    \* the null pointer of the C readers

FirstOf(in) == IF in = <<>> THEN NoTok ELSE Head(in)
Rest(in)    == IF in = <<>> THEN <<>> ELSE Tail(in)

\* One line, with its type byte if that is still there.
redis_sock_gets(in) ==
  IF FirstOf(in).t \in {"+", "-"}
  THEN [line |-> [Head(in) EXCEPT !.v = FirstOf(Rest(in)).v], in |-> Rest(Rest(in))]
  ELSE [line |-> FirstOf(in), in |-> Rest(in)]

\* The type byte, and the number after it if the type has one.
redis_read_reply_type(in) == [line |-> FirstOf(in), in |-> Rest(in)]

redis_sock_read_bulk_reply(in, n) ==
  IF n = -1 THEN [got |-> Nothing, in |-> in]
            ELSE [got |-> El(FirstOf(in).v, "raw"), in |-> Rest(in)]

\* Any reply as a string: errors and nils are the null pointer, an array its first line.
AsString(l) ==
  CASE l.line.t = "$" -> redis_sock_read_bulk_reply(l.in, l.line.n)
    [] l.line.t \in {"+", ":"} \/ (l.line.t = "*" /\ l.line.n # -1) ->
         [got |-> El(l.line.v, "raw"), in |-> l.in]
    [] OTHER -> [got |-> Nothing, in |-> l.in]
redis_sock_read(in) == AsString(redis_sock_gets(in))

\* Anything but an array is refused, and its first line gone.
AsHeader(l) == [ok |-> l.line.t = "*", n |-> l.line.n, in |-> l.in]
read_mbulk_header(in) == AsHeader(redis_sock_gets(in))

-----------------------------------------------------------------------------
(* Loops over the elements of an array. *)

redis_unpack(el) == IF el.as = "raw" THEN [el EXCEPT !.as = "unpacked"] ELSE el

\* Which elements of an array are unpacked; keys come first in a pair.
Unwraps(unserialize, i) ==
  \/ unserialize = "all"
  \/ unserialize = "keys" /\ i % 2 = 1
  \/ unserialize = "vals" /\ i % 2 = 0

\* A reading on its way: what it has read, whether all went well, and the length of the array it is in.
Start(in) == [in |-> in, els |-> <<>>, ok |-> TRUE, n |-> 0]
Fails(s)  == [s EXCEPT !.ok = FALSE]
Joined(s, l) == [l EXCEPT !.els = s.els \o @]
Repeat(n, in, Step(_, _)) == FoldLeft(Step, Start(in), [i \in 1..n |-> i])

Keeps(s, r, unpack) ==
  [s EXCEPT !.in = r.in,
            !.els = Append(@, IF r.got = Nothing THEN False
                              ELSE IF unpack THEN redis_unpack(r.got) ELSE r.got)]
redis_mbulk_reply_loop(in, n, unserialize) ==
  LET Step(s, i) == Keeps(s, redis_sock_read(s.in), Unwraps(unserialize, i))
  IN Repeat(n, in, Step)

\* One after the other until one fails.
InTurn(n, in, One(_)) ==
  LET Step(s, i) == IF s.ok THEN Joined(s, One(s.in)) ELSE s
  IN Repeat(n, in, Step)

(* Steps of a reading; once it failed none reads on. *)
Entered(s, h)  == [s EXCEPT !.in = h.in, !.n = h.n, !.ok = h.ok]
Header(s)      == IF s.ok THEN Entered(s, read_mbulk_header(s.in)) ELSE s
Expect(s, ok)  == [s EXCEPT !.ok = @ /\ ok]
Named(s, r)    == [s EXCEPT !.in = r.in, !.els = Append(@, r.got), !.ok = r.got # Nothing]
Text(s)        == IF s.ok THEN Named(s, redis_sock_read(s.in)) ELSE s
Elements(s, unserialize) ==
  IF s.ok THEN Joined(s, redis_mbulk_reply_loop(s.in, s.n, unserialize)) ELSE s

\* [key, value, ...] becomes key => value.
array_zip_values_and_scores(els, decode) ==
  [i \in 1..(2 * (Len(els) \div 2)) |->
     IF i % 2 = 0 /\ decode # "none" THEN [els[i] EXCEPT !.as = decode] ELSE els[i]]
Zipped(l, decode) == [l EXCEPT !.els = array_zip_values_and_scores(@, decode)]

\* What a variant is to the caller.
Variant(line, in, strings) ==
  CASE line.t = "+" -> IF strings THEN El(redis_sock_gets(in).line.v, "raw") ELSE El("", "true")
    [] line.t = ":" -> El(line.v, "long")
    [] line.t = "$" /\ line.n # -1 -> redis_sock_read_bulk_reply(in, line.n).got
    [] line.t = "*" /\ line.n = -1 /\ NullMbulkAsNull -> Null
    [] OTHER -> False
\* Variant: the line of a status is left.
AfterVariantButLine(line, in) ==
  IF line.t = "$" THEN redis_sock_read_bulk_reply(in, line.n).in ELSE in

AfterVariant(line, in) ==
  CASE line.t \in {"+", "-"} -> redis_sock_gets(in).in
    [] line.t = "$" -> redis_sock_read_bulk_reply(in, line.n).in
    [] OTHER -> in

(* Arrays in arrays: what is left to read grows by the elements of an array *)
(* found among them.                                                        *)
NestedElement(s, h, value) ==
  LET array == h.line.t = "*" /\ h.line.n # -1
  IN [s EXCEPT !.in = AfterVariant(h.line, h.in),
               !.els = IF array THEN @ ELSE Append(@, value),
               !.n = @ - 1 + IF array THEN h.line.n ELSE 0]
ReadNested(in, n, Value(_, _)) ==
  LET Step(s, i) ==
        IF s.n = 0 THEN s
        ELSE NestedElement(s, redis_read_reply_type(s.in), Value(FirstOf(s.in), Rest(s.in)))
  IN FoldLeft(Step, [Start(in) EXCEPT !.n = IF n < 0 THEN 0 ELSE n], [i \in 1..Len(in) |-> i])

redis_read_multibulk_recursive(in, n, strings) ==
  ReadNested(in, n, LAMBDA line, rest : Variant(line, rest, strings))

-----------------------------------------------------------------------------
(* Messages of streams. *)

\* Id and fields of one message; a message without fields is null.
FieldsOf(s) ==
  IF s.ok /\ s.n < 0 THEN [s EXCEPT !.els = Append(@, Null)]
  ELSE Elements(Expect(s, s.n % 2 = 0), "vals")
TwoParts(s)       == Expect(s, s.n = 2)
StreamMessage(in) == FieldsOf(Header(Text(TwoParts(Header(Start(in))))))

redis_read_stream_messages(in, n) == InTurn(n, in, StreamMessage)

MessagesOf(s) == IF s.ok THEN Joined(s, redis_read_stream_messages(s.in, s.n)) ELSE s
StreamOf(in)  == MessagesOf(Header(Text(TwoParts(Header(Start(in))))))

redis_read_stream_messages_multi(in, n) == InTurn(n, in, StreamOf)

(* XCLAIM: an id alone, or an id and its fields; a nil ends the reading. *)
Evenly(s) == Expect(s, s.n % 2 = 0)
Claimed(h) ==
  CASE h.line.t = "$" /\ h.line.n > 0 -> Named(Start(h.in), redis_sock_read_bulk_reply(h.in, h.line.n))
    [] h.line.t = "*" /\ h.line.n = 2 -> Elements(Evenly(Header(Text(Start(h.in)))), "vals")
    [] OTHER -> Fails(Start(h.in))
ClaimedId(in) == Claimed(redis_read_reply_type(in))

redis_read_xclaim_ids(in, n) == InTurn(n, in, ClaimedId)

\* XAUTOCLAIM: the next id, the messages and, of late servers, the deleted ids.
Cursor(h) ==
  IF h.line.t # "$" THEN Fails(Start(h.in))
  ELSE Named(Start(h.in), redis_sock_read_bulk_reply(h.in, h.line.n))
Claims(s) == IF s.ok THEN Joined(s, redis_read_xclaim_ids(s.in, s.n)) ELSE s
redis_read_xclaim_reply(in, count, auto) ==
  LET claims == Claims(Header(Cursor(redis_read_reply_type(in))))
  IN CASE ~auto -> redis_read_xclaim_ids(in, count)
       [] auto /\ count = 2 -> claims
       [] auto /\ count = 3 -> Elements(Header(claims), "all")
       [] OTHER -> Fails(Start(in))
=============================================================================
