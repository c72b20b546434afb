------------------------------ MODULE RedisCmd ------------------------------
(***************************************************************************)
(* A command on its way to the server (redis_cmd.c).  A builder names the   *)
(* pieces of a command in order; Assemble appends them one by one, the way  *)
(* redis_cmd_cat_* does: keys are prefixed and, on a cluster, must hash to   *)
(* the slot of the command, and what is neither key nor value goes as it is. *)
(*                                                                         *)
(* A piece is named for what it is to the server: an option is its keyword,  *)
(* an argument is its name in lower case, with a number where the number      *)
(* matters (which key, how many follow) and packed if it went through the    *)
(* serializer.                                                              *)
(***************************************************************************)
EXTENDS Naturals, Sequences, SequencesExt

CONSTANTS
  SlotOf,      \* the slot of each key, with the prefix in front of it
  BareSlotOf   \* its slot without the prefix

NoSlot  == 0
AnySlot == 1   \* the slot redis_cmd_randslot happens to draw

ASSUME SlotAssumption ==
  /\ DOMAIN BareSlotOf = DOMAIN SlotOf
  /\ \A k \in DOMAIN SlotOf : {SlotOf[k], BareSlotOf[k]} \subseteq Nat \ {NoSlot}

Piece(is, n, packed, checked) == [is |-> is, n |-> n, packed |-> packed, checked |-> checked]
Word(s)    == Piece(s, 0, FALSE, FALSE)         \* redis_cmd_cat_literal
Arg(s)     == Piece(s, 0, FALSE, FALSE)         \* redis_cmd_cat_zstr, _long, _double
Packed(s)  == Piece(s, 0, TRUE, FALSE)          \* redis_cmd_cat_zval
Count(k)   == Piece("num", k, FALSE, FALSE)     \* a number of things that follow
TryKey(k)  == Piece("key", k, FALSE, TRUE)      \* redis_cmd_try_cat_key
Key(k)     == Piece("key", k, FALSE, FALSE)     \* redis_cmd_cat_key_*, the answer not looked at
Channel(k) == Piece("channel", k, FALSE, FALSE) \* redis_cmd_cat_channel_zstr
RandSlot   == Piece("setslot", AnySlot, FALSE, FALSE)    \* redis_cmd_randslot
SlotFor(k) == Piece("setslot", SlotOf[k], FALSE, FALSE)  \* the slot of a key not sent here
InSlot(s)  == Piece("inslot", s, FALSE, FALSE)  \* refused unless the slot is s by now
NotOnCluster == Piece("nocluster", 0, FALSE, FALSE)  \* refused on a cluster

If(c, pieces)      == IF c THEN pieces ELSE <<>>
Times(n, pieces)   == FlattenSeq([i \in 1..n |-> pieces])
\* Variant: a key of another slot is left out, and nobody asks.
KeysUnasked(ks)    == [i \in 1..Len(ks) |-> Key(ks[i])]

Keys(ks)           == [i \in 1..Len(ks) |-> TryKey(ks[i])]
\* Variant: the number counts itself.
CountedWithNumber(ks) == <<Count(Len(ks) + 1)>> \o Keys(ks)

Counted(ks)        == <<Count(Len(ks))>> \o Keys(ks)

(* What the caller asks for: the keys, the subcommand, the options named, how *)
(* many members or values, and whether the later of two exclusive options wins. *)
Request(ks, op, o, n, late) == [ks |-> ks, op |-> op, o |-> o, n |-> n, late |-> late]

Flag(r, word)   == If(word \in r.o, <<Word(word)>>)
Option(r, word) == If(word \in r.o, <<Word(word), Arg("arg")>>)
Flags(r, words) == FlattenSeq([i \in 1..Len(words) |-> Flag(r, words[i])])
Options(r, words) == FlattenSeq([i \in 1..Len(words) |-> Option(r, words[i])])

\* Of some exclusive options the one named last wins.
LastNamed(r, words) ==
  SelectSeq(IF r.late THEN Reverse(words) ELSE words, LAMBDA w : w \in r.o)
OneFlag(r, words) ==
  If(LastNamed(r, words) # <<>>, <<Word(Head(LastNamed(r, words)))>>)
OneOption(r, words) ==
  If(LastNamed(r, words) # <<>>, <<Word(Head(LastNamed(r, words))), Arg("arg")>>)

\* What a builder gives: the keyword, the pieces after it, and the mode of the context.
Cmd(kw, pieces)   == [kw |-> kw, pieces |-> pieces, ctx |-> "default"]
WithCtx(cmd, mode) == [cmd EXCEPT !.ctx = mode]
NoCmd             == Cmd("", <<>>)
CmdIf(valid, cmd) == IF valid THEN cmd ELSE NoCmd

-----------------------------------------------------------------------------
(* RedisCmd. *)

Empty(cluster) == [cluster |-> cluster, slot |-> NoSlot, args |-> <<>>, refused |-> FALSE]

Appended(c, p) == [c EXCEPT !.args = Append(@, p)]

\* update_slot: the first key decides, the others must agree.
CanTake(c, k)      == ~c.cluster \/ c.slot \in {NoSlot, SlotOf[k]}
AtSlot(c, s)       == IF c.cluster THEN [c EXCEPT !.slot = s] ELSE c

\* A key of another slot is not appended; only a caller that asks is told.
CatKey(c, p) ==
  IF CanTake(c, p.n) THEN AtSlot(Appended(c, p), SlotOf[p.n])
                     ELSE [c EXCEPT !.refused = @ \/ p.checked]

Cat(c, p) ==
  CASE p.is = "key"     -> CatKey(c, p)
    [] p.is = "channel" -> AtSlot(Appended(c, p), SlotOf[p.n])
    [] p.is = "setslot" -> AtSlot(c, p.n)
    [] p.is = "inslot"  -> [c EXCEPT !.refused = @ \/ c.slot # p.n]
    [] p.is = "nocluster" -> [c EXCEPT !.refused = @ \/ c.cluster]
    [] OTHER            -> Appended(c, p)

\* What redis_cmd_str hands to the socket.
Assemble(cluster, cmd) ==
  IF cmd = NoCmd THEN [Empty(cluster) EXCEPT !.refused = TRUE]
  ELSE FoldLeft(Cat, Empty(cluster), cmd.pieces)
=============================================================================
