------------------------ MODULE RedisArrayShowProofs ------------------------
(***************************************************************************)
(* That nothing shows of a migration: the applications see of the keys of  *)
(* an array what their own commands have made of them (OnlyWritesShow).    *)
(*                                                                         *)
(* HoldInv: while nothing is torn, each key is at its hosts of the two     *)
(* rings only, and the processes that move it carry the same value, with   *)
(* the commands that write it queued at its target.  ShowInv: a value in   *)
(* their hands is still seen.                                              *)
(***************************************************************************)
EXTENDS RedisArrayProofs

-----------------------------------------------------------------------------
(* Whose elements the values are. *)

\* A value of a key has elements, all of them of that key.
Own(k, v) == v = Nil \/ (v.items # <<>> /\ v.items \in Seq({k} \X Nat))

\* A command gives each key it writes elements of that key.
Sound(cmd) ==
  /\ cmd.name = "SET" => \A k \in ToSet(cmd.keys) : Only(cmd.val.items, {k} \X Nat) # <<>>
  /\ cmd.name = "ADD" => /\ cmd.keys # <<>> /\ cmd.val.items # <<>>
                         /\ cmd.val.items \in Seq({cmd.keys[1]} \X Nat)
  /\ cmd.name = "EXPIRE" => cmd.keys # <<>>

\* A sequence of elements of a set loses none of them.
LEMMA OnlyAll ==
  ASSUME NEW S, NEW T, NEW s \in Seq(S), \A i \in 1..Len(s) : s[i] \in T
  PROVE  Only(s, T) = s
<1>1. PICK m : Taken(m, s, S, T, Len(s)) /\ Only(s, T) = m[Len(s)]
  BY OnlyTakes
<1> DEFINE P == {k \in Nat : k <= Len(s) => Len(m[k]) = k /\ \A i \in 1..k : m[k][i] = s[i]}
<1>2. 0 \in P
  BY <1>1 DEF Taken
<1>3. ASSUME NEW k \in Nat, k \in P PROVE k + 1 \in P
  <2>1. CASE k + 1 <= Len(s)
    <3>1. /\ k + 1 \in 1..Len(s) /\ (k + 1) - 1 = k /\ Len(m[k]) = k /\ \A i \in 1..k : m[k][i] = s[i]
      BY <1>3, <2>1
    <3>2. m[k] \in Seq(S) /\ s[k + 1] \in S
      BY <1>1, <3>1 DEF Taken
    <3>3. m[k + 1] = Append(m[k], s[k + 1])
      BY <1>1, <3>1 DEF Taken
    <3>4. Len(m[k + 1]) = k + 1 /\ m[k + 1][k + 1] = s[k + 1]
      BY <3>1, <3>2, <3>3
    <3>5. \A i \in 1..k : m[k + 1][i] = s[i]
      BY <3>1, <3>2, <3>3
    <3>. QED BY <3>4, <3>5
  <2>2. CASE ~(k + 1 <= Len(s))
    BY <2>2
  <2>. QED BY <2>1, <2>2
<1> HIDE DEF P
<1>4. Nat \subseteq P
  BY <1>2, <1>3, Climb
<1>5. Len(s) \in Nat /\ Len(m[Len(s)]) = Len(s) /\ \A i \in 1..Len(s) : m[Len(s)][i] = s[i]
  BY <1>4 DEF P
<1>6. m[Len(s)] \in Seq(S)
  BY <1>1, <1>5 DEF Taken
<1>. QED BY <1>1, <1>5, <1>6, SeqEqual

\* What is taken of a sequence is of the set.
LEMMA OnlyOf ==
  ASSUME NEW S, NEW T, NEW s \in Seq(S)
  PROVE  Only(s, T) \in Seq(T)
<1> DEFINE r == Only(s, T)
<1>1. r \in Seq(S) /\ ToSet(r) \subseteq T
  BY OnlyElements
<1> HIDE DEF r
<1>2. \A i \in 1..Len(r) : r[i] \in T
  BY <1>1 DEF ToSet
<1>. QED BY <1>1, <1>2 DEF r

\* Elements of a key are elements of keys.
LEMMA KeyElements ==
  ASSUME NEW k \in Keys
  PROVE  Seq({k} \X Nat) \subseteq Seq(Keys \X Nat)
<1>1. {k} \X Nat \subseteq Keys \X Nat
  OBVIOUS
<1>. QED BY <1>1

\* Adding elements of a key to its value.
LEMMA AddedOwn ==
  ASSUME NEW k \in Keys, NEW old \in Value, Own(k, old), NEW val \in Value,
         val.items # <<>>, val.items \in Seq({k} \X Nat)
  PROVE  /\ Added(k, old, val) \in Value /\ Added(k, old, val) # Nil /\ Own(k, Added(k, old, val))
         /\ Added(k, old, val).ttl = old.ttl
         /\ old = Nil => Added(k, old, val) = [items |-> val.items, ttl |-> -1]
         /\ old.items = val.items /\ TypeOf[k] # "list" => Added(k, old, val) = old
<1> DEFINE E == {k} \X Nat  S == Seq(E)  V == ToSet(val.items)
           more == IF TypeOf[k] # "list" THEN Only(val.items, V \ ToSet(old.items)) ELSE val.items
<1>1. /\ old.items \in Seq(Keys \X Nat) /\ Nil.items = <<>> /\ Nil.ttl = -1
      /\ Nil = [items |-> Nil.items, ttl |-> Nil.ttl] /\ old = [items |-> old.items, ttl |-> old.ttl]
  BY ValueFields DEF Nil, Value
<1>2. old.items \in S /\ (old.items = <<>> => old = Nil)
  <2>1. <<>> \in S
    OBVIOUS
  <2>. QED BY <1>1, <2>1 DEF Own
<1>3. more \in S
  BY OnlyElements
<1>4. Added(k, old, val) = [old EXCEPT !.items = old.items \o more]
  BY DEF Added
<1>5. old = Nil => more = val.items
  <2> SUFFICES ASSUME old = Nil, TypeOf[k] # "list" PROVE Only(val.items, V \ ToSet(old.items)) = val.items
    OBVIOUS
  <2>1. old.items = <<>> /\ ToSet(<<>>) = {}
    BY <1>1 DEF ToSet
  <2>2. V \ ToSet(old.items) = V
    BY <2>1
  <2>3. \A i \in 1..Len(val.items) : val.items[i] \in V
    BY DEF ToSet
  <2> HIDE DEF V, S
  <2>. QED BY <2>2, <2>3, OnlyAll
<1>6. old.items = val.items /\ TypeOf[k] # "list" => more = <<>>
  <2> SUFFICES ASSUME old.items = val.items, TypeOf[k] # "list" PROVE Only(val.items, V \ ToSet(old.items)) = <<>>
    OBVIOUS
  <2>1. V \ ToSet(old.items) = {}
    OBVIOUS
  <2>2. \A i \in 1..Len(val.items) : val.items[i] \notin V \ ToSet(old.items)
    BY <2>1
  <2>. QED BY <2>2, OnlyElements
<1> HIDE DEF more
<1>7. old.items \o more \in S /\ (old.items \o more = <<>> => old.items = <<>> /\ more = <<>>)
  <2> HIDE DEF E
  <2>. QED BY <1>2, <1>3
<1>8. old.items \o more # <<>>
  BY <1>2, <1>5, <1>7
<1> DEFINE a == Added(k, old, val)
<1>9. a.items = old.items \o more /\ a.ttl = old.ttl
  <2> DEFINE x == old.items \o more
  <2> HIDE DEF x
  <2>1. a = [old EXCEPT !.items = x]
    BY <1>4 DEF x
  <2>2. a.items = x /\ a.ttl = old.ttl
    BY <1>1, <2>1
  <2>. QED BY <2>2 DEF x
<1>10. a \in Value
  BY AddedType
<1>11. Own(k, a) /\ a # Nil
  BY <1>1, <1>7, <1>8, <1>9 DEF Own
<1>12. a = [items |-> a.items, ttl |-> a.ttl]
  BY <1>10 DEF Value
<1> HIDE DEF a
<1>13. old = Nil => a = [items |-> val.items, ttl |-> -1]
  <2> SUFFICES ASSUME old = Nil PROVE a = [items |-> val.items, ttl |-> -1]
    OBVIOUS
  <2>1. <<>> \o more = more
    BY <1>3
  <2>. QED BY <1>1, <1>5, <1>9, <1>12, <2>1
<1>14. old.items = val.items /\ TypeOf[k] # "list" => a = old
  <2> SUFFICES ASSUME old.items = val.items, TypeOf[k] # "list" PROVE a = old
    OBVIOUS
  <2>1. old.items \o <<>> = old.items
    BY <1>1
  <2>. QED BY <1>1, <1>6, <1>9, <1>12, <2>1
<1>. QED BY <1>9, <1>10, <1>11, <1>13, <1>14 DEF a

\* SET gives a key its own elements.
Given(cmd, k) == [cmd.val EXCEPT !.items = Only(cmd.val.items, {k} \X Nat)]

\* A value with another expiry.
WithTtl(v, t) == [v EXCEPT !.ttl = t]

\* What becomes of a key with a sound command.
Becomes(cmd, k, old, new) ==
  /\ new \in Value /\ Own(k, new)
  /\ IF cmd.name = "SET" /\ k \in ToSet(cmd.keys) THEN new = Given(cmd, k) /\ new # Nil
     ELSE IF cmd.name = "ADD" /\ k = cmd.keys[1] THEN new = Added(k, old, cmd.val) /\ new # Nil
     ELSE IF cmd.name = "EXPIRE" /\ k = cmd.keys[1]
          THEN new = IF old = Nil THEN Nil ELSE WithTtl(old, cmd.val.ttl)
     ELSE IF cmd.name = "DEL" /\ k \in ToSet(cmd.keys) THEN new = Nil
     ELSE new = old

\* Another expiry leaves a value what it is.
LEMMA ExpiryOwn ==
  ASSUME NEW k, NEW v \in Value, Own(k, v), v # Nil, NEW t \in {-1, 0, 1}
  PROVE  LET w == WithTtl(v, t) IN w \in Value /\ Own(k, w) /\ w # Nil /\ w.ttl = t /\ w.items = v.items
<1> DEFINE w == WithTtl(v, t)
<1>1. w \in Value
  BY ValueFields DEF WithTtl
<1>2. v = [items |-> v.items, ttl |-> v.ttl]
  BY DEF Value
<1>3. w.items = v.items /\ w.ttl = t
  BY <1>2 DEF WithTtl
<1>4. v.items # <<>> /\ v.items \in Seq({k} \X Nat)
  BY DEF Own
<1>5. Nil.items = <<>>
  BY DEF Nil
<1> HIDE DEF w
<1>6. w # Nil
  BY <1>3, <1>4, <1>5
<1>7. Own(k, w)
  BY <1>3, <1>4 DEF Own
<1>. QED BY <1>1, <1>3, <1>6, <1>7 DEF w

\* Each key with each command.
LEMMA ChangedTo ==
  ASSUME NEW data \in [Keys -> Value], NEW cmd \in Command, Sound(cmd), NEW k \in Keys, Own(k, data[k])
  PROVE  Becomes(cmd, k, data[k], Changed(data, cmd)[k])
<1> DEFINE ks == cmd.keys  v == cmd.val  old == data[k]  new == Changed(data, cmd)[k]  nm == cmd.name
<1>1. /\ ks \in Seq(Keys) /\ v \in Value /\ old \in Value
      /\ nm \in {"GET", "COUNT", "MGET", "TYPE", "LIST", "SET", "ADD", "EXPIRE", "DEL", "SADD", "SREM"}
  BY CommandFields
<1>2. \A y : Contains(ks, y) <=> y \in ToSet(ks)
  BY <1>1 DEF Contains, ToSet
<1>3. v.items \in Seq(Keys \X Nat) /\ v.ttl \in {-1, 0, 1}
  BY <1>1, ValueFields
<1>4. CASE nm = "SET" /\ k \in ToSet(ks)
  <2> DEFINE T == {k} \X Nat  E == Keys \X Nat  it == Only(v.items, T)
  <2>1. new = Given(cmd, k)
    BY <1>2, <1>4 DEF Changed, Given
  <2>2. it \in Seq(E)
    <3> HIDE DEF T, E
    <3>1. v.items \in Seq(E)
      BY <1>3 DEF E
    <3>. QED BY <3>1, OnlyElements
  <2>3. it \in Seq(T)
    <3> HIDE DEF T
    <3>. QED BY <1>3, OnlyOf
  <2>4. it # <<>>
    BY <1>4 DEF Sound
  <2>5. v = [items |-> v.items, ttl |-> v.ttl]
    BY <1>1 DEF Value
  <2> HIDE DEF it, E, T
  <2>6. Given(cmd, k) = [items |-> it, ttl |-> v.ttl]
    <3>1. Given(cmd, k) = [v EXCEPT !.items = it]
      BY DEF Given, it, T
    <3>. QED BY <2>5, <3>1
  <2>7. Given(cmd, k) \in Value
    BY <1>3, <2>2, <2>6, ValueFields DEF E
  <2>8. Given(cmd, k).items = it
    BY <2>6
  <2>9. Given(cmd, k) # Nil
    <3>1. Nil.items = <<>>
      BY DEF Nil
    <3>. QED BY <2>4, <2>8, <3>1
  <2>10. Own(k, Given(cmd, k))
    BY <2>3, <2>4, <2>8 DEF Own, T
  <2>. QED BY <1>4, <2>1, <2>7, <2>9, <2>10 DEF Becomes
<1>5. CASE nm = "ADD" /\ k = ks[1]
  <2>1. new = Added(k, old, v)
    BY <1>5 DEF Changed
  <2>2. v.items # <<>> /\ v.items \in Seq({k} \X Nat)
    BY <1>5 DEF Sound
  <2> HIDE DEF v, old, new
  <2>3. Added(k, old, v) \in Value /\ Added(k, old, v) # Nil /\ Own(k, Added(k, old, v))
    BY <1>1, <2>2, AddedOwn DEF old
  <2>4. new \in Value /\ Own(k, new) /\ new = Added(k, old, cmd.val) /\ new # Nil
    BY <2>1, <2>3 DEF v
  <2>. QED BY <1>5, <2>4 DEF Becomes, old, new
<1>6. CASE nm = "EXPIRE" /\ k = ks[1]
  <2> DEFINE w == WithTtl(old, v.ttl)
  <2>1. new = IF old = Nil THEN Nil ELSE w
    BY <1>6 DEF Changed, WithTtl
  <2>2. Nil \in Value /\ Own(k, Nil)
    BY ValueFields DEF Own
  <2>3. old # Nil => w \in Value /\ Own(k, w)
    BY <1>1, <1>3, ExpiryOwn
  <2> HIDE DEF w, new, old
  <2>4. new \in Value /\ Own(k, new)
    BY <2>1, <2>2, <2>3
  <2>5. new = IF old = Nil THEN Nil ELSE WithTtl(old, cmd.val.ttl)
    BY <2>1 DEF w
  <2>. QED BY <1>6, <2>4, <2>5 DEF Becomes, old, new
<1>7. CASE nm = "DEL" /\ k \in ToSet(ks)
  <2>1. new = Nil
    BY <1>2, <1>7 DEF Changed
  <2>2. Nil \in Value /\ Own(k, Nil)
    BY ValueFields DEF Own
  <2>. QED BY <1>7, <2>1, <2>2 DEF Becomes
<1>8. CASE ~(\/ nm \in {"SET", "DEL"} /\ k \in ToSet(ks)
             \/ nm \in {"ADD", "EXPIRE"} /\ k = ks[1])
  <2>1. new = old
    <3>1. CASE nm \in {"SET", "DEL"}
      BY <1>2, <1>8, <3>1 DEF Changed
    <3>2. CASE nm = "ADD"
      BY <1>8, <3>2 DEF Changed
    <3>3. CASE nm = "EXPIRE"
      BY <1>8, <3>3 DEF Changed
    <3>4. CASE nm \notin {"SET", "ADD", "EXPIRE", "DEL"}
      BY <3>4 DEF Changed
    <3>. QED BY <3>1, <3>2, <3>3, <3>4
  <2>. QED BY <1>1, <1>8, <2>1 DEF Becomes
<1>. QED BY <1>4, <1>5, <1>6, <1>7, <1>8

\* The servers whose keys have their own elements.
Keeper == {t \in Server : \A k \in Keys : Own(k, t.data[k])}

\* A sound command keeps a server one of them.
LEMMA SoundRun ==
  ASSUME NEW t \in Keeper, NEW cmd \in Command, Sound(cmd)
  PROVE  /\ Run(t, cmd) \in Keeper
         /\ \A k \in Keys : Becomes(cmd, k, t.data[k], Run(t, cmd).data[k])
<1>1. t \in Server /\ \A k \in Keys : Own(k, t.data[k])
  BY DEF Keeper
<1>2. t.data \in [Keys -> Value]
  BY <1>1 DEF Server
<1>3. Run(t, cmd) \in Server /\ Run(t, cmd).data = Changed(t.data, cmd)
  BY <1>1, RunType
<1>4. ASSUME NEW k \in Keys PROVE Becomes(cmd, k, t.data[k], Run(t, cmd).data[k])
  BY <1>1, <1>2, <1>3, ChangedTo
<1>5. \A k \in Keys : Own(k, Run(t, cmd).data[k])
  BY <1>4 DEF Becomes
<1>. QED BY <1>3, <1>4, <1>5 DEF Keeper

\* Short sequences, joined.
LEMMA JoinedPairs ==
  ASSUME NEW x, NEW y
  PROVE  /\ <<x>> \o <<y>> = <<x, y>> /\ <<x>> \o <<>> = <<x>> /\ <<>> \o <<y>> = <<y>>
         /\ <<>> \o <<>> = <<>>
<1> DEFINE S == {x, y}
<1>1. x \in S /\ y \in S
  OBVIOUS
<1> HIDE DEF S
<1>2. <<x>> \in Seq(S) /\ <<y>> \in Seq(S) /\ <<>> \in Seq(S)
  BY <1>1
<1>3. <<x>> \o <<>> = <<x>> /\ <<>> \o <<y>> = <<y>> /\ <<>> \o <<>> = <<>>
  BY <1>2, Joined
<1>4. <<x>> \o <<y>> = Append(<<x>>, y)
  BY <1>1, <1>2, Joined
<1>5. Append(<<x>>, y) = <<x, y>>
  <2>1. /\ Append(<<x>>, y) \in Seq(S) /\ <<x, y>> \in Seq(S)
        /\ Len(Append(<<x>>, y)) = 2 /\ Len(<<x, y>>) = 2
    BY <1>1, <1>2
  <2>2. \A i \in 1..2 : Append(<<x>>, y)[i] = <<x, y>>[i]
    BY <1>1, <1>2
  <2>. QED BY <2>1, <2>2, SeqEqual
<1>. QED BY <1>3, <1>4, <1>5

\* A command stores elements of its key, if any.
OwnItems(nm, j, v) == nm = "EXPIRE" \/ (v.items # <<>> /\ v.items \in Seq({j} \X Nat))

\* The commands a move stores its key with.
LEMMA StoringRun ==
  ASSUME NEW t \in Keeper, NEW j \in Keys, NEW nm \in {"SET", "ADD", "EXPIRE"}, NEW v \in Value,
         OwnItems(nm, j, v),
         NEW x, x = Storing(nm, j, v), NEW u, u = Run(t, x)
  PROVE  /\ x \in Command /\ Sound(x) /\ u \in Keeper /\ \A k \in Keys : k # j => u.data[k] = t.data[k]
         /\ nm = "SET" => u.data[j] = v
         /\ nm = "ADD" => u.data[j] = Added(j, t.data[j], v)
         /\ nm = "EXPIRE" => u.data[j] = IF t.data[j] = Nil THEN Nil ELSE WithTtl(t.data[j], v.ttl)
<1> DEFINE ks == <<j>>  T == {j} \X Nat
<1>1. x \in Command /\ x.name = nm /\ x.keys = ks /\ x.val = v
  <2>1. nm \in Names
    BY DEF Names
  <2>. QED BY <2>1, StoringCommands DEF Storing
<1>2. ks # <<>> /\ ks[1] = j /\ ToSet(ks) = {j} /\ \A k : k \in ToSet(ks) <=> k = j
  BY Pairs
<1>3. nm = "SET" => Only(v.items, T) = v.items
  <2> SUFFICES ASSUME nm = "SET" PROVE Only(v.items, T) = v.items
    OBVIOUS
  <2> HIDE DEF T
  <2>1. v.items \in Seq(T) /\ \A i \in 1..Len(v.items) : v.items[i] \in T
    BY DEF T, OwnItems
  <2>. QED BY <2>1, OnlyAll
<1> HIDE DEF ks
<1>4. Sound(x)
  BY <1>1, <1>2, <1>3 DEF Sound, T, OwnItems
<1>5. u \in Keeper /\ \A k \in Keys : Becomes(x, k, t.data[k], u.data[k])
  BY <1>1, <1>4, SoundRun
<1>6. ASSUME NEW k \in Keys, k # j PROVE u.data[k] = t.data[k]
  BY <1>1, <1>2, <1>5, <1>6 DEF Becomes
<1>7. nm = "SET" => u.data[j] = v
  <2> SUFFICES ASSUME nm = "SET" PROVE u.data[j] = v
    OBVIOUS
  <2>1. u.data[j] = [v EXCEPT !.items = Only(v.items, T)]
    BY <1>1, <1>2, <1>5 DEF Becomes, Given
  <2>2. v = [items |-> v.items, ttl |-> v.ttl]
    BY DEF Value
  <2> HIDE DEF T
  <2>3. [v EXCEPT !.items = v.items] = v
    BY <2>2
  <2>. QED BY <1>3, <2>1, <2>3
<1>8. nm = "ADD" => u.data[j] = Added(j, t.data[j], v)
  BY <1>1, <1>2, <1>5 DEF Becomes
<1>9. nm = "EXPIRE" => u.data[j] = IF t.data[j] = Nil THEN Nil ELSE WithTtl(t.data[j], v.ttl)
  BY <1>1, <1>2, <1>5 DEF Becomes
<1>. QED BY <1>1, <1>4, <1>5, <1>6, <1>7, <1>8, <1>9

\* ra_expire_key.
LEMMA ExpiringRun ==
  ASSUME NEW t \in Keeper, NEW j \in Keys, NEW v \in Value
  PROVE  LET x == Storing("EXPIRE", j, v)  u == Run(t, x) IN
         /\ x \in Command /\ u \in Keeper /\ \A k \in Keys : k # j => u.data[k] = t.data[k]
         /\ u.data[j] = IF t.data[j] = Nil THEN Nil ELSE WithTtl(t.data[j], v.ttl)
<1> DEFINE x == Storing("EXPIRE", j, v)  u == Run(t, x)
<1>1. OwnItems("EXPIRE", j, v)
  BY DEF OwnItems
<1> HIDE DEF u, x
<1>. QED BY <1>1, StoringRun DEF x, u

\* A command that stores nothing.
LEMMA RunSame ==
  ASSUME NEW t \in Server, NEW x \in Command, x.name \notin {"SET", "ADD", "EXPIRE", "DEL"}
  PROVE  Run(t, x) \in Server /\ Run(t, x).data = t.data
<1>1. Run(t, x) \in Server /\ Run(t, x).data = Changed(t.data, x)
  BY RunType
<1>2. Changed(t.data, x) = t.data
  BY DEF Changed
<1>. QED BY <1>1, <1>2

\* What a move stores.
LEMMA StoresItem ==
  ASSUME NEW t \in Keeper, NEW f \in Locals, NEW j \in Keys, f.key = j, f.item # Nil, Own(j, f.item),
         f.ttl = f.item.ttl, f.ttl # 0, t.data[j] = Nil \/ (TypeOf[j] # "list" /\ t.data[j] = f.item)
  PROVE  LET u == RunAll(t, StoreCommands(f)) IN
         /\ u \in Keeper /\ u.data[j] = f.item /\ \A k \in Keys : k # j => u.data[k] = t.data[k]
<1> DEFINE v == f.item  d == t.data[j]
<1>1. /\ f.ttl \in {-1, 1} /\ v \in Value /\ v = [items |-> v.items, ttl |-> v.ttl]
      /\ v.items # <<>> /\ v.items \in Seq({j} \X Nat)
  BY LocalFields DEF Own, Value
<1>2. t \in Server /\ d \in Value /\ Own(j, d)
  BY DEF Keeper, Server
<1>3. CASE TypeOf[j] = "string"
  <2> DEFINE w == [v EXCEPT !.ttl = IF f.ttl > 0 THEN f.ttl ELSE -1]  x == Storing("SET", j, w)
  <2>1. w = v /\ OwnItems("SET", j, v)
    BY <1>1 DEF OwnItems
  <2>2. StoreCommands(f) = <<x>>
    BY <1>3 DEF StoreCommands
  <2>3. x = Storing("SET", j, v)
    BY <2>1
  <2> HIDE DEF x, w, v, d
  <2>4. x \in Command /\ Run(t, x) \in Keeper /\ Run(t, x).data[j] = v
        /\ \A k \in Keys : k # j => Run(t, x).data[k] = t.data[k]
    BY <1>1, <2>1, <2>3, StoringRun
  <2>5. RunAll(t, <<x>>) = Run(t, x)
    BY <1>2, <2>4, RunAllFew
  <2>. QED BY <2>2, <2>4, <2>5 DEF v
<1>4. CASE TypeOf[j] # "string"
  <2> DEFINE w == [v EXCEPT !.ttl = -1]  e == [Nil EXCEPT !.ttl = f.ttl]
             x == Storing("ADD", j, w)  y == Storing("EXPIRE", j, e)  t1 == Run(t, x)  t2 == Run(t1, y)
  <2>1. StoreCommands(f) = <<x>> \o (IF f.ttl > 0 THEN <<y>> ELSE <<>>)
    BY <1>4 DEF StoreCommands
  <2>2. w \in Value /\ w.items = v.items /\ e \in Value /\ e.ttl = f.ttl
    <3>1. w \in Value /\ e \in Value
      BY <1>1, ValueFields
    <3>2. e.ttl = f.ttl
      BY DEF Nil
    <3>. QED BY <1>1, <3>1, <3>2
  <2> HIDE DEF w, e, d, v
  <2>3. x \in Command /\ t1 \in Keeper /\ t1.data[j] = Added(j, d, w)
        /\ \A k \in Keys : k # j => t1.data[k] = t.data[k]
    <3>1. OwnItems("ADD", j, w)
      BY <1>1, <2>2 DEF OwnItems
    <3>. QED BY <1>1, <2>2, <3>1, StoringRun DEF d
  <2>4. /\ d = Nil => Added(j, d, w) = [items |-> v.items, ttl |-> -1]
        /\ d = v /\ TypeOf[j] # "list" => Added(j, d, w) = v
        /\ Added(j, d, w) # Nil
    BY <1>1, <1>2, <2>2, AddedOwn
  <2>5. t1 \in Server
    BY <2>3 DEF Keeper
  <2> HIDE DEF x, t1
  <2>6. y \in Command /\ t2 \in Keeper /\ t2.data[j] = WithTtl(t1.data[j], f.ttl)
        /\ \A k \in Keys : k # j => t2.data[k] = t1.data[k]
    <3>1. y \in Command /\ t2 \in Keeper /\ \A k \in Keys : k # j => t2.data[k] = t1.data[k]
      BY <2>2, <2>3, ExpiringRun
    <3>2. t2.data[j] = IF t1.data[j] = Nil THEN Nil ELSE WithTtl(t1.data[j], e.ttl)
      BY <2>2, <2>3, ExpiringRun
    <3>. QED BY <2>2, <2>3, <2>4, <3>1, <3>2
  <2> HIDE DEF y
  <2>7. CASE f.ttl > 0
    <3>1. StoreCommands(f) = <<x, y>>
      BY <2>1, <2>7, JoinedPairs
    <3>2. RunAll(t, <<x, y>>) = t2
      BY <1>2, <2>3, <2>6, RunAllFew DEF t1
    <3>3. t2.data[j] = v
      <4>1. d = Nil \/ (d = v /\ TypeOf[j] # "list")
        BY DEF d, v
      <4>2. v.ttl = f.ttl
        BY DEF v
      <4>3. WithTtl(v, v.ttl) = v
        BY <1>1 DEF WithTtl
      <4>4. t1.data[j] = [items |-> v.items, ttl |-> -1] \/ t1.data[j] = v
        BY <2>3, <2>4, <4>1
      <4>5. WithTtl([items |-> v.items, ttl |-> -1], f.ttl) = [items |-> v.items, ttl |-> f.ttl]
        BY DEF WithTtl
      <4> HIDE DEF t2
      <4>. QED BY <1>1, <2>6, <4>2, <4>3, <4>4, <4>5
    <3> HIDE DEF t2
    <3>. QED BY <2>3, <2>6, <3>1, <3>2, <3>3 DEF v
  <2>8. CASE ~(f.ttl > 0)
    <3>1. StoreCommands(f) = <<x>>
      BY <2>1, <2>8, JoinedPairs
    <3>2. RunAll(t, <<x>>) = t1
      BY <1>2, <2>3, RunAllFew DEF t1
    <3>3. t1.data[j] = v
      <4>1. d = Nil \/ (d = v /\ TypeOf[j] # "list")
        BY DEF d, v
      <4>2. v.ttl = -1
        BY <1>1, <2>8 DEF v
      <4>. QED BY <1>1, <2>3, <2>4, <4>1, <4>2
    <3>. QED BY <2>3, <3>1, <3>2, <3>3 DEF v
  <2>. QED BY <2>7, <2>8
<1>. QED BY <1>3, <1>4

\* A move of a list, set, sorted set or hash that was gone.
LEMMA StoresNothing ==
  ASSUME NEW t \in Keeper, NEW f \in Locals, NEW j \in Keys, f.key = j, f.item = Nil, TypeOf[j] # "string",
         f.ttl > 0 /\ t.data[j] # Nil => t.data[j].ttl = f.ttl
  PROVE  LET u == RunAll(t, StoreCommands(f)) IN
         u \in Keeper /\ \A k \in Keys : u.data[k] = t.data[k]
<1> DEFINE e == [Nil EXCEPT !.ttl = f.ttl]  y == Storing("EXPIRE", j, e)  d == t.data[j]
<1>1. StoreCommands(f) = <<>> \o (IF f.ttl > 0 THEN <<y>> ELSE <<>>)
  BY DEF StoreCommands
<1>2. t \in Server /\ d \in Value /\ d = [items |-> d.items, ttl |-> d.ttl]
  BY DEF Keeper, Server, Value
<1>3. e \in Value /\ e.ttl = f.ttl
  <2>1. f.ttl \in {-1, 0, 1}
    BY LocalFields
  <2>2. e \in Value
    BY <2>1, ValueFields
  <2>. QED BY <2>2 DEF Nil
<1> HIDE DEF e, d
<1>4. y \in Command /\ Run(t, y) \in Keeper
      /\ Run(t, y).data[j] = (IF d = Nil THEN Nil ELSE WithTtl(d, f.ttl))
      /\ \A k \in Keys : k # j => Run(t, y).data[k] = t.data[k]
  <2>1. y \in Command /\ Run(t, y) \in Keeper /\ \A k \in Keys : k # j => Run(t, y).data[k] = t.data[k]
    BY <1>3, ExpiringRun
  <2>2. Run(t, y).data[j] = IF t.data[j] = Nil THEN Nil ELSE WithTtl(t.data[j], e.ttl)
    BY <1>3, ExpiringRun
  <2>. QED BY <1>3, <2>1, <2>2 DEF d
<1> HIDE DEF y
<1>5. CASE f.ttl > 0
  <2>1. StoreCommands(f) = <<y>>
    BY <1>1, <1>5
  <2>2. RunAll(t, <<y>>) = Run(t, y)
    BY <1>2, <1>4, RunAllFew
  <2>3. d # Nil => WithTtl(d, f.ttl) = d
    <3>1. d # Nil => d.ttl = f.ttl
      BY <1>5 DEF d
    <3>. QED BY <1>2, <3>1 DEF WithTtl
  <2>4. Run(t, y).data[j] = d
    BY <1>4, <2>3
  <2>. QED BY <1>4, <2>1, <2>2, <2>4 DEF d
<1>6. CASE ~(f.ttl > 0)
  <2>1. StoreCommands(f) = <<>>
    BY <1>1, <1>6
  <2>. QED BY <1>2, <2>1, RunAllNone
<1>. QED BY <1>5, <1>6

\* The commands of a move are sound.
LEMMA StoreSound ==
  ASSUME NEW f \in Locals, f.key \in Keys, Own(f.key, f.item), f.item = Nil => TypeOf[f.key] # "string"
  PROVE  \A i \in 1..Len(StoreCommands(f)) : Sound(StoreCommands(f)[i])
<1> DEFINE j == f.key  v == f.item  q == StoreCommands(f)
<1>1. /\ f.ttl \in {-1, 0, 1} /\ v \in Value
      /\ v # Nil => v.items # <<>> /\ v.items \in Seq({j} \X Nat)
      /\ v = [items |-> v.items, ttl |-> v.ttl]
  BY LocalFields DEF Own, Value
<1>2. ASSUME NEW nm \in {"SET", "ADD", "EXPIRE"}, NEW w, nm # "EXPIRE" => v # Nil /\ w.items = v.items
      PROVE  Sound(Storing(nm, j, w))
  <2> DEFINE x == Storing(nm, j, w)  T == {j} \X Nat  ks == <<j>>
  <2>1. x.name = nm /\ x.keys = ks /\ x.val = w
    BY DEF Storing
  <2>2. ToSet(ks) = {j} /\ ks # <<>> /\ ks[1] = j
    BY Pairs
  <2>3. nm # "EXPIRE" => Only(v.items, T) = v.items
    <3> HIDE DEF T
    <3>1. nm # "EXPIRE" => v.items \in Seq(T)
      BY <1>1, <1>2 DEF T
    <3>2. nm # "EXPIRE" => \A i \in 1..Len(v.items) : v.items[i] \in T
      BY <3>1
    <3>. QED BY <3>1, <3>2, OnlyAll
  <2> HIDE DEF x, ks
  <2>. QED BY <1>1, <1>2, <2>1, <2>2, <2>3 DEF Sound, x
<1>3. CASE TypeOf[j] = "string"
  <2> DEFINE w == [v EXCEPT !.ttl = IF f.ttl > 0 THEN f.ttl ELSE -1]  x == Storing("SET", j, w)
  <2>1. q = <<x>>
    BY <1>3 DEF StoreCommands
  <2>2. w.items = v.items
    BY <1>1
  <2> HIDE DEF w
  <2>3. Sound(x)
    BY <1>2, <1>3, <2>2
  <2> HIDE DEF x, q
  <2>4. \A i \in 1..Len(q) : q[i] = x
    BY <2>1
  <2>. QED BY <2>3, <2>4 DEF q
<1>4. CASE TypeOf[j] # "string"
  <2> DEFINE w == [v EXCEPT !.ttl = -1]  e == [Nil EXCEPT !.ttl = f.ttl]
             x == Storing("ADD", j, w)  y == Storing("EXPIRE", j, e)
             a == IF v = Nil THEN <<>> ELSE <<x>>  b == IF f.ttl > 0 THEN <<y>> ELSE <<>>
  <2>1. q = a \o b
    BY <1>4 DEF StoreCommands
  <2>2. w.items = v.items
    BY <1>1
  <2> HIDE DEF w, e
  <2>3. (v # Nil => Sound(x)) /\ Sound(y)
    BY <1>2, <2>2
  <2> HIDE DEF x, y, q
  <2>4. \A i \in 1..Len(q) : (v # Nil /\ q[i] = x) \/ q[i] = y
    <3>1. q \in {<<>>} \/ q = <<y>> \/ (v # Nil /\ (q = <<x>> \/ q = <<x, y>>))
      BY <2>1, JoinedPairs
    <3>. QED BY <3>1
  <2>. QED BY <2>3, <2>4 DEF q
<1>. QED BY <1>3, <1>4

\* The commands of the application.
UserNames == {"SET", "ADD", "DEL", "GET", "COUNT", "MGET"}

\* What the applications see when the keys of a host are d, the other keys V, and R behind them.
Mix(V, R, h, d) == [k \in Keys |-> IF HomeOf(k) # h THEN V[k] ELSE IF d[k] # Nil THEN d[k] ELSE R[k]]

\* A command of the application for keys of the host, which respects the copies of keys elsewhere.
Respects(x, h, J, d) ==
  /\ x \in Command /\ Sound(x) /\ x.name \in UserNames /\ \A k \in ToSet(x.keys) : HomeOf(k) = h
  /\ x.name = "DEL" => \A k \in ToSet(x.keys) : k \notin J
  /\ x.name = "ADD" => x.keys[1] \notin J \/ d[x.keys[1]] # Nil

\* Values of the keys, and others of those in J.
Behind(V, R, J) == /\ V \in [Keys -> Value] /\ R \in [Keys -> Value]
                   /\ \A k \in Keys : R[k] # Nil => k \in J

\* The keys of a server, with their own elements.
OwnData(d) == d \in [Keys -> Value] /\ \A k \in Keys : Own(k, d[k])

\* It shows as what it does on one server.
LEMMA MixRun ==
  ASSUME NEW V, NEW R, NEW h, NEW J, Behind(V, R, J), NEW d, OwnData(d),
         NEW x, Respects(x, h, J, d)
  PROVE  Changed(Mix(V, R, h, d), x) = Mix(V, R, h, Changed(d, x))
<1>0. V \in [Keys -> Value] /\ R \in [Keys -> Value] /\ \A k \in Keys : R[k] # Nil => k \in J
  BY DEF Behind
<1> DEFINE M == Mix(V, R, h, d)  e == Changed(d, x)  N == Changed(M, x)  Q == Mix(V, R, h, e)
           ks == ToSet(x.keys)
<1>1. /\ x \in Command /\ Sound(x) /\ x.name \in UserNames /\ x.keys \in Seq(Keys)
      /\ \A k \in ks : HomeOf(k) = h
  BY CommandFields DEF Respects
<1>2. d \in [Keys -> Value] /\ \A k \in Keys : Own(k, d[k])
  BY DEF OwnData
<1>3. M \in [Keys -> Value] /\ \A k \in Keys : M[k] = IF HomeOf(k) # h THEN V[k] ELSE IF d[k] # Nil THEN d[k] ELSE R[k]
  BY <1>0, <1>2 DEF Mix
<1>4. \A k \in Keys : Q[k] = IF HomeOf(k) # h THEN V[k] ELSE IF e[k] # Nil THEN e[k] ELSE R[k]
  <2> HIDE DEF e
  <2>. QED BY DEF Mix
<1>5. Changing(d, e, x.name, ks, x.keys # <<>>) /\ Changing(M, N, x.name, ks, x.keys # <<>>)
  <2> HIDE DEF M
  <2>. QED BY <1>1, <1>2, <1>3, ChangedAt
<1>6. \A k \in Keys : Becomes(x, k, d[k], e[k])
  BY <1>1, <1>2, ChangedTo
<1>7. x.name = "ADD" => x.keys # <<>> /\ x.keys[1] \in ks
  <2>1. x.name = "ADD" => x.keys # <<>>
    BY <1>1 DEF Sound
  <2>2. x.keys # <<>> => x.keys[1] \in ks
    BY <1>1 DEF ToSet
  <2>. QED BY <2>1, <2>2
<1>8. \A k \in Keys : k \notin ks => N[k] = M[k] /\ e[k] = d[k]
  BY <1>1, <1>5, <1>7 DEF Changing, UserNames
<1>9. ASSUME NEW k \in Keys, k \in ks PROVE N[k] = Q[k]
  <2>1. HomeOf(k) = h
    BY <1>1, <1>9
  <2>2. CASE x.name = "SET"
    <3>1. N[k] = Given(x, k)
      <4>1. Contains(x.keys, k)
        BY <1>1, <1>9 DEF Contains, ToSet
      <4> HIDE DEF M
      <4>. QED BY <2>2, <4>1 DEF Changed, Given
    <3>2. e[k] = Given(x, k) /\ e[k] # Nil
      BY <1>6, <1>9, <2>2 DEF Becomes
    <3> HIDE DEF N, Q, e
    <3>. QED BY <1>4, <2>1, <3>1, <3>2
  <2>3. CASE x.name = "DEL"
    <3>1. N[k] = Nil /\ e[k] = Nil
      BY <1>5, <1>9, <2>3 DEF Changing
    <3>2. R[k] = Nil
      BY <1>0, <1>9, <2>3 DEF Respects
    <3> HIDE DEF N, Q, e
    <3>. QED BY <1>4, <2>1, <3>1, <3>2
  <2>4. CASE x.name = "ADD" /\ k = x.keys[1]
    <3>1. N[k] = Added(k, M[k], x.val)
      <4> HIDE DEF M
      <4>. QED BY <1>3, <2>4 DEF Changed
    <3>2. e[k] = Added(k, d[k], x.val) /\ e[k] # Nil
      BY <1>6, <2>4 DEF Becomes
    <3>3. M[k] = d[k]
      <4>1. d[k] # Nil \/ R[k] = Nil
        BY <1>0, <2>4 DEF Respects
      <4> HIDE DEF M
      <4>. QED BY <1>3, <2>1, <4>1
    <3> HIDE DEF N, Q, e, M
    <3>. QED BY <1>4, <2>1, <3>1, <3>2, <3>3
  <2>5. CASE (x.name = "ADD" /\ k # x.keys[1]) \/ x.name \in {"GET", "COUNT", "MGET"}
    <3>1. e[k] = d[k]
      BY <1>6, <2>5 DEF Becomes
    <3>2. N[k] = M[k]
      <4>1. CASE x.name = "ADD" /\ k # x.keys[1]
        <5> HIDE DEF M
        <5>. QED BY <1>3, <4>1 DEF Changed
      <4>2. CASE x.name \in {"GET", "COUNT", "MGET"}
        BY <1>5, <4>2 DEF Changing
      <4>. QED BY <2>5, <4>1, <4>2
    <3> HIDE DEF N, Q, e, M
    <3>. QED BY <1>3, <1>4, <2>1, <3>1, <3>2
  <2>. QED BY <1>1, <2>2, <2>3, <2>4, <2>5 DEF UserNames
<1>10. ASSUME NEW k \in Keys PROVE N[k] = Q[k]
  <2>1. CASE k \in ks
    BY <1>9, <2>1
  <2>2. CASE k \notin ks
    <3> HIDE DEF N, Q, e, M, ks
    <3>. QED BY <1>3, <1>4, <1>8, <2>2
  <2>. QED BY <2>1, <2>2
<1>11. N \in [Keys -> Value] /\ Q = [k \in Keys |-> Q[k]]
  <2>1. N \in [Keys -> Value]
    BY <1>5 DEF Changing
  <2>2. Q = [k \in Keys |-> Q[k]]
    BY DEF Mix
  <2>. QED BY <2>1, <2>2
<1>12. N = [k \in Keys |-> N[k]]
  <2> HIDE DEF N
  <2>. QED BY <1>11
<1> HIDE DEF N, Q
<1>13. N = Q
  BY <1>10, <1>11, <1>12
<1>. QED BY <1>13 DEF N, Q

\* All the commands respect the copies of keys elsewhere, and show as on one server.
RespectAll(cmds, h, J, s) == \A i \in 1 .. Len(cmds) : Respects(cmds[i], h, J, s.data)
MixAll(V, R, h, J, s, cmds) ==
  /\ RunAll([data |-> Mix(V, R, h, s.data), index |-> {}], cmds).data = Mix(V, R, h, RunAll(s, cmds).data)
  /\ \A k \in Keys : k \in J /\ s.data[k] # Nil => RunAll(s, cmds).data[k] # Nil

\* And so do several.
LEMMA MixRunAll ==
  ASSUME NEW V, NEW R, NEW h, NEW J, Behind(V, R, J), NEW s \in Keeper,
         NEW cmds \in Seq(Command), RespectAll(cmds, h, J, s)
  PROVE  MixAll(V, R, h, J, s, cmds)
<1> DEFINE n == Len(cmds)  Img(t) == [data |-> Mix(V, R, h, t.data), index |-> {}]
           I == {t \in Keeper : \A k \in Keys : k \in J /\ s.data[k] # Nil => t.data[k] # Nil}
<1>0. \A i \in 1 .. n : Respects(cmds[i], h, J, s.data)
  BY DEF RespectAll
<1>1. s \in Server /\ n \in Nat /\ \A i \in 1..n : cmds[i] \in Command
  BY DEF Keeper
<1>2. PICK m : Serving(m, s, cmds)
  BY <1>1, ServingExists
<1>3. m \in [0..n -> Server] /\ m[0] = s /\ \A i \in 1..n : m[i] = Run(m[i - 1], cmds[i])
  BY <1>2 DEF Serving
<1>4. ASSUME NEW t \in I, NEW i \in 1..n
      PROVE  /\ Run(t, cmds[i]) \in I /\ Respects(cmds[i], h, J, t.data)
             /\ Changed(Mix(V, R, h, t.data), cmds[i]) = Mix(V, R, h, Changed(t.data, cmds[i]))
  <2> DEFINE x == cmds[i]  u == Run(t, x)
  <2>1. /\ Respects(x, h, J, s.data) /\ t \in Keeper
        /\ \A k \in Keys : k \in J /\ s.data[k] # Nil => t.data[k] # Nil
    BY <1>0, <1>4
  <2>2. x \in Command /\ Sound(x) /\ x.name \in UserNames /\ x.keys \in Seq(Keys)
    <3>1. x \in Command /\ Sound(x) /\ x.name \in UserNames
      BY <2>1 DEF Respects
    <3> HIDE DEF x
    <3>. QED BY <3>1, CommandFields
  <2> HIDE DEF x
  <2>3. u \in Keeper /\ \A k \in Keys : Becomes(x, k, t.data[k], u.data[k])
    BY <2>1, <2>2, SoundRun
  <2> HIDE DEF u
  <2>4. ASSUME NEW k \in Keys, k \in J, t.data[k] # Nil PROVE u.data[k] # Nil
    <3>1. ~(x.name = "DEL" /\ k \in ToSet(x.keys)) /\ x.name # "EXPIRE"
      BY <2>1, <2>2, <2>4 DEF Respects, UserNames
    <3>. QED BY <2>3, <2>4, <3>1 DEF Becomes
  <2>5. u \in I
    BY <2>1, <2>3, <2>4
  <2>6. x.name = "ADD" => x.keys[1] \in Keys
    <3>1. x.name = "ADD" => x.keys # <<>>
      BY <2>2 DEF Sound
    <3>. QED BY <2>2, <3>1
  <2>7. Respects(x, h, J, t.data)
    BY <2>1, <2>6 DEF Respects
  <2>8. Changed(Mix(V, R, h, t.data), x) = Mix(V, R, h, Changed(t.data, x))
    <3> HIDE DEF I, Img
    <3> DEFINE d == t.data
    <3>1. d = t.data /\ Respects(x, h, J, d)
      BY <2>7
    <3> HIDE DEF d
    <3>2. OwnData(d)
      BY <2>1, <3>1 DEF OwnData, Keeper, Server
    <3>3. Respects(x, h, J, d)
      BY <3>1
    <3>4. Changed(Mix(V, R, h, d), x) = Mix(V, R, h, Changed(d, x))
      BY <3>2, <3>3, MixRun
    <3>. QED BY <3>4 DEF d
  <2>. QED BY <2>5, <2>7, <2>8 DEF x, u
<1> DEFINE P == {k \in Nat : k <= n => m[k] \in I}
<1>5. 0 \in P
  BY <1>3
<1>6. ASSUME NEW k \in Nat, k \in P PROVE k + 1 \in P
  <2>1. CASE k + 1 <= n
    <3>1. k + 1 \in 1..n /\ (k + 1) - 1 = k /\ m[k] \in I
      BY <1>1, <1>6, <2>1
    <3> HIDE DEF I
    <3>. QED BY <1>3, <1>4, <3>1
  <2>2. CASE ~(k + 1 <= n)
    BY <2>2
  <2>. QED BY <2>1, <2>2
<1> HIDE DEF P
<1>7. Nat \subseteq P
  BY <1>5, <1>6, Climb
<1>8. ASSUME NEW i \in 0..n PROVE m[i] \in I
  BY <1>1, <1>7 DEF P
<1> DEFINE M == [i \in 0..n |-> Img(m[i])]
<1>9. ASSUME NEW t \in Keeper PROVE Img(t) \in Server /\ Img(t).data = Mix(V, R, h, t.data)
  <2> DEFINE D == Mix(V, R, h, t.data)
  <2>1. t.data \in [Keys -> Value]
    BY DEF Keeper, Server
  <2>2. D \in [Keys -> Value]
    BY <2>1 DEF Mix, Behind
  <2> HIDE DEF D
  <2>3. [data |-> D, index |-> {}] \in Server /\ [data |-> D, index |-> {}].data = D
    BY <2>2 DEF Server
  <2>. QED BY <2>3 DEF D
<1>10. ASSUME NEW i \in 1..n PROVE Img(m[i]) = Run(Img(m[i - 1]), cmds[i])
  <2> DEFINE t == m[i - 1]  x == cmds[i]  a == Img(t)  b == Run(a, x)
  <2>1. i - 1 \in 0..n /\ m[i] = Run(t, x)
    BY <1>1, <1>3
  <2>2. t \in I
    BY <1>8, <2>1
  <2>3. Respects(x, h, J, t.data) /\ t \in Keeper
    <3> HIDE DEF x, t
    <3>1. t \in Keeper
      BY <2>2
    <3>2. Respects(cmds[i], h, J, t.data)
      <4> HIDE DEF I
      <4>. QED BY <1>4, <2>2
    <3>. QED BY <3>1, <3>2 DEF x
  <2> HIDE DEF t, x, I
  <2>4. x \in Command /\ x.name \notin {"SADD", "SREM"}
    BY <2>3 DEF Respects, UserNames
  <2>5. Changed(Mix(V, R, h, t.data), x) = Mix(V, R, h, Changed(t.data, x))
    <3>1. Changed(Mix(V, R, h, t.data), cmds[i]) = Mix(V, R, h, Changed(t.data, cmds[i]))
      BY <1>4, <2>2
    <3>. QED BY <3>1 DEF x
  <2>6. Run(t, x).data = Changed(t.data, x)
    BY <2>3, <2>4, RunType DEF Keeper
  <2>7. a \in Server /\ a.data = Mix(V, R, h, t.data) /\ a.index = {}
    <3>1. a.index = {}
      OBVIOUS
    <3> HIDE DEF Img
    <3>. QED BY <1>9, <2>3, <3>1
  <2>8. b \in Server /\ b.data = Changed(a.data, x) /\ b.index = a.index
    <3> HIDE DEF a
    <3>. QED BY <2>4, <2>7, RunType
  <2>9. b = [data |-> b.data, index |-> b.index]
    <3> HIDE DEF b
    <3>. QED BY <2>8 DEF Server
  <2>10. Img(Run(t, x)) = [data |-> Mix(V, R, h, Changed(t.data, x)), index |-> {}]
    BY <2>6
  <2>11. b = Img(Run(t, x))
    <3> HIDE DEF b, a, Img
    <3>. QED BY <2>5, <2>7, <2>8, <2>9, <2>10
  <2>. QED BY <2>1, <2>11 DEF t, x
<1> DEFINE a0 == Img(s)
<1>11. a0 \in Server
  BY <1>9
<1>12. Serving(M, a0, cmds)
  <2>1. \A i \in 0..n : Img(m[i]) \in Server
    <3>1. \A i \in 0..n : m[i] \in Keeper
      BY <1>8
    <3> HIDE DEF Img
    <3>. QED BY <1>9, <3>1
  <2>2. M \in [0..n -> Server]
    <3> HIDE DEF Img
    <3>. QED BY <2>1
  <2>3. M[0] = a0
    <3>1. 0 \in 0..n
      BY <1>1
    <3>2. M[0] = Img(m[0])
      <4> HIDE DEF Img
      <4>. QED BY <3>1
    <3>3. m[0] = s
      BY <1>3
    <3> HIDE DEF M
    <3>. QED BY <3>2, <3>3
  <2>4. ASSUME NEW i \in 1..n PROVE M[i] = Run(M[i - 1], cmds[i])
    <3>1. i \in 0..n /\ i - 1 \in 0..n
      BY <1>1
    <3>2. M[i] = Img(m[i]) /\ M[i - 1] = Img(m[i - 1])
      <4> HIDE DEF Img
      <4>. QED BY <3>1
    <3> HIDE DEF Img, M
    <3>. QED BY <1>10, <3>2
  <2> HIDE DEF M, a0
  <2>. QED BY <2>2, <2>3, <2>4 DEF Serving
<1>13. RunAll(a0, cmds) = M[n] /\ RunAll(s, cmds) = m[n]
  <2> HIDE DEF M, a0
  <2>. QED BY <1>1, <1>2, <1>11, <1>12, ServingIsRunAll
<1>14. n \in 0..n
  BY <1>1
<1>15. M[n].data = Mix(V, R, h, m[n].data)
  BY <1>14
<1>16. \A k \in Keys : k \in J /\ s.data[k] # Nil => m[n].data[k] # Nil
  BY <1>8, <1>14
<1>. QED BY <1>13, <1>15, <1>16 DEF MixAll

-----------------------------------------------------------------------------
(* What the processes hold while nothing is torn. *)

\* What a move at step p has read, with the locals f.
Holding(p, f) ==
  /\ f.item # Nil =>
       /\ p \in {"moveMulti", "store", "delKey", "moveExec"} /\ f.ttl = f.item.ttl
       /\ f.from = Prev(PrevOf(f.key)) /\ Own(f.key, f.item)
       /\ p # "moveMulti" => f.success
       /\ p \in {"delKey", "moveExec"} => f.ttl # 0
  /\ f.success => p \in {"store", "delKey", "moveExec"} /\ (f.item = Nil => TypeOf[f.key] # "string")

\* What it has queued at its target.
Stored(p, f) == IF p \in {"delKey", "moveExec"} /\ f.success THEN StoreCommands(f) ELSE <<>>

\* Commands of the application, each with elements of its keys.
AsksForUser(q) == \A i \in 1 .. Len(q) : q[i].user /\ q[i].name \in UserNames /\ Sound(q[i])

\* What is queued on the connections: the commands of a move at its target, elsewhere those of
\* the application.
Stowed(p, f, cs) ==
  \A cn \in Connections : IF p \in MidMove /\ cn = f.to THEN cs[cn].queue = Stored(p, f)
                          ELSE AsksForUser(cs[cn].queue)

\* push() has one key.
Single(o) == o.m = "push" => Len(o.keys) = 1

\* The keys are at their hosts of the two rings, with their own elements.
Owned   == \A h \in Servers, k \in Keys : Own(k, At(h, k))
InPlace == \A h \in Servers, k \in Keys :
             At(h, k) # Nil => h = HomeOf(k) \/ (PrevHosts # <<>> /\ h = PrevOf(k))

\* The processes that carry a key carry the same value, and it is gone at the previous ring.
Agree      == \A c, d \in Clients, k \in Keys :
                Carrying(c, k) /\ Carrying(d, k) => frame[c].item = frame[d].item
GoneBefore == \A c \in Clients, k \in Keys :
                Carrying(c, k) /\ PrevOf(k) # HomeOf(k) => Before(k) = Nil

\* What one process holds: one command, what its move has read, what it has stowed.
HoldsOwn(c) == Single(op[c]) /\ Holding(pc[c], frame[c]) /\ Stowed(pc[c], frame[c], conn[c])

Held == Owned /\ InPlace /\ Agree /\ GoneBefore /\ \A c \in Clients : HoldsOwn(c)

HoldInv == CallInv /\ (torn = {} => Held)

-----------------------------------------------------------------------------
(* What the servers carry out. *)

\* A sequence is one over any set that has its elements.
LEMMA SeqOver ==
  ASSUME NEW S, NEW s, s \in Seq(S), NEW E, \A i \in 1..Len(s) : s[i] \in E
  PROVE  s \in Seq(E)
OBVIOUS

\* A sequence of one element.
LEMMA OneElement ==
  ASSUME NEW S, NEW s, s \in Seq(S), Len(s) = 1, NEW E, s[1] \in E
  PROVE  s \in Seq(E) /\ s # <<>>
<1>1. \A i \in 1..Len(s) : s[i] \in E
  OBVIOUS
<1>2. s # <<>>
  OBVIOUS
<1>3. s \in Seq(E)
  BY <1>1, SeqOver
<1>. QED BY <1>2, <1>3

\* The command of a method has elements of its keys.
LEMMA UserSound ==
  ASSUME NEW o \in Op, o.m \in Writes \cup Reads, NEW ks \in Seq(Keys), o.m = "push" => Len(ks) = 1
  PROVE  Sound(UserCommand(o, ks)) /\ UserCommand(o, ks).name \in UserNames
<1> DEFINE x == UserCommand(o, ks)  items == [i \in DOMAIN ks |-> <<ks[i], o.n>>]
           v == [items |-> items, ttl |-> o.ttl]
<1>1. x.name \in UserNames /\ x.keys = ks /\ x.name # "EXPIRE"
  BY UserCommands DEF UserNames
<1>2. o.n \in Nat /\ Len(ks) \in Nat /\ DOMAIN ks = 1..Len(ks) /\ \A i \in 1..Len(ks) : ks[i] \in Keys
  BY OpFields
<1>3. items \in Seq(Keys \X Nat) /\ Len(items) = Len(ks) /\ \A i \in 1..Len(ks) : items[i] = <<ks[i], o.n>>
  BY <1>2
<1>3a. \A i \in 1..Len(ks) : items[i] \in {ks[i]} \X Nat
  BY <1>2
<1>4. o.m \in {"set", "setex", "mset", "push"} => x.val = v
  BY DEF UserCommand
<1>5. x.name = "SET" => o.m \in {"set", "setex", "mset", "push"}
  BY UserCommands DEF Writes, Reads
<1>6. x.name = "ADD" => o.m = "push"
  BY DEF UserCommand, Writes, Reads
<1>7. ASSUME x.name = "SET", NEW k \in ToSet(x.keys) PROVE Only(x.val.items, {k} \X Nat) # <<>>
  <2> DEFINE T == {k} \X Nat  S == Keys \X Nat
  <2>1. PICK i \in 1..Len(ks) : ks[i] = k
    BY <1>1, <1>2, <1>7 DEF ToSet
  <2>2. items[i] \in T /\ i \in 1..Len(items)
    BY <1>2, <1>3, <2>1
  <2> HIDE DEF T, items
  <2>3. Only(items, T) # <<>>
    <3> DEFINE S2 == S
    <3>1. items \in Seq(S2)
      BY <1>3
    <3> HIDE DEF S2
    <3>. QED BY <2>2, <3>1, OnlyElements
  <2>4. x.val.items = items
    BY <1>4, <1>5, <1>7
  <2>. QED BY <2>3, <2>4 DEF T
<1>8. ASSUME x.name = "ADD"
      PROVE  x.keys # <<>> /\ x.val.items # <<>> /\ x.val.items \in Seq({x.keys[1]} \X Nat)
  <2>1. Len(ks) = 1 /\ x.val = v
    BY <1>4, <1>6, <1>8
  <2> HIDE DEF items
  <2> DEFINE E == {ks[1]} \X Nat  S == Keys \X Nat
  <2>2. items \in Seq(S) /\ Len(items) = 1 /\ items[1] \in E
    BY <1>3, <1>3a, <2>1
  <2>2a. ks # <<>>
    <3>1. Len(ks) = 1 /\ ks \in Seq(Keys)
      BY <2>1
    <3> HIDE DEF x, v, E, S
    <3>. QED BY <3>1
  <2> HIDE DEF E, S
  <2>2b. items \in Seq(E) /\ items # <<>>
    BY <2>2, OneElement
  <2> HIDE DEF x
  <2>3. x.val.items = items
    BY <2>1
  <2>4. x.keys # <<>> /\ x.val.items # <<>> /\ x.val.items \in Seq(E) /\ x.keys[1] = ks[1]
    BY <1>1, <2>2a, <2>2b, <2>3
  <2>5. {x.keys[1]} \X Nat = E
    BY <2>4 DEF E
  <2>. QED BY <2>4, <2>5
<1> HIDE DEF x
<1>9. Sound(x)
  BY <1>1, <1>7, <1>8 DEF Sound
<1>. QED BY <1>1, <1>9 DEF x

\* So has what is asked with the keys of one host.
LEMMA UserSoundAt ==
  ASSUME NEW o \in Op, o.m \in Writes \cup Reads, Single(o), NEW h, h \in {HomeOf(k) : k \in ToSet(o.keys)}
  PROVE  Sound(UserCommand(o, KeysAt(h, o.keys))) /\ UserCommand(o, KeysAt(h, o.keys)).name \in UserNames
<1>1. o.keys \in Seq(Keys)
  BY OpFields
<1> DEFINE ks == KeysAt(h, o.keys)  T == {k \in Keys : HomeOf(k) = h}
<1>2. ks \in Seq(Keys)
  BY <1>1, KeysAtHost
<1>3. o.m = "push" => ks = o.keys
  <2> SUFFICES ASSUME o.m = "push" PROVE ks = o.keys
    OBVIOUS
  <2>1. Len(o.keys) = 1
    BY DEF Single
  <2>2. o.keys[1] \in Keys /\ ToSet(o.keys) = {o.keys[1]}
    BY <1>1, <2>1 DEF ToSet
  <2>3. \A i \in 1..Len(o.keys) : o.keys[i] \in T
    BY <2>1, <2>2
  <2> HIDE DEF T
  <2>4. Only(o.keys, T) = o.keys
    BY <1>1, <2>3, OnlyAll
  <2>. QED BY <2>4 DEF KeysAt, T
<1>4. o.m = "push" => Len(ks) = 1
  BY <1>3 DEF Single
<1> HIDE DEF ks
<1>5. Sound(UserCommand(o, ks)) /\ UserCommand(o, ks).name \in UserNames
  BY <1>2, <1>4, UserSound
<1>. QED BY <1>5 DEF ks

\* Commands without elements.
LEMMA PlainSound ==
  ASSUME NEW x, x.name \notin {"SET", "ADD", "EXPIRE"}
  PROVE  Sound(x)
BY DEF Sound

\* What is queued has elements of its keys.
LEMMA QueueSound ==
  ASSUME CallInv, NEW c \in Clients, HoldsOwn(c), NEW cn \in Connections
  PROVE  /\ conn[c][cn].queue \in Seq(Command)
         /\ \A i \in 1 .. Len(conn[c][cn].queue) : Sound(conn[c][cn].queue[i])
<1> DEFINE q == conn[c][cn].queue  f == frame[c]  p == pc[c]
<1>1. Typed /\ CallIs(p, op[c], f, multi[c]) /\ f \in Locals /\ q \in Seq(Command)
  BY CallFacts, TypedFields, ConnectionFields
<1>2. Holding(p, f) /\ Stowed(p, f, conn[c])
  BY DEF HoldsOwn
<1>3. CASE ~(p \in MidMove /\ cn = f.to)
  <2>1. AsksForUser(q)
    BY <1>2, <1>3 DEF Stowed
  <2>. QED BY <1>1, <2>1 DEF AsksForUser
<1>4. CASE p \in MidMove /\ cn = f.to
  <2>1. q = Stored(p, f)
    BY <1>2, <1>4 DEF Stowed
  <2>2. f.key \in Keys
    BY <1>1, <1>4 DEF CallIs, MidMove, Moves
  <2>3. CASE p \in {"delKey", "moveExec"} /\ f.success
    <3>1. q = StoreCommands(f)
      BY <2>1, <2>3 DEF Stored
    <3>2. Own(f.key, f.item) /\ (f.item = Nil => TypeOf[f.key] # "string")
      BY <1>2, <2>3 DEF Holding, Own
    <3>3. \A i \in 1 .. Len(StoreCommands(f)) : Sound(StoreCommands(f)[i])
      BY <1>1, <2>2, <3>2, StoreSound
    <3>. QED BY <1>1, <3>1, <3>3
  <2>4. CASE ~(p \in {"delKey", "moveExec"} /\ f.success)
    BY <1>1, <2>1, <2>4 DEF Stored
  <2>. QED BY <2>3, <2>4
<1>. QED BY <1>3, <1>4

\* What the application asks for has elements of its keys.
LEMMA AskedSound ==
  ASSUME CallInv, NEW c \in Clients, Single(op[c]), pc[c] \in {"forward", "read", "readPrev", "mget", "write"}
  PROVE  \E x \in Command : \E y \in Command :
           /\ x.user /\ x.name \in UserNames /\ Sound(x) /\ ~y.user /\ Sound(y) /\ y.name \in {"SADD", "SREM"}
           /\ Asked(c) = <<x>> \/ (pc[c] = "write" /\ Asked(c) = <<x, y>>)
           /\ op[c].m \in Writes \cup Reads
           /\ x.keys = IF pc[c] \in {"mget", "write"} THEN KeysAt(HostOf(c), op[c].keys) ELSE op[c].keys
<1> DEFINE o == op[c]
<1>1. Typed /\ CallIs(pc[c], o, frame[c], multi[c]) /\ o \in Op /\ o.keys \in Seq(Keys)
  BY CallFacts, TypedFields, OpFields
<1>2. Goes(c) /\ o.m \in Writes \cup Reads
  BY <1>1, RequestGoes DEF Goes
<1>3. CASE pc[c] \in {"forward", "read", "readPrev"}
  <2> DEFINE x == UserCommand(o, o.keys)  y == IndexCommand(o, o.keys)
  <2>1. Asked(c) = <<x>>
    BY <1>3, RequestParts
  <2>2. x \in Command /\ x.user /\ x.keys = o.keys
    BY <1>1, <1>2, UserCommands
  <2>3. Sound(x) /\ x.name \in UserNames
    BY <1>1, <1>2, UserSound DEF Single
  <2>4. y \in Command /\ ~y.user /\ y.name \in {"SADD", "SREM"}
    BY <1>1, IndexCommands
  <2>5. Sound(y)
    BY <2>4, PlainSound
  <2> HIDE DEF x, y
  <2>. QED BY <1>2, <1>3, <2>1, <2>2, <2>3, <2>4, <2>5
<1>4. CASE pc[c] \in {"mget", "write"}
  <2> DEFINE h == Head(frame[c].nodes)  ks == KeysAt(h, o.keys)  x == UserCommand(o, ks)  y == IndexCommand(o, ks)
  <2>1. Asked(c) = <<x>> \/ (pc[c] = "write" /\ Asked(c) = <<x, y>>)
    BY <1>1, <1>4, RequestParts DEF Typed
  <2>2. HostOf(c) = h
    BY <1>2, <1>4, ConnectionsApart DEF Goes, HostOf
  <2>3. h \in {HomeOf(k) : k \in ToSet(o.keys)}
    <3>1. frame[c].nodes \in Seq(Servers) /\ frame[c].nodes # <<>>
          /\ ToSet(frame[c].nodes) \subseteq {HomeOf(k) : k \in ToSet(o.keys)}
      BY <1>1, <1>4, TypedFields, LocalFields DEF CallIs
    <3>2. h \in ToSet(frame[c].nodes)
      BY <3>1, FirstNode
    <3>. QED BY <3>1, <3>2
  <2>4. ks \in Seq(Keys)
    BY <1>1, KeysAtHost
  <2>5. x \in Command /\ x.user /\ x.keys = ks
    BY <1>1, <1>2, <2>4, UserCommands
  <2>6. Sound(x) /\ x.name \in UserNames
    <3> HIDE DEF h
    <3>. QED BY <1>1, <1>2, <2>3, UserSoundAt
  <2>7. y \in Command /\ ~y.user /\ y.name \in {"SADD", "SREM"}
    BY <2>4, IndexCommands
  <2>8. Sound(y)
    BY <2>7, PlainSound
  <2> HIDE DEF x, y, h
  <2>9. x.keys = KeysAt(HostOf(c), op[c].keys)
    BY <2>2, <2>5
  <2>. QED BY <1>2, <1>4, <2>1, <2>5, <2>6, <2>7, <2>8, <2>9
<1>. QED BY <1>3, <1>4

\* Sound commands on a server whose keys have their own elements.
LEMMA SoundRunAll ==
  ASSUME NEW s \in Keeper, NEW cmds \in Seq(Command), \A i \in 1 .. Len(cmds) : Sound(cmds[i])
  PROVE  RunAll(s, cmds) \in Keeper
<1>1. Keeper \subseteq Server
  BY DEF Keeper
<1>2. ASSUME NEW t \in Keeper, NEW i \in 1 .. Len(cmds) PROVE Run(t, cmds[i]) \in Keeper
  <2> DEFINE x == cmds[i]
  <2>1. x \in Command /\ Sound(x)
    OBVIOUS
  <2> HIDE DEF x
  <2>2. Run(t, x) \in Keeper
    BY <2>1, SoundRun
  <2>. QED BY <2>2 DEF x
<1>. QED BY <1>1, <1>2, RunAllKeeps

\* What a server carries out has elements of its keys.
LEMMA ExecSound ==
  ASSUME CallInv, NEW c \in Clients, HoldsOwn(c), pc[c] \in Busy
  PROVE  Executes(c) \in Seq(Command) /\ \A i \in 1 .. Len(Executes(c)) : Sound(Executes(c)[i])
<1> DEFINE X == Executes(c)  q == Of(c).queue  f == frame[c]
<1>1. Typed /\ CallIs(pc[c], op[c], frame[c], multi[c]) /\ f \in Locals
  BY CallFacts, TypedFields
<1>2. Request(c)[1] \in Connections /\ Of(c) = conn[c][Request(c)[1]] /\ X \in Seq(Command)
  BY <1>1, ServedTyped
<1>3. q \in Seq(Command) /\ \A i \in 1 .. Len(q) : Sound(q[i])
  BY <1>2, QueueSound
<1>4. Single(op[c])
  BY DEF HoldsOwn
<1> HIDE DEF X, q
<1>5. X = <<>> => \A i \in 1 .. Len(X) : Sound(X[i])
  OBVIOUS
<1>6. CASE pc[c] \in {"multi", "moveMulti", "discard", "store"}
  BY <1>2, <1>5, <1>6, ExecutesOf DEF X
<1>7. CASE pc[c] \in {"forward", "read", "readPrev", "mget", "write"}
  <2>1. X \in {<<>>, Asked(c)}
    BY <1>7, ExecutesOf DEF X, Looking
  <2>2. PICK x \in Command, y \in Command :
          /\ Sound(x) /\ Sound(y)
          /\ Asked(c) = <<x>> \/ (pc[c] = "write" /\ Asked(c) = <<x, y>>)
    BY <1>4, <1>7, AskedSound
  <2>3. X \in {<<>>, <<x>>, <<x, y>>}
    BY <2>1, <2>2
  <2>4. \A i \in 1 .. Len(X) : X[i] \in {x, y}
    BY <2>3
  <2>5. Sound(x) /\ Sound(y)
    BY <2>2
  <2>6. \A i \in 1 .. Len(X) : Sound(X[i])
    BY <2>4, <2>5, Zenon
  <2>. QED BY <1>2, <2>6 DEF X
<1>8. CASE pc[c] \in {"list", "type", "fetch", "delKey"}
  <2>1. X \in {<<>>, Asked(c)}
    BY <1>8, ExecutesOf DEF X, Looking
  <2>2. pc[c] # "list" => f.key \in Keys
    BY <1>1, <1>8 DEF CallIs, Moves
  <2> DEFINE ks == <<f.key>>
  <2>3. pc[c] # "list" => ks \in Seq(Keys)
    BY <2>2
  <2>4. <<>> \in Seq(Keys)
    OBVIOUS
  <2>5. /\ pc[c] = "list" => Asked(c) = <<OnKeys("LIST", <<>>)>>
        /\ pc[c] = "type" => Asked(c) = <<OnKeys("TYPE", ks)>>
        /\ pc[c] = "fetch" => Asked(c) = <<OnKeys("GET", ks)>>
        /\ pc[c] = "delKey" => Asked(c) = <<OnKeys("DEL", ks), OnKeys("SREM", ks)>>
    BY RequestParts
  <2> HIDE DEF ks
  <2>6. \E x, y : Sound(x) /\ Sound(y) /\ (Asked(c) = <<x>> \/ Asked(c) = <<x, y>>)
    <3>1. \A nm \in {"LIST", "TYPE", "GET", "DEL", "SREM"} : \A s \in Seq(Keys) : Sound(OnKeys(nm, s))
      <4> SUFFICES ASSUME NEW nm \in {"LIST", "TYPE", "GET", "DEL", "SREM"}, NEW s \in Seq(Keys)
                   PROVE  Sound(OnKeys(nm, s))
        OBVIOUS
      <4>1. OnKeys(nm, s).name = nm
        BY DEF OnKeys
      <4>. QED BY <4>1, PlainSound
    <3>. QED BY <1>8, <2>3, <2>4, <2>5, <3>1
  <2>7. PICK x, y : Sound(x) /\ Sound(y) /\ (Asked(c) = <<x>> \/ Asked(c) = <<x, y>>)
    BY <2>6
  <2>8. X \in {<<>>, <<x>>, <<x, y>>}
    BY <2>1, <2>7
  <2>9. \A i \in 1 .. Len(X) : X[i] \in {x, y}
    BY <2>8
  <2>. QED BY <1>2, <2>7, <2>9 DEF X
<1>9. CASE pc[c] = "exec"
  <2>1. X \in {<<>>, q}
    BY <1>9, ExecutesOf DEF X, q
  <2>. QED BY <1>2, <1>3, <1>5, <2>1 DEF X
<1>10. CASE pc[c] = "moveExec"
  <2> DEFINE y == OnKeys("SADD", <<f.key>>)
  <2>1. X = <<>> \/ X = q \/ X = Append(q, y)
    BY <1>10, ExecutesOf DEF X, q
  <2>2. Sound(y)
    <3>1. y.name = "SADD"
      BY DEF OnKeys
    <3>. QED BY <3>1, PlainSound
  <2>3. y \in Command
    <3>1. f.key \in Keys
      BY <1>1, <1>10 DEF CallIs, Moves
    <3> DEFINE ks == <<f.key>>
    <3>2. ks \in Seq(Keys) /\ "SADD" \in Names
      BY <3>1 DEF Names
    <3>3. y = OnKeys("SADD", ks)
      OBVIOUS
    <3> HIDE DEF ks, y
    <3>. QED BY <3>2, <3>3, ArrayCommands
  <2> HIDE DEF y
  <2>4. X = Append(q, y) => \A i \in 1 .. Len(X) : Sound(X[i])
    <3> SUFFICES ASSUME X = Append(q, y), NEW i \in 1 .. Len(X) PROVE Sound(X[i])
      OBVIOUS
    <3>1. Len(X) = Len(q) + 1 /\ (i <= Len(q) => X[i] = q[i]) /\ (i = Len(q) + 1 => X[i] = y)
      BY <1>3, <2>3
    <3>. QED BY <1>3, <2>2, <3>1
  <2>. QED BY <1>2, <1>3, <1>5, <2>1, <2>4 DEF X
<1>. QED BY <1>6, <1>7, <1>8, <1>9, <1>10 DEF Busy, Steps

\* The keys stay at their hosts, with their own elements.
LEMMA PlacesKeep ==
  ASSUME CallInv, Owned, InPlace, NEW c \in Clients, HoldsOwn(c), pc[c] \in Busy,
         NEW cmds, cmds \in {Executes(c), <<>>}, Serve(HostOf(c), cmds)
  PROVE  Owned' /\ InPlace'
<1> DEFINE h == HostOf(c)
<1>1. /\ db' \in [Servers -> Server] /\ h \in Servers /\ cmds \in Seq(Command)
      /\ db'[h] = RunAll(db[h], cmds) /\ \A g \in Servers : g # h => db'[g] = db[g]
  BY LoseServes
<1>2. db[h] \in Keeper
  BY <1>1, CallFacts, TypedFields DEF Owned, Keeper, At
<1>3. \A i \in 1 .. Len(cmds) : Sound(cmds[i])
  BY ExecSound
<1>4. db'[h] \in Keeper
  BY <1>1, <1>2, <1>3, SoundRunAll
<1>5. Owned'
  BY <1>1, <1>4 DEF Owned, Keeper, At
<1>6. \A g \in Servers, k \in Keys : g # HomeOf(k) =>
        Far(g, k) \/ db'[g].data[k] = Nil
  BY FarStays
<1>7. InPlace'
  BY <1>6 DEF InPlace, At, Far
<1>. QED BY <1>5, <1>7

\* What a move does that tears nothing.
LEMMA NothingMoved ==
  ASSUME NEW c, Moved(c) = {}
  PROVE  /\ pc[c] = "moveMulti" => ~Of(c).tx
         /\ pc[c] = "fetch" /\ Fetched(c) # Nil => Fetched(c).ttl = frame[c].ttl
         /\ pc[c] = "moveExec" /\ frame[c].success /\ frame[c].item = Nil /\ frame[c].ttl > 0
              /\ At(HostOf(c), frame[c].key) # Nil => At(HostOf(c), frame[c].key).ttl = frame[c].ttl
         /\ pc[c] = "store" => frame[c].ttl # 0
         /\ pc[c] = "delKey" => At(HostOf(c), frame[c].key) \in {Nil, frame[c].item}
         /\ pc[c] = "delKey" /\ frame[c].item # Nil =>
              \A d \in Clients : Carrying(d, frame[c].key) => frame[d].item = frame[c].item
         /\ pc[c] = "moveExec" /\ frame[c].item # Nil =>
              /\ Executes(c) # <<>>
              /\ At(HostOf(c), frame[c].key) # Nil =>
                   TypeOf[frame[c].key] # "list" /\ At(HostOf(c), frame[c].key) = Item(c)
<1> DEFINE f == frame[c]  E == {"lostInMove", "overwrote", "lateDelete", "movedTwice", "staleTtl", "persisted",
                                "execByMove"}
<1>1. ~(pc[c] = "moveMulti" /\ Of(c).tx)
  BY DEF Moved
<1>2. /\ ~(pc[c] = "fetch" /\ Fetched(c) # Nil /\ Fetched(c).ttl # f.ttl)
      /\ ~(pc[c] = "moveExec" /\ f.success /\ f.item = Nil /\ f.ttl > 0
             /\ At(HostOf(c), f.key) # Nil /\ At(HostOf(c), f.key).ttl # f.ttl)
  BY DEF Moved
<1>3. ~(pc[c] = "store" /\ f.ttl = 0)
  BY DEF Moved
<1>4. ~(pc[c] = "delKey" /\ At(HostOf(c), f.key) \notin {Nil, f.item})
  BY DEF Moved
<1>5. ~(/\ pc[c] = "delKey" /\ f.item # Nil
        /\ \E d \in Clients : Carrying(d, f.key) /\ frame[d].item # f.item)
  BY DEF Moved
<1>6. ~(pc[c] = "moveExec" /\ f.item # Nil /\ Executes(c) = <<>>)
  BY DEF Moved
<1>7. ~(/\ pc[c] = "moveExec" /\ f.item # Nil /\ At(HostOf(c), f.key) # Nil
        /\ (TypeOf[f.key] = "list" \/ At(HostOf(c), f.key) # Item(c)))
  BY DEF Moved
<1> HIDE DEF f
<1>8. \A d \in Clients : pc[c] = "delKey" /\ f.item # Nil /\ Carrying(d, f.key) => frame[d].item = f.item
  BY <1>5
<1>. QED BY <1>1, <1>2, <1>3, <1>4, <1>6, <1>7, <1>8 DEF f

\* A process takes a step; the others hold what they held.
LEMMA HeldMoves ==
  ASSUME CallInv, Held, NEW c \in Clients, NEW w, NEW f, Go(c, w, f), Owned', InPlace', Fades,
         \A d \in Clients : d # c => conn'[d] = conn[d] /\ op'[d] = op[d],
         Single(op'[c]), Holding(w, f), Stowed(w, f, conn'[c]),
         w = "moveExec" /\ f.item # Nil =>
           /\ PrevOf(f.key) # HomeOf(f.key) => Before(f.key)' = Nil
           /\ \A d \in Clients : Carrying(d, f.key) => frame[d].item = f.item
  PROVE  Held'
<1>1. pc \in [Clients -> Steps] /\ frame \in [Clients -> Locals]
  BY CallFacts DEF CallInv, Typed
<1>2. /\ pc'[c] = w /\ frame'[c] = f
      /\ \A d \in Clients : d # c => pc'[d] = pc[d] /\ frame'[d] = frame[d]
  BY <1>1 DEF Go
<1>3. \A d \in Clients, k \in Keys : d # c => (Carrying(d, k)' <=> Carrying(d, k))
  BY <1>2 DEF Carrying, InHand
<1>4. \A k \in Keys : Carrying(c, k)' => w = "moveExec" /\ f.item # Nil /\ f.key = k
  BY <1>2 DEF Carrying, InHand
<1>5. ASSUME NEW a \in Clients, NEW b \in Clients, NEW k \in Keys, Carrying(a, k)', Carrying(b, k)'
      PROVE  frame'[a].item = frame'[b].item
  <2>1. CASE a # c /\ b # c
    BY <1>2, <1>3, <1>5, <2>1 DEF Held, Agree
  <2>2. CASE a = c /\ b # c
    BY <1>2, <1>3, <1>4, <1>5, <2>2
  <2>3. CASE a # c /\ b = c
    BY <1>2, <1>3, <1>4, <1>5, <2>3
  <2>4. CASE a = b
    BY <2>4
  <2>. QED BY <2>1, <2>2, <2>3, <2>4
<1>6. Agree'
  BY <1>5 DEF Agree
<1>7. ASSUME NEW a \in Clients, NEW k \in Keys, Carrying(a, k)', PrevOf(k) # HomeOf(k)
      PROVE  Before(k)' = Nil
  <2>1. CASE a # c
    <3>1. Before(k) = Nil
      BY <1>3, <1>7, <2>1 DEF Held, GoneBefore
    <3>2. CASE PrevHosts = <<>>
      BY <3>2 DEF Before
    <3>3. CASE PrevHosts # <<>>
      BY <1>7, <3>1, <3>3 DEF Fades
    <3>. QED BY <3>2, <3>3
  <2>2. CASE a = c
    BY <1>4, <1>7, <2>2
  <2>. QED BY <2>1, <2>2
<1>8. GoneBefore'
  BY <1>7 DEF GoneBefore
<1>9. \A d \in Clients : d # c => HoldsOwn(d)'
  BY <1>2 DEF Held, HoldsOwn
<1>10. HoldsOwn(c)'
  BY <1>2 DEF HoldsOwn
<1>. QED BY <1>6, <1>8, <1>9, <1>10 DEF Held

\* Outside a move a process holds nothing.
LEMMA HeldPlain ==
  ASSUME CallInv, Held, NEW c \in Clients, NEW w, NEW f, Go(c, w, f), Owned', InPlace', Fades,
         \A d \in Clients : d # c => conn'[d] = conn[d] /\ op'[d] = op[d],
         Single(op'[c]), w \notin MidMove, f.item = Nil, ~f.success,
         \A cn \in Connections : AsksForUser(conn'[c][cn].queue)
  PROVE  Held'
<1>1. Holding(w, f)
  BY DEF Holding
<1>2. Stowed(w, f, conn'[c])
  BY DEF Stowed
<1>3. w # "moveExec"
  BY DEF MidMove
<1>. QED BY <1>1, <1>2, <1>3, HeldMoves

\* What a process holds outside a move.
LEMMA Outside ==
  ASSUME CallInv, NEW c \in Clients, HoldsOwn(c), pc[c] \notin MidMove
  PROVE  /\ ~frame[c].success /\ (pc[c] # "moveMulti" => frame[c].item = Nil)
         /\ \A cn \in Connections : AsksForUser(conn[c][cn].queue)
<1>1. frame[c].success \in BOOLEAN
  BY CallFacts, TypedFields, LocalFields
<1>. QED BY <1>1 DEF HoldsOwn, Holding, Stowed, MidMove

\* The servers do not change.
LEMMA StillPlaces ==
  ASSUME Owned, InPlace, db' = db
  PROVE  Owned' /\ InPlace' /\ Fades
<1>1. \A h, k : At(h, k)' = At(h, k)
  BY DEF At
<1>2. \A k : Before(k)' = Before(k)
  BY <1>1 DEF Before
<1>. QED BY <1>1, <1>2 DEF Owned, InPlace, Fades

\* A step that leaves a process outside a move.
PlainGo(c) == \E w, f : Go(c, w, f) /\ w \notin MidMove /\ f.item = Nil /\ ~f.success

\* The locals of a call at its start.
LEMMA StartLocals ==
  /\ NoFrame.item = Nil /\ ~NoFrame.success
  /\ \A x : [NoFrame EXCEPT !.nodes = x].item = Nil /\ ~[NoFrame EXCEPT !.nodes = x].success
BY DEF NoFrame

\* A call starts outside a move.
LEMMA StartsPlain ==
  ASSUME NEW c \in Clients, Starts(c)
  PROVE  PlainGo(c) /\ UNCHANGED <<db, conn>> /\ pc[c] = "idle"
<1>1. CASE CallKeys(c)
  <2>1. PICK o \in KeyCalls :
          /\ Enter(c, o)
          /\ IF multi[c] # None THEN Go(c, "forward", NoFrame)
             ELSE Go(c, CASE o.m \in Writes -> "write"
                          [] o.m = "mget"   -> "mget"
                          [] OTHER          -> "read",
                     [NoFrame EXCEPT !.nodes = NodesOf(o.keys)])
    BY <1>1 DEF CallKeys
  <2> DEFINE w == CASE o.m \in Writes -> "write" [] o.m = "mget" -> "mget" [] OTHER -> "read"
             f == [NoFrame EXCEPT !.nodes = NodesOf(o.keys)]
  <2>2. w \in {"write", "mget", "read"}
    OBVIOUS
  <2>3. f.item = Nil /\ ~f.success
    BY StartLocals
  <2>4. Go(c, "forward", NoFrame) \/ Go(c, w, f)
    BY <2>1
  <2> HIDE DEF w, f
  <2>5. "forward" \notin MidMove /\ w \notin MidMove
    BY <2>2 DEF MidMove
  <2>. QED BY <2>1, <2>3, <2>4, <2>5, StartLocals DEF PlainGo, Enter, CanCall
<1>2. CASE CallRehash(c)
  <2> DEFINE f == [NoFrame EXCEPT !.nodes = PrevHosts]
  <2>1. Go(c, "return", NoFrame) \/ Go(c, "list", f)
    BY <1>2 DEF CallRehash
  <2>2. f.item = Nil /\ ~f.success
    BY StartLocals
  <2>3. UNCHANGED <<db, conn>> /\ pc[c] = "idle"
    BY <1>2 DEF CallRehash, Enter, CanCall
  <2> HIDE DEF f
  <2>4. "return" \notin MidMove /\ "list" \notin MidMove
    BY DEF MidMove
  <2>. QED BY <2>1, <2>2, <2>3, <2>4, StartLocals DEF PlainGo
<1>3. CASE CallMulti(c)
  <2>1. Go(c, "multi", NoFrame) /\ UNCHANGED <<db, conn>> /\ pc[c] = "idle"
    BY <1>3 DEF CallMulti, Enter, CanCall
  <2>2. "multi" \notin MidMove
    BY DEF MidMove
  <2>. QED BY <2>1, <2>2, StartLocals DEF PlainGo
<1>4. CASE CallEnd(c)
  <2>1. PICK m \in {"exec", "discard"} :
          Go(c, IF multi[c] = None THEN "return" ELSE m, NoFrame) /\ UNCHANGED <<db, conn>> /\ pc[c] = "idle"
    BY <1>4 DEF CallEnd, Enter, CanCall
  <2> DEFINE w == IF multi[c] = None THEN "return" ELSE m
  <2>2. w \notin MidMove
    BY DEF MidMove
  <2>3. Go(c, w, NoFrame)
    BY <2>1
  <2> HIDE DEF w
  <2>. QED BY <2>1, <2>2, <2>3, StartLocals DEF PlainGo
<1>. QED BY <1>1, <1>2, <1>3, <1>4 DEF Starts

\* push() has one key, whoever calls it.
LEMMA StartsSingle ==
  ASSUME CallInv, NEW c \in Clients, Starts(c)
  PROVE  Single(op'[c]) /\ \A d \in Clients : d # c => op'[d] = op[d]
<1>0. op \in [Clients -> Op]
  BY CallFacts DEF Typed
<1>1. CASE CallKeys(c)
  <2>1. PICK o \in KeyCalls : op' = [op EXCEPT ![c] = o]
    BY <1>1 DEF CallKeys, Enter
  <2>2. PICK x \in Inputs, t \in Ttls :
          o = [m |-> x[1], keys |-> x[2], host |-> None, n |-> calls + 1, ttl |-> t]
    BY DEF KeyCalls
  <2>3. o.m = x[1] /\ o.keys = x[2]
    BY <2>2
  <2>4. x[1] = "push" => Len(x[2]) = 1
    <3>1. \A y \in Inputs : y[1] = "push" => Len(y[2]) = 1
      BY OptionAssumption
    <3>. QED BY <3>1
  <2>. QED BY <1>0, <2>1, <2>3, <2>4 DEF Single
<1>2. CASE CallRehash(c)
  <2> DEFINE o == [NoOp EXCEPT !.m = "_rehash"]
  <2>1. op' = [op EXCEPT ![c] = o]
    BY <1>2 DEF CallRehash, Enter
  <2>2. o.m # "push"
    BY DEF NoOp
  <2> HIDE DEF o
  <2>. QED BY <1>0, <2>1, <2>2 DEF Single
<1>3. CASE CallMulti(c)
  <2>1. PICK h \in ToSet(Hosts) : op' = [op EXCEPT ![c] = [NoOp EXCEPT !.m = "multi", !.host = h]]
    BY <1>3 DEF CallMulti, Enter
  <2> DEFINE o == [NoOp EXCEPT !.m = "multi", !.host = h]
  <2>2. o.m # "push"
    BY DEF NoOp
  <2>3. op' = [op EXCEPT ![c] = o]
    BY <2>1
  <2> HIDE DEF o
  <2>. QED BY <1>0, <2>2, <2>3 DEF Single
<1>4. CASE CallEnd(c)
  <2>1. PICK m \in {"exec", "discard"} : op' = [op EXCEPT ![c] = [NoOp EXCEPT !.m = m]]
    BY <1>4 DEF CallEnd, Enter
  <2> DEFINE o == [NoOp EXCEPT !.m = m]
  <2>2. o.m # "push"
    BY DEF NoOp
  <2>3. op' = [op EXCEPT ![c] = o]
    BY <2>1
  <2> HIDE DEF o
  <2>. QED BY <1>0, <2>2, <2>3 DEF Single
<1>. QED BY <1>1, <1>2, <1>3, <1>4 DEF Starts

\* The locals with other hosts or keys.
LEMMA ItemStays ==
  ASSUME NEW f, IsFrame(f), f.item = Nil, ~f.success, NEW x
  PROVE  /\ [f EXCEPT !.nodes = x].item = Nil /\ ~[f EXCEPT !.nodes = x].success
         /\ [f EXCEPT !.keys = x].item = Nil /\ ~[f EXCEPT !.keys = x].success
<1>1. [f EXCEPT !.nodes = x].item = Nil /\ [f EXCEPT !.nodes = x].success = f.success
  BY DEF IsFrame
<1>2. [f EXCEPT !.keys = x].item = Nil /\ [f EXCEPT !.keys = x].success = f.success
  BY DEF IsFrame
<1>. QED BY <1>1, <1>2

\* Locals are a frame.
LEMMA LocalFrame ==
  ASSUME NEW f \in Locals
  PROVE  IsFrame(f)
BY DEF Locals, IsFrame

\* The next host of a call.
LEMMA NextPlain ==
  ASSUME CallInv, NEW c \in Clients, HoldsOwn(c), pc[c] \in {"write", "mget", "scan"},
         NEW where \in {"write", "mget", "list"}, NextNode(c, where)
  PROVE  PlainGo(c)
<1>1. frame[c] \in Locals /\ frame[c].item = Nil /\ ~frame[c].success
  BY CallFacts, TypedFields, Outside DEF MidMove
<1>2. frame[c].nodes # <<>> /\ frame[c].nodes \in Seq(Servers)
  BY <1>1, CallFacts, LocalFields DEF CallIs
<1>3. Tail(frame[c].nodes) \in Seq(Servers)
  BY <1>2, FirstNode
<1> DEFINE f == [frame[c] EXCEPT !.nodes = Tail(frame[c].nodes)]
<1>4. f.item = Nil /\ ~f.success
  <2> DEFINE x == Tail(frame[c].nodes)
  <2>1. IsFrame(frame[c])
    BY <1>1, LocalFrame
  <2> HIDE DEF x
  <2>. QED BY <1>1, <2>1, ItemStays DEF x
<1>5. Go(c, "return", NoFrame) \/ Go(c, where, f)
  BY DEF NextNode
<1> HIDE DEF f
<1>6. "return" \notin MidMove /\ where \notin MidMove
  BY DEF MidMove
<1>. QED BY <1>4, <1>5, <1>6, StartLocals DEF PlainGo

\* The locals of a process that starts to move a key.
LEMMA MovingLocals ==
  ASSUME CallInv, NEW c \in Clients, NEW k, NEW from, NEW to
  PROVE  /\ Moving(frame[c], k, from, to).item = Nil /\ ~Moving(frame[c], k, from, to).success
         /\ \A x : LET g == [Moving(frame[c], k, from, to) EXCEPT !.keys = x] IN g.item = Nil /\ ~g.success
<1> DEFINE g0 == frame[c]
           g1 == [g0 EXCEPT !.key = k]
           g2 == [g1 EXCEPT !.from = from]
           g3 == [g2 EXCEPT !.to = to]
           g4 == [g3 EXCEPT !.ttl = -1]
           g5 == [g4 EXCEPT !.item = Nil]
           g6 == [g5 EXCEPT !.success = FALSE]
<1>1. IsFrame(g0)
  BY CallFacts, TypedFields, LocalFrame
<1> HIDE DEF g0
<1>2. IsFrame(g1)
  BY <1>1, Assigned
<1> HIDE DEF g1
<1>3. IsFrame(g2)
  BY <1>2, Assigned
<1> HIDE DEF g2
<1>4. IsFrame(g3)
  BY <1>3, Assigned
<1> HIDE DEF g3
<1>5. IsFrame(g4)
  BY <1>4, Assigned
<1> HIDE DEF g4
<1>6. IsFrame(g5) /\ g5.item = Nil
  <2>1. g5.item = Nil
    BY <1>5 DEF IsFrame
  <2>. QED BY <1>5, <2>1, Assigned
<1> HIDE DEF g5
<1>7. IsFrame(g6) /\ g6.item = Nil /\ ~g6.success
  <2>1. g6.item = Nil /\ g6.success = FALSE
    BY <1>6 DEF IsFrame
  <2>. QED BY <1>6, <2>1, Assigned
<1>8. Moving(frame[c], k, from, to) = g6
  BY DEF Moving, g0, g1, g2, g3, g4, g5
<1> HIDE DEF g6
<1>9. ASSUME NEW x PROVE [g6 EXCEPT !.keys = x].item = Nil /\ ~[g6 EXCEPT !.keys = x].success
  BY <1>7, ItemStays
<1>10. \A x : LET g == [Moving(frame[c], k, from, to) EXCEPT !.keys = x] IN g.item = Nil /\ ~g.success
  BY <1>8, <1>9
<1>. QED BY <1>7, <1>8, <1>10

\* Steps of a call outside a move.
LEMMA StepsPlain ==
  ASSUME CallInv, NEW c \in Clients, HoldsOwn(c),
         Forward(c) \/ Write(c) \/ Read(c) \/ ReadPrev(c) \/ Mget(c) \/ List(c) \/ Scan(c) \/ Return(c)
           \/ MoveExec(c) \/ Lose(c)
  PROVE  PlainGo(c)
<1>0. /\ "return" \notin MidMove /\ "readPrev" \notin MidMove /\ "type" \notin MidMove /\ "scan" \notin MidMove
      /\ "idle" \notin MidMove
  BY DEF MidMove
<1> DEFINE f == frame[c]
<1>1. CASE Forward(c) \/ Return(c) \/ Lose(c)
  <2>1. Go(c, "return", NoFrame) \/ Go(c, "idle", NoFrame)
    BY <1>1 DEF Forward, Return, Lose
  <2>. QED BY <1>0, <2>1, StartLocals DEF PlainGo
<1>2. CASE Write(c)
  <2>1. Go(c, "return", NoFrame) \/ (pc[c] = "write" /\ NextNode(c, "write"))
    BY <1>2 DEF Write
  <2>. QED BY <1>0, <2>1, StartLocals, NextPlain DEF PlainGo
<1>3. CASE Mget(c)
  <2>1. Go(c, "return", NoFrame) \/ (pc[c] = "mget" /\ NextNode(c, "mget"))
    BY <1>3 DEF Mget
  <2>. QED BY <1>0, <2>1, StartLocals, NextPlain DEF PlainGo
<1>4. CASE Read(c)
  <2>1. pc[c] = "read" /\ (Go(c, "return", NoFrame) \/ Go(c, "readPrev", f))
    BY <1>4 DEF Read
  <2>2. f.item = Nil /\ ~f.success
    BY <2>1, Outside DEF MidMove
  <2>. QED BY <1>0, <2>1, <2>2, StartLocals DEF PlainGo
<1>5. CASE ReadPrev(c)
  <2> DEFINE k == op[c].keys[1]  g == Moving(f, k, Prev(PrevOf(k)), Ring(HomeOf(k)))
  <2>1. Go(c, "return", NoFrame) \/ Go(c, "type", g)
    BY <1>5 DEF ReadPrev
  <2>2. g.item = Nil /\ ~g.success
    BY MovingLocals
  <2> HIDE DEF g
  <2>. QED BY <1>0, <2>1, <2>2, StartLocals DEF PlainGo
<1>6. CASE List(c)
  <2> DEFINE ks == IF Index THEN db[HostOf(c)].index ELSE {k \in Keys : db[HostOf(c)].data[k] # Nil}
             g == [f EXCEPT !.keys = ks]
  <2>1. pc[c] = "list" /\ Go(c, "scan", g)
    BY <1>6 DEF List
  <2>2. f.item = Nil /\ ~f.success /\ f \in Locals
    BY <2>1, Outside, CallFacts, TypedFields DEF MidMove
  <2>3. ks \in SUBSET Keys
    <3>1. HostOf(c) \in Servers
      BY <2>1, CallFacts, ServedTyped DEF Busy, Steps
    <3>2. db[HostOf(c)] \in Server
      BY <3>1, CallFacts, TypedFields
    <3>. QED BY <3>2 DEF Server
  <2> HIDE DEF ks, f
  <2>4. g.item = Nil /\ ~g.success
    <3>1. IsFrame(f)
      BY <2>2, LocalFrame
    <3>. QED BY <2>2, <3>1, ItemStays
  <2> HIDE DEF g
  <2>. QED BY <1>0, <2>1, <2>4 DEF PlainGo
<1>7. CASE Scan(c)
  <2>1. pc[c] = "scan" /\ \/ \E k \in f.keys :
                              IF HomeOf(k) = Head(f.nodes) THEN Go(c, "scan", [f EXCEPT !.keys = @ \ {k}])
                              ELSE Go(c, "type", [Moving(f, k, Prev(Head(f.nodes)), Ring(HomeOf(k)))
                                                   EXCEPT !.keys = @ \ {k}])
                          \/ NextNode(c, "list")
    BY <1>7 DEF Scan
  <2>2. f.item = Nil /\ ~f.success /\ f \in Locals
    BY <2>1, Outside, CallFacts, TypedFields DEF MidMove
  <2>3. ASSUME NEW k \in f.keys, Go(c, "scan", [f EXCEPT !.keys = @ \ {k}]) PROVE PlainGo(c)
    <3> DEFINE ks == f.keys \ {k}  g == [f EXCEPT !.keys = ks]
    <3>1. ks \in SUBSET Keys
      BY <2>2, LocalFields
    <3>2. Go(c, "scan", g)
      BY <2>3
    <3> HIDE DEF ks, f
    <3>3. g.item = Nil /\ ~g.success
      <4>1. IsFrame(f)
        BY <2>2, LocalFrame
      <4>. QED BY <2>2, <4>1, ItemStays
    <3> HIDE DEF g
    <3>. QED BY <1>0, <3>2, <3>3 DEF PlainGo
  <2>4. ASSUME NEW k \in f.keys, Go(c, "type", [Moving(f, k, Prev(Head(f.nodes)), Ring(HomeOf(k)))
                                                   EXCEPT !.keys = @ \ {k}]) PROVE PlainGo(c)
    <3> DEFINE m == Moving(f, k, Prev(Head(f.nodes)), Ring(HomeOf(k)))  g == [m EXCEPT !.keys = m.keys \ {k}]
    <3>1. g.item = Nil /\ ~g.success
      BY MovingLocals
    <3>2. Go(c, "type", g)
      BY <2>4
    <3> HIDE DEF g
    <3>. QED BY <1>0, <3>1, <3>2 DEF PlainGo
  <2>5. CASE NextNode(c, "list")
    BY <2>1, <2>5, NextPlain
  <2>. QED BY <2>1, <2>3, <2>4, <2>5
<1>8. CASE MoveExec(c)
  <2> DEFINE w == IF op[c].m = "_rehash" THEN "scan" ELSE "return"  g == Moving(f, None, None, None)
  <2>1. Go(c, w, g)
    BY <1>8 DEF MoveExec, MoveStep
  <2>2. w \notin MidMove
    BY <1>0
  <2>3. g.item = Nil /\ ~g.success
    BY MovingLocals
  <2> HIDE DEF w, g
  <2>. QED BY <2>1, <2>2, <2>3 DEF PlainGo
<1>. QED BY <1>1, <1>2, <1>3, <1>4, <1>5, <1>6, <1>7, <1>8

\* A request that is answered.
LEMMA AskKeeps ==
  ASSUME CallInv, Held, NEW c \in Clients, pc[c] \in Busy, Ask(c)
  PROVE  /\ Owned' /\ InPlace' /\ Fades /\ \A d \in Clients : d # c => conn'[d] = conn[d]
         /\ Request(c)[1] \in Connections /\ conn[c] \in [Connections -> Connection]
         /\ conn'[c] = [conn[c] EXCEPT ![Request(c)[1]] = Answered(c)]
<1> DEFINE X == Executes(c)
<1>1. Serve(HostOf(c), X) /\ X \in {Executes(c), <<>>}
  BY DEF Ask
<1> HIDE DEF X
<1>2. Owned' /\ InPlace' /\ Fades
  BY <1>1, PlacesKeep, ServesFade DEF Held
<1>. QED BY <1>2, AskServes, CallFacts, TypedFields

\* A call starts.
LEMMA StartsHold ==
  ASSUME CallInv, Held, NEW c \in Clients, Starts(c)
  PROVE  Held'
<1>1. PlainGo(c) /\ UNCHANGED <<db, conn>> /\ pc[c] = "idle"
  BY StartsPlain
<1>2. PICK w, f : Go(c, w, f) /\ w \notin MidMove /\ f.item = Nil /\ ~f.success
  BY <1>1 DEF PlainGo
<1>3. Owned' /\ InPlace' /\ Fades
  BY <1>1, StillPlaces DEF Held
<1>4. Single(op'[c]) /\ \A d \in Clients : d # c => conn'[d] = conn[d] /\ op'[d] = op[d]
  BY <1>1, StartsSingle
<1>5. \A cn \in Connections : AsksForUser(conn'[c][cn].queue)
  BY <1>1, Outside DEF MidMove, Held
<1>. QED BY <1>2, <1>3, <1>4, <1>5, HeldPlain

\* Steps that send nothing.
LEMMA ThinksHold ==
  ASSUME CallInv, Held, NEW c \in Clients, Scan(c) \/ Return(c)
  PROVE  Held'
<1>1. /\ UNCHANGED <<db, conn>> /\ pc[c] \in {"scan", "return"}
      /\ op' = op \/ op' = [op EXCEPT ![c] = NoOp]
  BY DEF Scan, Return, Quiet
<1>2. HoldsOwn(c) /\ PlainGo(c)
  BY StepsPlain DEF Held
<1>3. PICK w, f : Go(c, w, f) /\ w \notin MidMove /\ f.item = Nil /\ ~f.success
  BY <1>2 DEF PlainGo
<1>4. Owned' /\ InPlace' /\ Fades
  BY <1>1, StillPlaces DEF Held
<1>5. Single(op'[c]) /\ \A d \in Clients : d # c => conn'[d] = conn[d] /\ op'[d] = op[d]
  <2>1. op \in [Clients -> Op] /\ Single(NoOp) /\ Single(op[c])
    BY <1>2, CallFacts DEF Typed, NoOp, Single, HoldsOwn
  <2>. QED BY <1>1, <2>1
<1>6. \A cn \in Connections : AsksForUser(conn'[c][cn].queue)
  BY <1>1, <1>2, Outside DEF MidMove
<1>. QED BY <1>3, <1>4, <1>5, <1>6, HeldPlain

\* Steps that look at the servers, or write to one.
LEMMA LooksHold ==
  ASSUME CallInv, Held, NEW c \in Clients, Write(c) \/ Read(c) \/ ReadPrev(c) \/ Mget(c) \/ List(c)
  PROVE  Held'
<1>1. /\ Ask(c) /\ pc[c] \in {"write", "mget", "read", "readPrev", "list"} /\ op' = op
  BY DEF Write, Read, ReadPrev, Mget, List, Quiet
<1>2. conn' = conn /\ pc[c] \in Busy
  BY <1>1, Untouched DEF Busy, Steps
<1>3. HoldsOwn(c) /\ PlainGo(c)
  BY StepsPlain DEF Held
<1>4. PICK w, f : Go(c, w, f) /\ w \notin MidMove /\ f.item = Nil /\ ~f.success
  BY <1>3 DEF PlainGo
<1>5. Owned' /\ InPlace' /\ Fades
  BY <1>1, <1>2, AskKeeps
<1>6. Single(op'[c]) /\ \A d \in Clients : d # c => conn'[d] = conn[d] /\ op'[d] = op[d]
  BY <1>1, <1>2, <1>3 DEF HoldsOwn
<1>7. \A cn \in Connections : AsksForUser(conn'[c][cn].queue)
  BY <1>1, <1>2, <1>3, Outside DEF MidMove
<1>. QED BY <1>4, <1>5, <1>6, <1>7, HeldPlain

\* What goes to the connection of the application's transaction is the application's.
LEMMA ForwardHolds ==
  ASSUME CallInv, Held, NEW c \in Clients, Forward(c)
  PROVE  Held'
<1>1. Ask(c) /\ pc[c] \in {"forward", "multi", "exec", "discard"} /\ op' = op
  BY DEF Forward
<1>2. pc[c] \in Busy /\ pc[c] \notin MidMove
  BY <1>1 DEF Busy, Steps, MidMove
<1>3. HoldsOwn(c) /\ PlainGo(c)
  BY StepsPlain DEF Held
<1>4. PICK w, f : Go(c, w, f) /\ w \notin MidMove /\ f.item = Nil /\ ~f.success
  BY <1>3 DEF PlainGo
<1> DEFINE r == Request(c)[1]
<1>5. /\ Owned' /\ InPlace' /\ Fades /\ \A d \in Clients : d # c => conn'[d] = conn[d]
      /\ r \in Connections /\ conn[c] \in [Connections -> Connection]
      /\ conn'[c] = [conn[c] EXCEPT ![r] = Answered(c)]
  BY <1>1, <1>2, AskKeeps
<1>6. Single(op'[c]) /\ \A d \in Clients : d # c => op'[d] = op[d]
  BY <1>1, <1>3 DEF HoldsOwn
<1>7. \A cn \in Connections : AsksForUser(conn[c][cn].queue)
  BY <1>2, <1>3, Outside
<1>8. Of(c) = conn[c][r] /\ Of(c) \in Connection
  BY <1>2, CallFacts, ServedTyped
<1>9. AsksForUser(Answered(c).queue)
  <2>1. CASE pc[c] = "multi"
    <3>1. Answered(c) = [Of(c) EXCEPT !.tx = TRUE]
      BY <2>1, AnsweredIs
    <3>2. Answered(c).queue = Of(c).queue
      BY <1>8, <3>1, ConnectionFields
    <3>. QED BY <1>5, <1>7, <1>8, <3>2
  <2>2. CASE pc[c] \in {"exec", "discard"}
    <3>1. Answered(c) = Atomic
      BY <2>2, AnsweredIs
    <3>2. Answered(c).queue = <<>>
      BY <3>1 DEF Atomic
    <3>. QED BY <3>2 DEF AsksForUser
  <2>3. CASE pc[c] = "forward"
    <3> DEFINE q == Of(c).queue
    <3>1. q \in Seq(Command) /\ AsksForUser(q)
      BY <1>5, <1>7, <1>8, ConnectionFields
    <3>2. PICK x \in Command : x.user /\ x.name \in UserNames /\ Sound(x) /\ Asked(c) = <<x>>
      BY <1>3, <2>3, AskedSound DEF HoldsOwn
    <3> DEFINE a == Append(q, x)
    <3>3. q \o Asked(c) = a
      BY <3>1, <3>2, Joined
    <3>4. a \in Seq(Command)
      BY <3>1, <3>2
    <3>5. Answered(c).queue = IF Of(c).tx THEN a ELSE q
      <4>1. Answered(c) = IF Of(c).tx THEN [Of(c) EXCEPT !.queue = q \o Asked(c)] ELSE Of(c)
        BY <2>3, AnsweredIs
      <4> HIDE DEF a
      <4>2. [Of(c) EXCEPT !.queue = a].queue = a
        BY <1>8, <3>4, ConnectionFields
      <4>. QED BY <3>3, <4>1, <4>2
    <3>6. AsksForUser(a)
      <4>1. ASSUME NEW i \in 1 .. Len(a) PROVE a[i].user /\ a[i].name \in UserNames /\ Sound(a[i])
        <5> HIDE DEF q
        <5>1. Len(a) = Len(q) + 1 /\ (i <= Len(q) => a[i] = q[i]) /\ (i = Len(q) + 1 => a[i] = x)
          BY <3>1, <3>2
        <5> HIDE DEF a
        <5>2. CASE i <= Len(q)
          <6>1. i \in 1 .. Len(q) /\ a[i] = q[i]
            BY <3>1, <5>1, <5>2
          <6>. QED BY <3>1, <6>1 DEF AsksForUser
        <5>3. CASE i = Len(q) + 1
          <6>1. a[i] = x /\ x.user /\ x.name \in UserNames /\ Sound(x)
            BY <3>2, <5>1, <5>3
          <6>. QED BY <6>1
        <5>4. i <= Len(q) \/ i = Len(q) + 1
          BY <3>1, <5>1
        <5>. QED BY <5>2, <5>3, <5>4
      <4> HIDE DEF a
      <4>. QED BY <4>1 DEF AsksForUser
    <3>. QED BY <3>1, <3>5, <3>6
  <2>. QED BY <1>1, <2>1, <2>2, <2>3
<1>10. \A cn \in Connections : AsksForUser(conn'[c][cn].queue)
  <2> SUFFICES ASSUME NEW cn \in Connections PROVE AsksForUser(conn'[c][cn].queue)
    OBVIOUS
  <2> HIDE DEF r
  <2>1. conn'[c][cn] = IF cn = r THEN Answered(c) ELSE conn[c][cn]
    BY <1>5
  <2>. QED BY <1>7, <1>9, <2>1
<1>. QED BY <1>4, <1>5, <1>6, <1>10, HeldPlain

\* A step of a move that tears nothing.
LEMMA MoveTearsNot ==
  ASSUME NEW c \in Clients, NEW here, NEW w, NEW f, MoveStep(c, here, w, f), torn' = {}
  PROVE  Moved(c) = {} /\ Crossed(c) = {}
BY DEF MoveStep, Tear

\* A key that is found at the source of its move is at its host of the previous ring.
LEMMA SourcePlace ==
  ASSUME CallInv, InPlace, NEW c \in Clients, pc[c] \in {"type", "fetch", "delKey"},
         At(HostOf(c), frame[c].key) # Nil
  PROVE  frame[c].from = Prev(PrevOf(frame[c].key)) /\ HostOf(c) = PrevOf(frame[c].key)
<1> DEFINE k == frame[c].key  o == op[c]
<1>1. Typed /\ CallIs(pc[c], o, frame[c], multi[c]) /\ Goes(c)
  BY CallFacts, RequestGoes
<1>2. /\ k \in Keys /\ \/ o.m = "get" /\ frame[c].from = Prev(PrevOf(k))
                       \/ o.m = "_rehash" /\ frame[c].from = Prev(Head(frame[c].nodes))
                            /\ HomeOf(k) # Head(frame[c].nodes)
  BY <1>1 DEF CallIs, Moves
<1>3. Request(c)[1] = frame[c].from /\ HostOf(c) \in Servers
  BY <1>1, ServedTyped DEF Goes, Busy, Steps
<1>4. \A h : Prev(h)[2] = h
  BY ConnectionsApart
<1>5. HostOf(c) = HomeOf(k) \/ HostOf(c) = PrevOf(k)
  BY <1>2, <1>3 DEF InPlace
<1> HIDE DEF k, o
<1>6. CASE o.m = "get" /\ frame[c].from = Prev(PrevOf(k))
  BY <1>3, <1>4, <1>6 DEF HostOf, k
<1>7. CASE frame[c].from = Prev(Head(frame[c].nodes)) /\ HomeOf(k) # Head(frame[c].nodes)
  <2>1. HostOf(c) = Head(frame[c].nodes)
    BY <1>3, <1>4, <1>7 DEF HostOf
  <2>. QED BY <1>5, <1>7, <2>1 DEF k
<1>. QED BY <1>2, <1>6, <1>7 DEF k

\* What the source says.
LEMMA FetchedHere ==
  ASSUME CallInv, Owned, InPlace, NEW c \in Clients, pc[c] \in {"type", "fetch"}
  PROVE  /\ frame[c].key \in Keys /\ Fetched(c) = At(HostOf(c), frame[c].key) /\ Fetched(c) \in Value
         /\ Own(frame[c].key, Fetched(c)) /\ Fetched(c).ttl \in {-1, 0, 1}
         /\ Fetched(c) # Nil => frame[c].from = Prev(PrevOf(frame[c].key))
<1>1. frame[c].key \in Keys /\ Fetched(c) = At(HostOf(c), frame[c].key) /\ Fetched(c) \in Value
  BY FetchedIs
<1>2. HostOf(c) \in Servers
  BY CallFacts, ServedTyped DEF Busy, Steps
<1>3. Own(frame[c].key, Fetched(c))
  BY <1>1, <1>2 DEF Owned
<1>. QED BY <1>1, <1>3, SourcePlace, ValueFields

\* The move asks for type and time to live.
LEMMA MoveTypeHolds ==
  ASSUME CallInv, Held, NEW c \in Clients, MoveType(c)
  PROVE  Held'
<1> DEFINE g == frame[c]  x == Fetched(c)  f == [g EXCEPT !.ttl = x.ttl, !.item = x]  w == "moveMulti"
<1>1. MoveStep(c, "type", w, f)
  BY DEF MoveType
<1>2. "type" \in Moves
  BY DEF Moves
<1> HIDE DEF w, f
<1>3. /\ pc[c] = "type" /\ Ask(c) /\ Go(c, w, f) /\ op'[c] = op[c] /\ \A d \in Clients : d # c => op'[d] = op[d]
      /\ g \in Locals /\ pc[c] \in Busy
  BY <1>1, <1>2, MoveStepIs
<1>4. HoldsOwn(c) /\ ~g.success /\ \A cn \in Connections : AsksForUser(conn[c][cn].queue)
  BY <1>3, Outside DEF Held, MidMove
<1>5. /\ g.key \in Keys /\ x \in Value /\ Own(g.key, x) /\ x.ttl \in {-1, 0, 1}
      /\ x # Nil => g.from = Prev(PrevOf(g.key))
  BY <1>3, FetchedHere DEF Held
<1>6. f.item = x /\ f.ttl = x.ttl /\ f.key = g.key /\ f.from = g.from /\ f.success = g.success
  <2> DEFINE t == x.ttl
  <2>1. \A s \in {-1, 0, 1}, y \in Value : Fields([g EXCEPT !.ttl = s, !.item = y],
          g.nodes, g.keys, g.key, g.from, g.to, s, y, g.success)
    BY <1>3, LocalSteps
  <2> HIDE DEF x
  <2>2. Fields([g EXCEPT !.ttl = t, !.item = x], g.nodes, g.keys, g.key, g.from, g.to, t, x, g.success)
    BY <1>5, <2>1
  <2>3. Fields(f, g.nodes, g.keys, g.key, g.from, g.to, t, x, g.success)
    BY <2>2 DEF f, x
  <2> HIDE DEF g, t
  <2>4. f.item = x /\ f.ttl = t /\ f.key = g.key /\ f.from = g.from /\ f.success = g.success
    BY <2>3 DEF Fields
  <2>. QED BY <2>4 DEF t
<1>7. Owned' /\ InPlace' /\ Fades /\ conn' = conn
  BY <1>3, AskKeeps, Untouched
<1> HIDE DEF g, x
<1>8. Holding(w, f)
  BY <1>4, <1>5, <1>6 DEF Holding, w
<1>9. Stowed(w, f, conn'[c])
  BY <1>4, <1>7 DEF Stowed, w, MidMove
<1>10. Single(op'[c]) /\ \A d \in Clients : d # c => conn'[d] = conn[d] /\ op'[d] = op[d]
  BY <1>3, <1>4, <1>7 DEF HoldsOwn
<1>11. w # "moveExec"
  BY DEF w
<1>. QED BY <1>3, <1>7, <1>8, <1>9, <1>10, <1>11, HeldMoves

\* The connection of a move to its target.
LEMMA TargetIs ==
  ASSUME CallInv, NEW c \in Clients, pc[c] \in {"moveMulti", "store", "moveExec"}
  PROVE  /\ Request(c)[1] = frame[c].to /\ frame[c].to \in Connections
         /\ Of(c) = conn[c][frame[c].to] /\ Of(c) \in Connection
         /\ pc[c] \in {"store", "moveExec"} => Of(c).tx
         /\ ~Of(c).tx => Of(c).queue = <<>>
<1>1. Typed /\ CallIs(pc[c], op[c], frame[c], multi[c]) /\ Linked(c) /\ Goes(c) /\ pc[c] \in Busy
  BY CallFacts, RequestGoes DEF Busy, Steps
<1>2. /\ Request(c)[1] = frame[c].to /\ Request(c)[1] \in Connections
      /\ Of(c) = conn[c][Request(c)[1]] /\ Of(c) \in Connection
  BY <1>1, ServedTyped DEF Goes
<1>3. pc[c] \in MidMove => conn[c][frame[c].to].tx
  BY <1>1 DEF Linked, Links
<1>4. \A cn \in Connections : ~conn[c][cn].tx => conn[c][cn].queue = <<>>
  BY <1>1 DEF Linked, Links
<1>. QED BY <1>2, <1>3, <1>4 DEF MidMove

\* The move opens MULTI at its target, on a connection that nothing else uses.
LEMMA MoveMultiHolds ==
  ASSUME CallInv, Held, torn' = {}, NEW c \in Clients, MoveMulti(c)
  PROVE  Held'
<1> DEFINE g == frame[c]  f == [g EXCEPT !.item = Nil]
           w == IF g.item = Nil \/ TypeOf[g.key] = "stream" THEN "moveExec" ELSE "fetch"
           r == g.to
<1>1. MoveStep(c, "moveMulti", w, f)
  BY DEF MoveMulti
<1>2. "moveMulti" \in Moves
  BY DEF Moves
<1>w. w \in {"moveExec", "fetch"}
  OBVIOUS
<1> HIDE DEF w, f
<1>3. /\ pc[c] = "moveMulti" /\ Ask(c) /\ Go(c, w, f) /\ op'[c] = op[c]
      /\ \A d \in Clients : d # c => op'[d] = op[d]
      /\ g \in Locals /\ pc[c] \in Busy
  BY <1>1, <1>2, MoveStepIs
<1>4. HoldsOwn(c) /\ ~g.success /\ \A cn \in Connections : AsksForUser(conn[c][cn].queue)
  BY <1>3, Outside DEF Held, MidMove
<1>5. ~Of(c).tx
  BY <1>1, <1>3, MoveTearsNot, NothingMoved
<1>6. f.item = Nil /\ f.success = g.success /\ f.to = g.to
  <2>1. \A x \in Value : Fields([g EXCEPT !.item = x],
          g.nodes, g.keys, g.key, g.from, g.to, g.ttl, x, g.success)
    BY <1>3, LocalSteps
  <2>2. Fields([g EXCEPT !.item = Nil], g.nodes, g.keys, g.key, g.from, g.to, g.ttl, Nil, g.success)
    BY <2>1, ValueFields
  <2>3. Fields(f, g.nodes, g.keys, g.key, g.from, g.to, g.ttl, Nil, g.success)
    BY <2>2 DEF f
  <2> HIDE DEF g
  <2>. QED BY <2>3 DEF Fields
<1>7. /\ Owned' /\ InPlace' /\ Fades /\ \A d \in Clients : d # c => conn'[d] = conn[d]
      /\ conn[c] \in [Connections -> Connection]
      /\ conn'[c] = [conn[c] EXCEPT ![Request(c)[1]] = Answered(c)]
  BY <1>3, AskKeeps
<1>8. Request(c)[1] = r /\ r \in Connections /\ Of(c) \in Connection /\ Of(c).queue = <<>>
  BY <1>3, <1>5, TargetIs
<1>9. Answered(c).queue = <<>>
  <2>1. Answered(c) = [Of(c) EXCEPT !.tx = TRUE]
    BY <1>3, AnsweredIs
  <2>2. [Of(c) EXCEPT !.tx = TRUE].queue = Of(c).queue
    BY <1>8, ConnectionFields
  <2>. QED BY <1>8, <2>1, <2>2
<1> HIDE DEF g, r
<1>10. \A cn \in Connections : conn'[c][cn] = IF cn = r THEN Answered(c) ELSE conn[c][cn]
  BY <1>7, <1>8
<1>11. Holding(w, f)
  BY <1>4, <1>6 DEF Holding
<1>12. Stored(w, f) = <<>>
  BY <1>4, <1>6 DEF Stored
<1>13. Stowed(w, f, conn'[c])
  <2>1. w \in MidMove /\ f.to = r
    BY <1>w, <1>6 DEF MidMove, r
  <2>. QED BY <1>4, <1>9, <1>10, <1>12, <2>1 DEF Stowed
<1>14. Single(op'[c]) /\ \A d \in Clients : d # c => conn'[d] = conn[d] /\ op'[d] = op[d]
  BY <1>3, <1>4, <1>7 DEF HoldsOwn
<1>. QED BY <1>3, <1>6, <1>7, <1>11, <1>13, <1>14, HeldMoves

\* The move reads the value.
LEMMA MoveFetchHolds ==
  ASSUME CallInv, Held, torn' = {}, NEW c \in Clients, MoveFetch(c)
  PROVE  Held'
<1> DEFINE g == frame[c]  x == Fetched(c)
           gone == x = Nil /\ TypeOf[g.key] = "string"
           f == [g EXCEPT !.item = x, !.success = ~gone]  w == IF gone THEN "moveExec" ELSE "store"
<1>1. MoveStep(c, "fetch", w, f)
  BY DEF MoveFetch
<1>2. "fetch" \in Moves
  BY DEF Moves
<1>w. w \in {"moveExec", "store"} /\ (w = "store" <=> ~gone) /\ gone \in BOOLEAN
  OBVIOUS
<1>g. gone <=> x = Nil /\ TypeOf[g.key] = "string"
  OBVIOUS
<1> HIDE DEF w, f, gone
<1>3. /\ pc[c] = "fetch" /\ Ask(c) /\ Go(c, w, f) /\ op'[c] = op[c] /\ \A d \in Clients : d # c => op'[d] = op[d]
      /\ g \in Locals /\ pc[c] \in Busy
  BY <1>1, <1>2, MoveStepIs
<1>4. HoldsOwn(c)
  BY DEF Held
<1>5. /\ g.key \in Keys /\ x \in Value /\ Own(g.key, x) /\ x.ttl \in {-1, 0, 1}
      /\ x # Nil => g.from = Prev(PrevOf(g.key))
  BY <1>3, FetchedHere DEF Held
<1>5a. x # Nil => x.ttl = g.ttl
  BY <1>1, <1>3, MoveTearsNot, NothingMoved
<1>6. f.item = x /\ f.ttl = g.ttl /\ f.key = g.key /\ f.from = g.from /\ f.to = g.to /\ f.success = ~gone
  <2>1. \A y \in Value, s \in BOOLEAN : Fields([g EXCEPT !.item = y, !.success = s],
          g.nodes, g.keys, g.key, g.from, g.to, g.ttl, y, s)
    BY <1>3, LocalSteps
  <2> HIDE DEF x
  <2> DEFINE s == ~gone
  <2>2. Fields([g EXCEPT !.item = x, !.success = s], g.nodes, g.keys, g.key, g.from, g.to, g.ttl, x, s)
    BY <1>w, <1>5, <2>1
  <2>3. Fields(f, g.nodes, g.keys, g.key, g.from, g.to, g.ttl, x, s)
    BY <2>2 DEF f, x
  <2> HIDE DEF g, s
  <2>4. f.item = x /\ f.ttl = g.ttl /\ f.key = g.key /\ f.from = g.from /\ f.to = g.to /\ f.success = s
    BY <2>3 DEF Fields
  <2>. QED BY <2>4 DEF s
<1>7. Owned' /\ InPlace' /\ Fades /\ conn' = conn
  BY <1>3, AskKeeps, Untouched
<1>8. Stowed("fetch", g, conn[c]) /\ Stored("fetch", g) = <<>> /\ Single(op[c])
  BY <1>3, <1>4 DEF HoldsOwn, Stored
<1> HIDE DEF g, x
<1>9. Holding(w, f)
  BY <1>w, <1>g, <1>5, <1>5a, <1>6 DEF Holding
<1>10. Stored(w, f) = <<>>
  BY <1>w, <1>6 DEF Stored
<1>11. Stowed(w, f, conn'[c])
  <2>1. w \in MidMove /\ "fetch" \in MidMove
    BY <1>w DEF MidMove
  <2>. QED BY <1>6, <1>7, <1>8, <1>10, <2>1 DEF Stowed
<1>12. Single(op'[c]) /\ \A d \in Clients : d # c => conn'[d] = conn[d] /\ op'[d] = op[d]
  BY <1>3, <1>7, <1>8
<1>13. w = "moveExec" => f.item = Nil
  BY <1>w, <1>g, <1>6
<1>. QED BY <1>3, <1>7, <1>9, <1>11, <1>12, <1>13, HeldMoves

\* The move writes the value.
LEMMA MoveStoreHolds ==
  ASSUME CallInv, Held, torn' = {}, NEW c \in Clients, MoveStore(c)
  PROVE  Held'
<1> DEFINE f == frame[c]  w == "delKey"  r == f.to
<1>1. MoveStep(c, "store", w, f)
  BY DEF MoveStore
<1>2. "store" \in Moves
  BY DEF Moves
<1>3. /\ pc[c] = "store" /\ Ask(c) /\ Go(c, w, f) /\ op'[c] = op[c] /\ \A d \in Clients : d # c => op'[d] = op[d]
      /\ f \in Locals /\ pc[c] \in Busy
  BY <1>1, <1>2, MoveStepIs
<1>4. HoldsOwn(c)
  BY DEF Held
<1>5. Holding("store", f) /\ Stowed("store", f, conn[c]) /\ Single(op[c]) /\ Stored("store", f) = <<>>
  BY <1>3, <1>4 DEF HoldsOwn, Stored
<1>6. f.ttl # 0
  BY <1>1, <1>3, MoveTearsNot, NothingMoved
<1>7. f.success /\ f.key \in Keys
  BY <1>3, CallFacts DEF CallIs, Moves
<1>8. /\ Owned' /\ InPlace' /\ Fades /\ \A d \in Clients : d # c => conn'[d] = conn[d]
      /\ conn[c] \in [Connections -> Connection]
      /\ conn'[c] = [conn[c] EXCEPT ![Request(c)[1]] = Answered(c)]
  BY <1>3, AskKeeps
<1>9. Request(c)[1] = r /\ r \in Connections /\ Of(c) = conn[c][r] /\ Of(c) \in Connection /\ Of(c).tx
  BY <1>3, TargetIs
<1>10. Answered(c).queue = StoreCommands(f)
  <2> DEFINE q == StoreCommands(f)  e == Of(c).queue
  <2>0. q \in Seq(Command)
    BY <1>3, <1>7, StoreCommandsType DEF StoringOf
  <2>1. e = <<>>
    BY <1>5, <1>9 DEF Stowed, MidMove
  <2>2. Answered(c) = [Of(c) EXCEPT !.queue = e \o Asked(c)]
    BY <1>3, <1>9, AnsweredIs
  <2>3. Asked(c) = q
    BY <1>3, RequestParts
  <2> HIDE DEF q
  <2>4. e \o Asked(c) = q
    BY <2>0, <2>1, <2>3, Joined
  <2>5. [Of(c) EXCEPT !.queue = q].queue = q
    BY <1>9, <2>0, ConnectionFields
  <2>. QED BY <2>2, <2>4, <2>5 DEF q
<1> HIDE DEF f, r
<1>11. \A cn \in Connections : conn'[c][cn] = IF cn = r THEN Answered(c) ELSE conn[c][cn]
  BY <1>8, <1>9
<1>12. Holding(w, f)
  BY <1>5, <1>6, <1>7 DEF Holding
<1>13. Stored(w, f) = StoreCommands(f)
  BY <1>7 DEF Stored
<1>14. Stowed(w, f, conn'[c])
  <2>1. w \in MidMove /\ "store" \in MidMove
    BY DEF MidMove
  <2>. QED BY <1>5, <1>10, <1>11, <1>13, <2>1 DEF Stowed, r
<1>15. Single(op'[c]) /\ \A d \in Clients : d # c => conn'[d] = conn[d] /\ op'[d] = op[d]
  BY <1>3, <1>5, <1>8
<1>16. w # "moveExec"
  OBVIOUS
<1> HIDE DEF w
<1>. QED BY <1>3, <1>8, <1>12, <1>14, <1>15, <1>16, HeldMoves

\* The move deletes the key at its source.
LEMMA MoveDeleteHolds ==
  ASSUME CallInv, Held, torn' = {}, NEW c \in Clients, MoveDelete(c)
  PROVE  Held'
<1> DEFINE w == "moveExec"
<1>0. PICK f : f = frame[c]
  OBVIOUS
<1>1. MoveStep(c, "delKey", w, f)
  BY <1>0 DEF MoveDelete
<1>2. "delKey" \in Moves
  BY DEF Moves
<1>3. /\ pc[c] = "delKey" /\ Ask(c) /\ Go(c, w, f) /\ op'[c] = op[c] /\ \A d \in Clients : d # c => op'[d] = op[d]
      /\ f \in Locals /\ pc[c] \in Busy
  BY <1>0, <1>1, <1>2, MoveStepIs
<1>4. HoldsOwn(c)
  BY DEF Held
<1>5. Holding("delKey", f) /\ Stowed("delKey", f, conn[c]) /\ Single(op[c]) /\ Stored("delKey", f) = Stored(w, f)
  BY <1>0, <1>3, <1>4 DEF HoldsOwn, Stored
<1>6. f.item # Nil => \A d \in Clients : Carrying(d, f.key) => frame[d].item = f.item
  BY <1>0, <1>1, <1>3, MoveTearsNot, NothingMoved
<1>7. f.key \in Keys /\ PrevHosts # <<>> /\ Goes(c)
  BY <1>0, <1>3, CallFacts, RequestGoes DEF CallIs, Moves
<1>8. Owned' /\ InPlace' /\ Fades /\ conn' = conn
  BY <1>3, AskKeeps, Untouched
<1>9. f.item # Nil => Before(f.key)' = Nil
  <2> SUFFICES ASSUME f.item # Nil PROVE Before(f.key)' = Nil
    OBVIOUS
  <2>1. HostOf(c) = PrevOf(f.key)
    <3>1. f.from = Prev(PrevOf(f.key))
      BY <1>5 DEF Holding
    <3>2. Request(c)[1] = f.from
      BY <1>0, <1>3, <1>7 DEF Goes
    <3>. QED BY <3>1, <3>2, ConnectionsApart DEF HostOf
  <2>2. db'[HostOf(c)] = RunAll(db[HostOf(c)], Executes(c))
    BY <1>3, AskServes
  <2>3. RunAll(db[HostOf(c)], Executes(c)).data[f.key] = Nil
    BY <1>0, <1>3, DelKeyTakes
  <2>. QED BY <1>7, <2>1, <2>2, <2>3 DEF Before, At
<1>10. Holding(w, f)
  BY <1>5 DEF Holding
<1>11. Stowed(w, f, conn'[c])
  <2>1. w \in MidMove /\ "delKey" \in MidMove
    BY DEF MidMove
  <2>. QED BY <1>5, <1>8, <2>1 DEF Stowed
<1>12. Single(op'[c]) /\ \A d \in Clients : d # c => conn'[d] = conn[d] /\ op'[d] = op[d]
  BY <1>3, <1>5, <1>8
<1> HIDE DEF w
<1>. QED BY <1>3, <1>6, <1>8, <1>9, <1>10, <1>11, <1>12, HeldMoves

\* The move ends with EXEC at its target.
LEMMA MoveExecHolds ==
  ASSUME CallInv, Held, NEW c \in Clients, MoveExec(c)
  PROVE  Held'
<1> DEFINE g == frame[c]  r == g.to  u == IF op[c].m = "_rehash" THEN "scan" ELSE "return"
           f0 == Moving(g, None, None, None)
<1>1. MoveStep(c, "moveExec", u, f0)
  BY DEF MoveExec
<1>2. "moveExec" \in Moves
  BY DEF Moves
<1> HIDE DEF u, f0
<1>3. /\ pc[c] = "moveExec" /\ Ask(c) /\ op'[c] = op[c] /\ \A d \in Clients : d # c => op'[d] = op[d]
      /\ g \in Locals /\ pc[c] \in Busy
  BY <1>1, <1>2, MoveStepIs
<1>4. HoldsOwn(c) /\ PlainGo(c)
  BY StepsPlain DEF Held
<1>5. PICK w, f : Go(c, w, f) /\ w \notin MidMove /\ f.item = Nil /\ ~f.success
  BY <1>4 DEF PlainGo
<1>6. /\ Owned' /\ InPlace' /\ Fades /\ \A d \in Clients : d # c => conn'[d] = conn[d]
      /\ conn[c] \in [Connections -> Connection]
      /\ conn'[c] = [conn[c] EXCEPT ![Request(c)[1]] = Answered(c)]
  BY <1>3, AskKeeps
<1>7. Request(c)[1] = r /\ r \in Connections
  BY <1>3, TargetIs
<1>8. Answered(c).queue = <<>>
  <2>1. Answered(c) = Atomic
    BY <1>3, AnsweredIs
  <2>. QED BY <2>1 DEF Atomic
<1>9. \A cn \in Connections : cn # r => AsksForUser(conn[c][cn].queue)
  BY <1>3, <1>4 DEF HoldsOwn, Stowed, MidMove
<1>10. \A cn \in Connections : AsksForUser(conn'[c][cn].queue)
  <2> SUFFICES ASSUME NEW cn \in Connections PROVE AsksForUser(conn'[c][cn].queue)
    OBVIOUS
  <2> HIDE DEF r
  <2>1. conn'[c][cn] = IF cn = r THEN Answered(c) ELSE conn[c][cn]
    BY <1>6, <1>7
  <2>2. AsksForUser(<<>>)
    BY DEF AsksForUser
  <2>. QED BY <1>8, <1>9, <2>1, <2>2
<1>11. Single(op'[c])
  BY <1>3, <1>4 DEF HoldsOwn
<1>. QED BY <1>3, <1>5, <1>6, <1>10, <1>11, HeldPlain

\* A connection is lost.
LEMMA LoseHolds ==
  ASSUME CallInv, Held, torn' = {}, NEW c \in Clients, Lose(c)
  PROVE  Held'
<1> DEFINE g == frame[c]  r == Request(c)[1]
<1>1. /\ pc[c] \in Busy /\ conn' = [conn EXCEPT ![c][r] = Atomic]
      /\ op' = [op EXCEPT ![c] = NoOp]
      /\ \A cn \in Connections :
           conn'[c][cn].tx /\ (cn # Ring(multi'[c]) \/ (pc[c] \in MidMove /\ cn = g.to)) => torn' # {}
  BY LoseParts
<1>2. PICK cmds : cmds \in {Executes(c), <<>>} /\ Serve(HostOf(c), cmds)
  BY LoseParts
<1>3. HoldsOwn(c) /\ PlainGo(c)
  BY StepsPlain DEF Held
<1>4. PICK w, f : Go(c, w, f) /\ w \notin MidMove /\ f.item = Nil /\ ~f.success
  BY <1>3 DEF PlainGo
<1>5. Owned' /\ InPlace' /\ Fades
  BY <1>1, <1>2, <1>3, PlacesKeep, ServesFade DEF Held
<1>6. /\ Typed /\ Linked(c) /\ conn \in [Clients -> [Connections -> Connection]] /\ r \in Connections
      /\ CallIs(pc[c], op[c], g, multi[c]) /\ op \in [Clients -> Op]
  BY <1>1, CallFacts, ServedTyped DEF Typed
<1>7. /\ \A d \in Clients : d # c => conn'[d] = conn[d] /\ op'[d] = op[d]
      /\ \A cn \in Connections : conn'[c][cn] = IF cn = r THEN Atomic ELSE conn[c][cn]
      /\ op'[c] = NoOp
  <2> HIDE DEF r
  <2>. QED BY <1>1, <1>6
<1>8. Single(op'[c])
  BY <1>7 DEF Single, NoOp
<1>9. pc[c] \in MidMove => r = g.to
  <2> SUFFICES ASSUME pc[c] \in MidMove, r # g.to PROVE FALSE
    OBVIOUS
  <2>1. conn[c][g.to].tx
    BY <1>6 DEF Linked, Links
  <2>2. g.to \in Connections
    BY <1>6, Homes, ConnectionsApart DEF CallIs, MidMove, Moves
  <2>3. conn'[c][g.to].tx
    BY <1>7, <2>1, <2>2
  <2>. QED BY <1>1, <2>2, <2>3
<1>10. \A cn \in Connections : cn # r => AsksForUser(conn[c][cn].queue)
  BY <1>3, <1>9 DEF HoldsOwn, Stowed
<1>11. AsksForUser(Atomic.queue)
  BY DEF Atomic, AsksForUser
<1>12. \A cn \in Connections : AsksForUser(conn'[c][cn].queue)
  BY <1>7, <1>10, <1>11
<1>. QED BY <1>4, <1>5, <1>7, <1>8, <1>12, HeldPlain

\* What is torn stays so.
LEMMA TornGrows ==
  ASSUME [Next]_vars
  PROVE  torn \subseteq torn'
<1>1. ASSUME NEW c \in Clients, Starts(c) PROVE torn \subseteq torn'
  BY <1>1 DEF Starts, CallKeys, CallRehash, CallMulti, CallEnd, Tear
<1>2. ASSUME NEW c \in Clients, Move(c) PROVE torn \subseteq torn'
  BY <1>2 DEF Move, MoveType, MoveMulti, MoveFetch, Throw, MoveStore, MoveDelete, MoveExec, MoveStep, Tear
<1>3. ASSUME NEW c \in Clients, Step(c), ~Move(c) PROVE torn \subseteq torn'
  BY <1>3 DEF Step, Forward, Write, Read, ReadPrev, Mget, List, Scan, Return, Tear
<1>4. ASSUME NEW c \in Clients, Lose(c) PROVE torn \subseteq torn'
  BY <1>4 DEF Lose, Tear
<1>5. CASE \E h \in Servers : Fill(h)
  BY <1>5 DEF Fill
<1>6. CASE UNCHANGED vars
  BY <1>6 DEF vars
<1>. QED BY <1>1, <1>2, <1>3, <1>4, <1>5, <1>6 DEF Next, Starts

\* Every step that tears nothing keeps what the processes hold.
LEMMA HoldSteps ==
  ASSUME HoldInv, [Next]_vars
  PROVE  HoldInv'
<1>1. CallInv /\ CallInv'
  BY CallSteps DEF HoldInv
<1>2. SUFFICES ASSUME torn' = {} PROVE Held'
  BY <1>1 DEF HoldInv
<1>3. Held
  BY <1>2, TornGrows DEF HoldInv
<1>4. ASSUME NEW c \in Clients, Starts(c) PROVE Held'
  BY <1>1, <1>3, <1>4, StartsHold
<1>5. ASSUME NEW c \in Clients, Step(c) PROVE Held'
  <2>1. CASE Forward(c) \/ Write(c) \/ Read(c) \/ ReadPrev(c) \/ Mget(c) \/ List(c) \/ Scan(c) \/ Return(c)
    BY <1>1, <1>3, <2>1, ForwardHolds, LooksHold, ThinksHold
  <2>2. CASE MoveType(c) \/ MoveMulti(c) \/ MoveFetch(c) \/ MoveStore(c) \/ MoveDelete(c) \/ MoveExec(c)
    BY <1>1, <1>2, <1>3, <2>2, MoveTypeHolds, MoveMultiHolds, MoveFetchHolds, MoveStoreHolds,
       MoveDeleteHolds, MoveExecHolds
  <2>3. ~Throw(c)
    BY <1>2 DEF Throw, Tear
  <2>. QED BY <1>5, <2>1, <2>2, <2>3 DEF Step, Move
<1>6. ASSUME NEW c \in Clients, Lose(c) PROVE Held'
  BY <1>1, <1>2, <1>3, <1>6, LoseHolds
<1>7. CASE (\E h \in Servers : Fill(h)) \/ UNCHANGED vars
  <2>1. UNCHANGED <<db, conn, pc, op, frame>>
    BY <1>7 DEF Fill, vars
  <2>2. Owned' /\ InPlace'
    BY <1>3, <2>1, StillPlaces DEF Held
  <2>3. \A k : Before(k)' = Before(k)
    BY <2>1 DEF Before, At
  <2>4. Agree' /\ GoneBefore' /\ \A c \in Clients : HoldsOwn(c)'
    BY <1>3, <2>1, <2>3 DEF Held, Agree, GoneBefore, Carrying, InHand, HoldsOwn
  <2>. QED BY <2>2, <2>4 DEF Held
<1>. QED BY <1>4, <1>5, <1>6, <1>7 DEF Next, Starts

\* At first the keys are where they belong, and no process holds one.
LEMMA StartHolds ==
  ASSUME Init
  PROVE  HoldInv
<1>1. /\ pc = [c \in Clients |-> "idle"] /\ op = [c \in Clients |-> NoOp]
      /\ frame = [c \in Clients |-> NoFrame]
      /\ conn = [c \in Clients |-> [cn \in Connections |-> Atomic]]
  BY DEF Init
<1>2. ASSUME NEW h \in Servers, NEW k \in Keys, k \in KeysAtFirst(h) PROVE Own(k, At(h, k))
  <2> DEFINE v == [items |-> <<<<k, 0>>>>, ttl |-> AtFirst[k]]
  <2>1. At(h, k) = v
    BY <1>2 DEF Init, At, KeysAtFirst, WhereAtFirst
  <2>2. v.items = <<<<k, 0>>>>
    OBVIOUS
  <2> HIDE DEF v
  <2> DEFINE x == <<k, 0>>  T == {k} \X Nat
  <2>3. x \in T
    OBVIOUS
  <2>4. v.items = <<x>>
    BY <2>2
  <2> HIDE DEF x, T
  <2>5. v.items # <<>> /\ v.items \in Seq(T)
    BY <2>3, <2>4, Pairs
  <2>. QED BY <2>1, <2>5 DEF Own, T
<1>3. \A h \in Servers, k \in Keys : k \notin KeysAtFirst(h) => At(h, k) = Nil
  BY StartOfServers DEF ServerAtFirst, At
<1>4. Owned
  BY <1>2, <1>3 DEF Owned, Own
<1>5. InPlace
  BY <1>3 DEF InPlace, KeysAtFirst, WhereAtFirst
<1>6. \A c \in Clients, k \in Keys : ~Carrying(c, k)
  BY <1>1 DEF Carrying
<1>7. Agree /\ GoneBefore
  BY <1>6 DEF Agree, GoneBefore
<1>8. ASSUME NEW c \in Clients PROVE HoldsOwn(c)
  <2>1. pc[c] = "idle" /\ op[c] = NoOp /\ frame[c] = NoFrame /\ \A cn \in Connections : conn[c][cn] = Atomic
    BY <1>1
  <2>2. Single(op[c])
    BY <2>1 DEF Single, NoOp
  <2>3. Holding(pc[c], frame[c])
    BY <2>1, StartLocals DEF Holding
  <2>4. \A cn \in Connections : AsksForUser(conn[c][cn].queue)
    BY <2>1 DEF Atomic, AsksForUser
  <2>5. Stowed(pc[c], frame[c], conn[c])
    BY <2>1, <2>4 DEF Stowed, MidMove
  <2>. QED BY <2>2, <2>3, <2>5 DEF HoldsOwn
<1>. QED BY <1>4, <1>5, <1>7, <1>8, StartCall DEF HoldInv, Held

-----------------------------------------------------------------------------
(* What the applications see. *)

\* The value in the hands of a process that moves the key, and that behind the host of the key.
Hand(k) == IF Carried(k) THEN Item(CHOOSE c \in Clients : Carrying(c, k)) ELSE Nil
Rest(k) == IF PrevHosts # <<>> /\ PrevOf(k) # HomeOf(k) /\ Before(k) # Nil THEN Before(k) ELSE Hand(k)

\* A value that a process is to move is still there to be seen.
Shown   == \A c \in Clients, k \in Keys : InHand(c, k) => Logical(k) # Nil
ShowInv == HoldInv /\ (torn = {} => Shown)

\* What is seen of a key.
Seen(k)  == Logical(k) = IF At(HomeOf(k), k) # Nil THEN At(HomeOf(k), k) ELSE Rest(k)

SeenSo  == \A k \in Keys : Seen(k)

\* It is at its host, or else behind it.
LEMMA SeenIs == SeenSo
<1> SUFFICES ASSUME NEW k \in Keys PROVE Seen(k)
  BY DEF SeenSo
<1>1. CASE PrevHosts = <<>>
  BY <1>1 DEF Seen, Logical, Rest, Hand, Before
<1>2. CASE PrevHosts # <<>> /\ PrevOf(k) # HomeOf(k)
  BY <1>2 DEF Seen, Logical, Rest, Hand
<1>3. CASE PrevHosts # <<>> /\ PrevOf(k) = HomeOf(k)
  <2>1. Before(k) = At(HomeOf(k), k)
    BY <1>3 DEF Before
  <2>. QED BY <1>3, <2>1 DEF Seen, Logical, Rest, Hand
<1>. QED BY <1>1, <1>2, <1>3

\* A process carries the value it has read.
Holder(k) == /\ \A c \in Clients : Carrying(c, k) => Hand(k) = frame[c].item /\ Hand(k) # Nil
             /\ ~Carried(k) => Hand(k) = Nil
             /\ Hand(k) \in Value

\* The expiry a process has read of the key it carries is that of its value.
LEMMA ItemIs ==
  ASSUME CallInv, Held, NEW c \in Clients, NEW k \in Keys, Carrying(c, k)
  PROVE  Item(c) = frame[c].item /\ frame[c].item \in Value /\ frame[c].item # Nil
<1> DEFINE f == frame[c]  v == f.item
<1>1. f \in Locals /\ v \in Value /\ f.ttl \in {-1, 0, 1}
  BY CallFacts, TypedFields, LocalFields
<1>2. v # Nil /\ f.ttl = v.ttl /\ f.ttl # 0
  BY DEF Held, HoldsOwn, Holding, Carrying, InHand
<1>3. [v EXCEPT !.ttl = v.ttl] = v
  <2> HIDE DEF v
  <2>. QED BY <1>1 DEF Value
<1>4. (IF f.ttl > 0 THEN f.ttl ELSE -1) = f.ttl
  <2> DEFINE t == f.ttl
  <2>1. t \in {-1, 1}
    BY <1>1, <1>2
  <2> HIDE DEF t
  <2>2. (IF t > 0 THEN t ELSE -1) = t
    BY <2>1
  <2>. QED BY <2>2 DEF t
<1>5. Item(c) = [v EXCEPT !.ttl = v.ttl]
  BY <1>2, <1>4 DEF Item
<1>. QED BY <1>1, <1>2, <1>3, <1>5

Holders == \A k \in Keys : Holder(k)

\* Those that carry a key agree on its value, so it does not matter which is chosen.
LEMMA HolderIs == CallInv /\ Held => Holders
<1> SUFFICES ASSUME CallInv, Held, NEW k \in Keys PROVE Holder(k)
  BY DEF Holders
<1>1. ASSUME Carried(k)
      PROVE  Hand(k) \in Value /\ \A c \in Clients : Carrying(c, k) => Hand(k) = frame[c].item /\ Hand(k) # Nil
  <2> DEFINE d == CHOOSE c \in Clients : Carrying(c, k)
  <2>1. d \in Clients /\ Carrying(d, k)
    BY <1>1 DEF Carried
  <2>2. Hand(k) = Item(d)
    BY <1>1 DEF Hand
  <2> HIDE DEF d
  <2>3. Hand(k) = frame[d].item /\ Hand(k) \in Value /\ Hand(k) # Nil
    BY <2>1, <2>2, ItemIs
  <2>. QED BY <2>1, <2>3 DEF Held, Agree
<1>2. ASSUME ~Carried(k) PROVE Hand(k) = Nil /\ Nil \in Value /\ \A c \in Clients : ~Carrying(c, k)
  BY <1>2, ValueFields DEF Hand, Carried
<1>. QED BY <1>1, <1>2 DEF Holder

\* As before the step, so after it.
LEMMA HolderAfter == CallInv' /\ Held' => Holders'
BY HolderIs, PTL

\* And what is seen of the keys then.
LEMMA SeenAfter == SeenSo'
BY SeenIs, PTL

\* What is behind the host of a key is elsewhere.
LEMMA RestIs ==
  ASSUME CallInv, Held, NEW k \in Keys
  PROVE  Rest(k) \in Value /\ (Rest(k) # Nil => Elsewhere(k)) /\ Logical(k) \in Value /\ At(HomeOf(k), k) \in Value
<1>1. Holder(k) /\ Seen(k)
  BY HolderIs, SeenIs DEF Holders, SeenSo
<1>2. ASSUME NEW h \in Servers PROVE At(h, k) \in Value
  BY CallFacts, TypedFields DEF At, Server, CallInv, Typed
<1>3. PrevHosts # <<>> => Before(k) \in Value
  BY <1>2, Homes DEF Before
<1>4. At(HomeOf(k), k) \in Value
  BY <1>2, Homes
<1>5. Rest(k) \in Value
  BY <1>1, <1>3 DEF Rest, Holder
<1>6. Rest(k) # Nil => Elsewhere(k)
  BY <1>1 DEF Rest, Holder, Elsewhere, Carried, Carrying
<1>. QED BY <1>1, <1>4, <1>5, <1>6 DEF Seen

\* The processes that carry a key go on carrying it.
LEMMA HandStays ==
  ASSUME CallInv, Held, CallInv', Held', NEW k \in Keys,
         \A c \in Clients : /\ Carrying(c, k)' <=> Carrying(c, k)
                            /\ Carrying(c, k) => frame'[c].item = frame[c].item
  PROVE  Hand(k)' = Hand(k)
<1>1. Holder(k) /\ Holder(k)'
  BY HolderIs, HolderAfter DEF Holders
<1>2. CASE Carried(k)
  <2>1. PICK c \in Clients : Carrying(c, k)
    BY <1>2 DEF Carried
  <2>. QED BY <1>1, <2>1 DEF Holder
<1>3. CASE ~Carried(k)
  <2>1. ~Carried(k)'
    BY <1>3 DEF Carried
  <2>. QED BY <1>1, <1>3, <2>1 DEF Holder
<1>. QED BY <1>2, <1>3

\* A process takes a step that neither begins nor ends to carry the key.
LEMMA HandSame ==
  ASSUME CallInv, Held, CallInv', Held', NEW c \in Clients, NEW w, NEW f, Go(c, w, f), NEW k \in Keys,
         w = "moveExec" => f.item = Nil \/ f.key # k,
         pc[c] = "moveExec" => frame[c].item = Nil \/ frame[c].key # k
  PROVE  Hand(k)' = Hand(k)
<1>1. pc \in [Clients -> Steps] /\ frame \in [Clients -> Locals]
  BY CallFacts DEF CallInv, Typed
<1>2. /\ pc'[c] = w /\ frame'[c] = f
      /\ \A d \in Clients : d # c => pc'[d] = pc[d] /\ frame'[d] = frame[d]
  BY <1>1 DEF Go
<1>3. \A d \in Clients : /\ Carrying(d, k)' <=> Carrying(d, k)
                         /\ Carrying(d, k) => frame'[d].item = frame[d].item
  BY <1>2 DEF Carrying, InHand
<1>. QED BY <1>3, HandStays

\* What is seen of a key that stays where it was.
LEMMA SeenSame ==
  ASSUME NEW k \in Keys, At(HomeOf(k), k)' = At(HomeOf(k), k),
         PrevHosts # <<>> /\ PrevOf(k) # HomeOf(k) => Before(k)' = Before(k), Hand(k)' = Hand(k)
  PROVE  Logical(k)' = Logical(k) /\ Rest(k)' = Rest(k)
<1>1. Seen(k) /\ Seen(k)'
  BY SeenIs, SeenAfter DEF SeenSo
<1>. QED BY <1>1 DEF Seen, Rest

-----------------------------------------------------------------------------
(* The steps of a move do not show. *)

\* Every key is seen as it was.
Still == \A k \in Keys : Logical(k)' = Logical(k)

\* Then they are all seen as they were.
LEMMA StillView ==
  ASSUME Still
  PROVE  View' = View
BY DEF Still, View

\* A server that carries nothing out.
LEMMA EmptyServe ==
  ASSUME CallInv, NEW c \in Clients, pc[c] \in Busy, Serve(HostOf(c), <<>>)
  PROVE  db' = db
<1> DEFINE h == HostOf(c)  none == <<>>
<1>1. none \in {Executes(c), <<>>} /\ Serve(h, none)
  OBVIOUS
<1> HIDE DEF none
<1>2. /\ db' \in [Servers -> Server] /\ h \in Servers /\ db'[h] = RunAll(db[h], none)
      /\ \A g \in Servers : g # h => db'[g] = db[g]
  BY <1>1, LoseServes
<1>3. db \in [Servers -> Server]
  BY DEF CallInv, Typed
<1>4. RunAll(db[h], none) = db[h]
  BY <1>2, <1>3, RunAllNone DEF none
<1>5. \A g \in Servers : db'[g] = db[g]
  BY <1>2, <1>4
<1> HIDE DEF h
<1>. QED BY <1>2, <1>3, <1>5

\* The servers do not change, and no process begins or ends to carry a key.
LEMMA NoChange ==
  ASSUME CallInv, Held, CallInv', Held', db' = db, NEW c \in Clients, NEW w, NEW f, Go(c, w, f),
         w = "moveExec" => f.item = Nil, pc[c] = "moveExec" => frame[c].item = Nil
  PROVE  Still
<1> SUFFICES ASSUME NEW k \in Keys PROVE Logical(k)' = Logical(k)
  BY DEF Still
<1>1. At(HomeOf(k), k)' = At(HomeOf(k), k) /\ Before(k)' = Before(k)
  BY DEF At, Before
<1>2. Hand(k)' = Hand(k)
  BY HandSame
<1>. QED BY <1>1, <1>2, SeenSame

\* What the deletion of a key at its source leaves.
LEMMA DelKeyLeaves ==
  ASSUME CallInv, NEW c \in Clients, pc[c] = "delKey", Serve(HostOf(c), Executes(c)),
         NEW h, h = HostOf(c), NEW j, j = frame[c].key
  PROVE  /\ j \in Keys /\ h \in Servers /\ At(h, j)' = Nil
         /\ \A g \in Servers, k \in Keys : g # h \/ k # j => At(g, k)' = At(g, k)
<1>1. /\ h \in Servers /\ db'[h] = RunAll(db[h], Executes(c)) /\ \A g \in Servers : g # h => db'[g] = db[g]
  BY LoseServes DEF Busy, Steps
<1>2. RunAll(db[h], Executes(c)).data[j] = Nil
  BY DelKeyTakes
<1>3. \A k \in Keys : k # j => RunAll(db[h], Executes(c)).data[k] = db[h].data[k]
  BY DelKeyTakes
<1>4. j \in Keys
  BY CallFacts DEF CallIs, Moves
<1>. QED BY <1>1, <1>2, <1>3, <1>4 DEF At

\* The process carries what it deletes, or there is nothing to delete.
LEMMA DeleteStill ==
  ASSUME CallInv, Held, Shown, CallInv', Held', NEW c \in Clients, pc[c] = "delKey",
         Serve(HostOf(c), Executes(c)), Moved(c) = {}, NEW w, NEW f, Go(c, w, f),
         (w = "moveExec" /\ f = frame[c]) \/ (w = "idle" /\ frame[c].item = Nil)
  PROVE  Still
<1>0. PICK h, j, v : h = HostOf(c) /\ j = frame[c].key /\ v = frame[c].item
  OBVIOUS
<1>1. /\ j \in Keys /\ h \in Servers /\ At(h, j)' = Nil
      /\ \A g \in Servers, k \in Keys : g # h \/ k # j => At(g, k)' = At(g, k)
  BY <1>0, DelKeyLeaves
<1>2. At(h, j) \in {Nil, v} /\ (v # Nil => \A d \in Clients : Carrying(d, j) => frame[d].item = v)
  BY <1>0, NothingMoved
<1>3. \A k \in Keys : HomeOf(k) \in Servers /\ (PrevHosts # <<>> => PrevOf(k) \in Servers)
  BY Homes
<1>4. ASSUME NEW k \in Keys, k # j \/ v = Nil PROVE Logical(k)' = Logical(k)
  <2>1. Hand(k)' = Hand(k)
    BY <1>0, <1>4, HandSame
  <2>2. \A g \in Servers : At(g, k)' = At(g, k)
    BY <1>1, <1>2, <1>4
  <2>3. At(HomeOf(k), k)' = At(HomeOf(k), k) /\ Before(k)' = Before(k)
    BY <1>3, <2>2 DEF Before
  <2>. QED BY <2>1, <2>3, SeenSame
<1>5. ASSUME v # Nil PROVE Logical(j)' = Logical(j)
  <2>1. w = "moveExec" /\ f = frame[c]
    BY <1>0, <1>5
  <2>2. h = PrevOf(j)
    <3>1. frame[c].from = Prev(PrevOf(j))
      BY <1>0, <1>5 DEF Held, HoldsOwn, Holding
    <3>2. Request(c)[1] = frame[c].from
      BY RequestParts
    <3>. QED BY <1>0, <3>1, <3>2, ConnectionsApart DEF HostOf
  <2>3. PrevHosts # <<>>
    BY CallFacts DEF CallIs, Moves
  <2>4. pc'[c] = "moveExec" /\ frame'[c] = f
    <3>1. pc \in [Clients -> Steps] /\ frame \in [Clients -> Locals]
      BY DEF CallInv, Typed
    <3>. QED BY <2>1, <3>1 DEF Go
  <2>5. Carrying(c, j)' /\ frame'[c].item = v
    BY <1>0, <1>5, <2>1, <2>4 DEF Carrying, InHand
  <2>6. Holder(j) /\ Holder(j)' /\ Seen(j) /\ Seen(j)'
    BY <1>1, HolderIs, HolderAfter, SeenIs, SeenAfter DEF Holders, SeenSo
  <2>7. Hand(j)' = v
    BY <2>5, <2>6 DEF Holder
  <2>8. Before(j)' = Nil /\ Before(j) = At(h, j)
    BY <1>1, <2>2, <2>3 DEF Before
  <2>9. Rest(j)' = v
    BY <2>7, <2>8 DEF Rest
  <2>10. Logical(j) # Nil
    BY <1>0, <1>1, <1>5 DEF Shown, InHand
  <2>11. Hand(j) # Nil => Hand(j) = v
    <3>1. Hand(j) # Nil => Carried(j)
      BY <2>6 DEF Holder
    <3>. QED BY <1>2, <1>5, <2>6, <3>1 DEF Carried, Holder
  <2>12. CASE PrevOf(j) # HomeOf(j)
    <3>1. At(HomeOf(j), j)' = At(HomeOf(j), j)
      BY <1>1, <1>3, <2>2, <2>12
    <3>2. CASE At(HomeOf(j), j) # Nil
      BY <2>6, <3>1, <3>2 DEF Seen
    <3>3. CASE At(HomeOf(j), j) = Nil
      <4>1. Rest(j) # Nil
        BY <2>6, <2>10, <3>3 DEF Seen
      <4>2. Rest(j) = v
        BY <1>2, <2>8, <2>11, <4>1 DEF Rest
      <4>. QED BY <2>6, <2>9, <3>1, <3>3, <4>2 DEF Seen
    <3>. QED BY <3>2, <3>3
  <2>13. CASE PrevOf(j) = HomeOf(j)
    <3>1. Logical(j)' = v
      BY <1>1, <2>2, <2>6, <2>9, <2>13 DEF Seen
    <3>2. Rest(j) = Hand(j)
      BY <2>13 DEF Rest
    <3>3. Logical(j) = v
      BY <1>2, <2>2, <2>6, <2>10, <2>11, <2>13, <3>2 DEF Seen
    <3>. QED BY <3>1, <3>3
  <2>. QED BY <2>12, <2>13
<1>. QED BY <1>4, <1>5 DEF Still

\* What EXEC at the target of a move leaves.
LEMMA MoveExecLeaves ==
  ASSUME CallInv, Held, NEW c \in Clients, pc[c] = "moveExec", Serve(HostOf(c), Executes(c)), Moved(c) = {},
         NEW h, h = HostOf(c), NEW j, j = frame[c].key, NEW v, v = frame[c].item
  PROVE  /\ j \in Keys /\ h = HomeOf(j)
         /\ \A g \in Servers, k \in Keys : g # h \/ k # j => At(g, k)' = At(g, k)
         /\ v # Nil => At(h, j)' = v /\ At(h, j) \in {Nil, v}
         /\ v = Nil => At(h, j)' = At(h, j)
<1> DEFINE f == frame[c]  X == Executes(c)  s == db[h]  u == RunAll(s, X)  q == Of(c).queue
           y == OnKeys("SADD", <<j>>)
<1>1. Typed /\ CallIs(pc[c], op[c], f, multi[c]) /\ Goes(c) /\ f \in Locals /\ pc[c] \in Busy
  BY CallFacts, TypedFields, RequestGoes DEF Busy, Steps
<1>2. j \in Keys /\ f.to = Ring(HomeOf(j)) /\ f.to \in Connections
  BY <1>1, Homes, ConnectionsApart DEF CallIs, Moves
<1>3. h = HomeOf(j) /\ Of(c) = conn[c][f.to]
  BY <1>1, <1>2, ConnectionsApart, TargetIs DEF Goes, HostOf
<1>4. /\ h \in Servers /\ db'[h] = u /\ \A g \in Servers : g # h => db'[g] = db[g]
  BY <1>1, LoseServes
<1>5. HoldsOwn(c) /\ s \in Keeper /\ s \in Server
  BY <1>1, <1>4, TypedFields DEF Held, Owned, Keeper, At
<1>6. q = Stored("moveExec", f) /\ Holding("moveExec", f)
  BY <1>2, <1>3, <1>5 DEF HoldsOwn, Stowed, MidMove
<1>7. \/ X = <<>>
      \/ ~f.success /\ X = q
      \/ f.success /\ X = Append(q, y)
  BY <1>1, ExecutesOf
<1>8. f.success => q = StoreCommands(f) /\ q \in Seq(Command)
  BY <1>1, <1>2, <1>6, StoreCommandsType DEF Stored, StoringOf
<1>9. ~f.success => q = <<>>
  BY <1>6 DEF Stored
<1>10. y \in Command /\ y.name = "SADD"
  <2> DEFINE ks == <<j>>
  <2>1. ks \in Seq(Keys) /\ "SADD" \in Names
    BY <1>2 DEF Names
  <2> HIDE DEF ks
  <2>2. OnKeys("SADD", ks) \in Command /\ OnKeys("SADD", ks).name = "SADD"
    BY <2>1, ArrayCommands
  <2>. QED BY <2>2 DEF ks
<1>11. f.success /\ X = Append(q, y) => u.data = RunAll(s, q).data
  <2> SUFFICES ASSUME f.success, X = Append(q, y) PROVE u.data = RunAll(s, q).data
    OBVIOUS
  <2> HIDE DEF y, q, X
  <2>1. u = Run(RunAll(s, q), y)
    BY <1>5, <1>8, <1>10, RunAllLast
  <2>2. RunAll(s, q) \in Server
    BY <1>5, <1>8, RunAllType
  <2> HIDE DEF u
  <2>. QED BY <1>10, <2>1, <2>2, RunSame
<1> HIDE DEF y
<1>12. X = <<>> => u = s
  BY <1>5, RunAllNone
<1>13. CASE v = Nil
  <2>1. \A k \in Keys : u.data[k] = s.data[k]
    <3>1. CASE X = <<>>
      BY <1>12, <3>1
    <3>2. CASE f.success /\ X = Append(q, y)
      <4>1. TypeOf[j] # "string"
        BY <1>6, <1>13, <3>2 DEF Holding
      <4>2. f.ttl > 0 /\ s.data[j] # Nil => s.data[j].ttl = f.ttl
        BY <1>13, <3>2, NothingMoved DEF At
      <4>3. \A k \in Keys : RunAll(s, StoreCommands(f)).data[k] = s.data[k]
        <5> HIDE DEF f, s
        <5>0. f.key = j /\ f.item = Nil
          BY <1>13 DEF f
        <5>. QED BY <1>1, <1>2, <1>5, <4>1, <4>2, <5>0, StoresNothing
      <4>. QED BY <1>8, <1>11, <3>2, <4>3
    <3>. QED BY <1>7, <1>9, <3>1, <3>2
  <2> HIDE DEF u
  <2>. QED BY <1>2, <1>3, <1>4, <1>13, <2>1 DEF At
<1>14. CASE v # Nil
  <2>1. f.success /\ X # <<>> /\ f.ttl = v.ttl /\ f.ttl # 0 /\ Own(j, v)
    BY <1>6, <1>14, NothingMoved DEF Holding
  <2>2. Carrying(c, j)
    BY <1>14 DEF Carrying, InHand
  <2>3. s.data[j] = Nil \/ (TypeOf[j] # "list" /\ s.data[j] = v)
    <3>1. Item(c) = v
      BY <1>2, <2>2, ItemIs
    <3>. QED BY <1>14, <3>1, NothingMoved DEF At
  <2>4. u.data = RunAll(s, StoreCommands(f)).data
    BY <1>7, <1>8, <1>11, <2>1
  <2>5. /\ RunAll(s, StoreCommands(f)).data[j] = v
        /\ \A k \in Keys : k # j => RunAll(s, StoreCommands(f)).data[k] = s.data[k]
    <3> HIDE DEF f, s
    <3>0. f.key = j /\ f.item = v
      BY DEF f
    <3>. QED BY <1>1, <1>2, <1>5, <1>14, <2>1, <2>3, <3>0, StoresItem
  <2> HIDE DEF u
  <2>. QED BY <1>2, <1>3, <1>4, <1>14, <2>3, <2>4, <2>5 DEF At
<1>. QED BY <1>13, <1>14

\* The key is written where it was seen in the hands of the process.
LEMMA MoveExecStill ==
  ASSUME CallInv, Held, CallInv', Held', NEW c \in Clients, pc[c] = "moveExec",
         Serve(HostOf(c), Executes(c)), Moved(c) = {}, NEW w, NEW f, Go(c, w, f), w # "moveExec"
  PROVE  Still
<1>0. PICK h, j, v : h = HostOf(c) /\ j = frame[c].key /\ v = frame[c].item
  OBVIOUS
<1>1. /\ j \in Keys /\ h = HomeOf(j)
      /\ \A g \in Servers, k \in Keys : g # h \/ k # j => At(g, k)' = At(g, k)
      /\ v # Nil => At(h, j)' = v /\ At(h, j) \in {Nil, v}
      /\ v = Nil => At(h, j)' = At(h, j)
  BY <1>0, MoveExecLeaves
<1>3. \A k \in Keys : HomeOf(k) \in Servers /\ (PrevHosts # <<>> => PrevOf(k) \in Servers)
  BY Homes
<1>4. ASSUME NEW k \in Keys, k # j \/ v = Nil PROVE Logical(k)' = Logical(k)
  <2>1. Hand(k)' = Hand(k)
    BY <1>0, <1>4, HandSame
  <2>2. \A g \in Servers : At(g, k)' = At(g, k)
    BY <1>1, <1>4
  <2>3. At(HomeOf(k), k)' = At(HomeOf(k), k) /\ Before(k)' = Before(k)
    BY <1>3, <2>2 DEF Before
  <2>. QED BY <2>1, <2>3, SeenSame
<1>5. ASSUME v # Nil PROVE Logical(j)' = Logical(j)
  <2>1. Holder(j) /\ Seen(j) /\ Seen(j)'
    BY <1>1, HolderIs, SeenIs, SeenAfter DEF Holders, SeenSo
  <2>2. Carrying(c, j)
    BY <1>0, <1>5 DEF Carrying, InHand
  <2>3. Hand(j) = v
    BY <1>0, <2>1, <2>2 DEF Holder
  <2>4. Rest(j) = v
    <3>1. PrevOf(j) # HomeOf(j) => Before(j) = Nil
      BY <1>1, <2>2 DEF Held, GoneBefore
    <3>. QED BY <2>3, <3>1 DEF Rest
  <2>5. Logical(j) = v
    BY <1>1, <1>5, <2>1, <2>4 DEF Seen
  <2>6. Logical(j)' = v
    BY <1>1, <1>5, <2>1 DEF Seen
  <2>. QED BY <2>5, <2>6
<1>. QED BY <1>4, <1>5 DEF Still

-----------------------------------------------------------------------------
(* The commands of the application show as on one server. *)

\* What a server carries out for the application.
Users(c) == Only(Executes(c), {x \in ToSet(Executes(c)) : x.user})

\* A command of the application for keys of a host.
Wanted(x, h) == /\ x \in Command /\ x.user /\ Sound(x) /\ x.name \in UserNames
                /\ \A k \in ToSet(x.keys) : HomeOf(k) = h

\* The application's commands are taken; a command on the index is not.
LEMMA OnlyUsers ==
  ASSUME NEW X, X \in Seq(Command), NEW T, T = {x \in ToSet(X) : x.user}
  PROVE  /\ (\A i \in 1 .. Len(X) : X[i].user) => Only(X, T) = X
         /\ \A x, y : X = <<x, y>> /\ x.user /\ ~y.user => Only(X, T) = <<x>>
<1>1. ASSUME \A i \in 1 .. Len(X) : X[i].user PROVE Only(X, T) = X
  <2>1. \A i \in 1 .. Len(X) : X[i] \in ToSet(X)
    BY DEF ToSet
  <2>2. \A i \in 1 .. Len(X) : X[i] \in T
    BY <1>1, <2>1, Zenon
  <2>. QED BY <2>2, OnlyAll
<1>2. ASSUME NEW x, NEW y, X = <<x, y>>, x.user, ~y.user PROVE Only(X, T) = <<x>>
  <2>1. Len(X) = 2 /\ X[1] = x /\ X[2] = y /\ x \in ToSet(X) /\ x \in Command
    BY <1>2 DEF ToSet
  <2>2. x \in T /\ y \notin T
    BY <1>2, <2>1, Zenon
  <2>3. PICK m : Taken(m, X, Command, T, Len(X)) /\ Only(X, T) = m[Len(X)]
    BY OnlyTakes
  <2>4. /\ m[0] = <<>> /\ m[1] = (IF X[1] \in T THEN Append(m[0], X[1]) ELSE m[0])
        /\ m[2] = (IF X[2] \in T THEN Append(m[1], X[2]) ELSE m[1])
    <3>1. 1 \in 1 .. Len(X) /\ 2 \in 1 .. Len(X) /\ 1 - 1 = 0 /\ 2 - 1 = 1
      BY <2>1
    <3>2. m[0] = <<>> /\ \A i \in 1 .. Len(X) : m[i] = IF X[i] \in T THEN Append(m[i - 1], X[i]) ELSE m[i - 1]
      BY <2>3 DEF Taken
    <3>. QED BY <3>1, <3>2
  <2>5. m[2] = Append(<<>>, x)
    BY <2>1, <2>2, <2>4
  <2>. QED BY <2>1, <2>3, <2>5
<1>. QED BY <1>1, <1>2

\* What is queued on the connection of the application's transaction.
LEMMA UsersQueued ==
  ASSUME CallInv, NEW c \in Clients, HoldsOwn(c), pc[c] = "exec"
  PROVE  Of(c).queue \in Seq(Command) /\ \A i \in 1 .. Len(Of(c).queue) : Wanted(Of(c).queue[i], HostOf(c))
<1> DEFINE q == Of(c).queue
<1>1. pc[c] \in Busy /\ pc[c] \notin MidMove
  BY DEF Busy, Steps, MidMove
<1>2. Request(c)[1] \in Connections /\ Of(c) = conn[c][Request(c)[1]] /\ Of(c) \in Connection
  BY <1>1, CallFacts, ServedTyped
<1>3. q \in Seq(Command) /\ AsksForUser(q)
  BY <1>1, <1>2, ConnectionFields DEF HoldsOwn, Stowed
<1>4. ASSUME NEW i \in 1 .. Len(q) PROVE Wanted(q[i], HostOf(c))
  <2>1. q[i] \in Command /\ q[i].user /\ q[i].name \in UserNames /\ Sound(q[i])
    BY <1>3 DEF AsksForUser
  <2>2. \A k \in ToSet(q[i].keys) : Request(c)[1] = Ring(HomeOf(k))
    BY <1>1, QueueFits DEF Fits
  <2>3. \A k \in ToSet(q[i].keys) : HomeOf(k) = HostOf(c)
    BY <2>2, ConnectionsApart DEF HostOf
  <2> HIDE DEF q
  <2>. QED BY <2>1, <2>3 DEF Wanted
<1>. QED BY <1>3, <1>4

\* What is asked is for keys of the host it is asked of.
LEMMA UsersAsked ==
  ASSUME CallInv, NEW c \in Clients, HoldsOwn(c), pc[c] \in {"write", "forward"}
  PROVE  \E x, y : /\ Wanted(x, HostOf(c)) /\ y \in Command /\ ~y.user /\ y.name \in {"SADD", "SREM"}
                   /\ Asked(c) = <<x>> \/ Asked(c) = <<x, y>>
<1>1. Single(op[c]) /\ pc[c] \in Busy
  BY DEF HoldsOwn, Busy, Steps
<1>2. PICK x \in Command, y \in Command :
        /\ x.user /\ x.name \in UserNames /\ Sound(x) /\ ~y.user /\ Sound(y) /\ y.name \in {"SADD", "SREM"}
        /\ Asked(c) = <<x>> \/ (pc[c] = "write" /\ Asked(c) = <<x, y>>)
        /\ x.keys = IF pc[c] \in {"mget", "write"} THEN KeysAt(HostOf(c), op[c].keys) ELSE op[c].keys
  BY <1>1, AskedSound
<1>3. op[c].keys \in Seq(Keys) /\ Goes(c) /\ CallIs(pc[c], op[c], frame[c], multi[c])
  BY CallFacts, TypedFields, OpFields, RequestGoes
<1>4. \A k \in ToSet(x.keys) : HomeOf(k) = HostOf(c)
  <2>1. CASE pc[c] = "write"
    <3>1. x.keys = KeysAt(HostOf(c), op[c].keys)
      BY <1>2, <2>1
    <3>. QED BY <1>3, <3>1, KeysAtHost
  <2>2. CASE pc[c] = "forward"
    <3>1. x.keys = op[c].keys /\ HostOf(c) = multi[c]
      BY <1>2, <1>3, <2>2, ConnectionsApart DEF Goes, HostOf
    <3>. QED BY <1>3, <2>2, <3>1 DEF CallIs
  <2>. QED BY <2>1, <2>2
<1>5. Wanted(x, HostOf(c))
  BY <1>2, <1>4 DEF Wanted
<1>. QED BY <1>2, <1>5

\* What is carried out for the application, and what else is.
LEMMA UsersOf ==
  ASSUME CallInv, NEW c \in Clients, HoldsOwn(c), pc[c] \in {"write", "forward", "exec"},
         NEW h, h = HostOf(c), db[h] \in Keeper
  PROVE  /\ Users(c) \in Seq(Command)
         /\ \A i \in 1 .. Len(Users(c)) : Wanted(Users(c)[i], h) /\ Users(c)[i] \in ToSet(Executes(c))
         /\ RunAll(db[h], Executes(c)).data = RunAll(db[h], Users(c)).data
<1>1. PICK X, T, s : X = Executes(c) /\ T = {x \in ToSet(X) : x.user} /\ s = db[h]
  OBVIOUS
<1>2. Users(c) = Only(X, T) /\ X \in Seq(Command) /\ s \in Keeper /\ s \in Server /\ pc[c] \in Busy
  BY <1>1, CallFacts, ServedTyped DEF Users, Busy, Steps, Keeper
<1>3. ASSUME \A i \in 1 .. Len(X) : Wanted(X[i], h)
      PROVE  /\ Only(X, T) \in Seq(Command)
             /\ \A i \in 1 .. Len(Only(X, T)) : Wanted(Only(X, T)[i], h) /\ Only(X, T)[i] \in ToSet(X)
             /\ RunAll(s, X).data = RunAll(s, Only(X, T)).data
  <2>1. Only(X, T) = X
    BY <1>1, <1>2, <1>3, OnlyUsers DEF Wanted
  <2>. QED BY <1>2, <1>3, <2>1 DEF ToSet
<1>4. CASE pc[c] = "exec"
  <2>1. X = <<>> \/ X = Of(c).queue
    BY <1>1, <1>2, <1>4, ExecutesOf
  <2>2. \A i \in 1 .. Len(X) : Wanted(X[i], h)
    <3>1. CASE X = <<>>
      BY <3>1
    <3>2. CASE X = Of(c).queue
      BY <1>4, <3>2, UsersQueued
    <3>. QED BY <2>1, <3>1, <3>2
  <2>. QED BY <1>1, <1>2, <1>3, <2>2
<1>5. CASE pc[c] \in {"write", "forward"}
  <2>1. PICK x, y : /\ Wanted(x, h) /\ y \in Command /\ ~y.user /\ y.name \in {"SADD", "SREM"}
                    /\ Asked(c) = <<x>> \/ Asked(c) = <<x, y>>
    BY <1>5, UsersAsked
  <2>2. X \in {<<>>, <<x>>, <<x, y>>}
    BY <1>1, <1>2, <1>5, <2>1, ExecutesOf DEF Looking
  <2>3. CASE X = <<>> \/ X = <<x>>
    <3>1. \A i \in 1 .. Len(X) : X[i] = x
      BY <2>3
    <3>2. \A i \in 1 .. Len(X) : Wanted(X[i], h)
      BY <2>1, <3>1
    <3>. QED BY <1>1, <1>2, <1>3, <3>2
  <2>4. CASE X = <<x, y>>
    <3>1. x \in Command /\ x.user
      BY <2>1 DEF Wanted
    <3>2. Only(X, T) = <<x>>
      BY <1>1, <1>2, <2>1, <2>4, <3>1, OnlyUsers
    <3>3. RunAll(s, X) = Run(Run(s, x), y) /\ RunAll(s, <<x>>) = Run(s, x) /\ Run(s, x) \in Server
      BY <1>2, <2>1, <2>4, <3>1, RunAllFew, RunType
    <3>4. Run(Run(s, x), y).data = Run(s, x).data
      <4>1. y \in Command /\ y.name \notin {"SET", "ADD", "EXPIRE", "DEL"}
        BY <2>1
      <4>. QED BY <3>3, <4>1, RunSame
    <3>5. x \in ToSet(X)
      <4>1. Len(X) = 2 /\ X[1] = x
        BY <2>4
      <4>2. 1 \in DOMAIN X
        BY <1>2, <4>1
      <4>. QED BY <4>1, <4>2 DEF ToSet
    <3>6. <<x>> \in Seq(Command) /\ \A i \in 1 .. Len(<<x>>) : <<x>>[i] = x
      BY <3>1
    <3>. QED BY <1>1, <1>2, <2>1, <3>2, <3>3, <3>4, <3>5, <3>6
  <2>. QED BY <2>2, <2>3, <2>4
<1>. QED BY <1>4, <1>5

\* What nothing of the application crosses.
LEMMA NothingCrossed ==
  ASSUME NEW c, Crossed(c) = {}, NEW x \in ToSet(Executes(c)), x.user
  PROVE  /\ x.name = "DEL" => \A k \in ToSet(x.keys) : ~Elsewhere(k)
         /\ x.name = "ADD" => \A k \in ToSet(x.keys) : At(HostOf(c), k) # Nil \/ ~Elsewhere(k)
<1> DEFINE On(name) == UNION {ToSet(cmd.keys) : cmd \in {z \in ToSet(Executes(c)) : z.user /\ z.name = name}}
<1>1. /\ \A k \in On("DEL") : ~Elsewhere(k)
      /\ \A k \in On("ADD") : At(HostOf(c), k) # Nil \/ ~Elsewhere(k)
  <2>1. "resurrected" \notin Crossed(c) /\ "split" \notin Crossed(c)
    OBVIOUS
  <2>. QED BY <2>1 DEF Crossed
<1>2. \A k \in ToSet(x.keys) : k \in On(x.name)
  OBVIOUS
<1> HIDE DEF On
<1>. QED BY <1>1, <1>2

\* Keys that are seen after commands on their host, as what is behind it is.
Shows(c) == /\ View' = RunAll([data |-> View, index |-> {}], Users(c)).data
            /\ \A k \in Keys : Elsewhere(k) /\ Logical(k) # Nil => Logical(k)' # Nil

\* Commands of the application at a host.
LEMMA WrittenShows ==
  ASSUME CallInv, Held, CallInv', Held', NEW c \in Clients, pc[c] \in {"write", "forward", "exec"},
         Serve(HostOf(c), Executes(c)), Crossed(c) = {}, NEW w, NEW f, Go(c, w, f), w # "moveExec"
  PROVE  Shows(c)
<1>0. PICK V, R, J, h, s, U, d :
        /\ V = View /\ R = [k \in Keys |-> Rest(k)] /\ J = {k \in Keys : Elsewhere(k)} /\ h = HostOf(c)
        /\ s = db[h] /\ U = Users(c) /\ d = RunAll(s, U).data
  OBVIOUS
<1>1. pc[c] \in Busy /\ pc[c] # "delKey" /\ HoldsOwn(c)
  BY DEF Busy, Steps, Held
<1>2. /\ h \in Servers /\ db'[h] = RunAll(s, Executes(c)) /\ \A g \in Servers : g # h => db'[g] = db[g]
  BY <1>0, <1>1, LoseServes
<1>3. s \in Keeper
  BY <1>0, <1>2, CallFacts, TypedFields DEF Held, Owned, Keeper, At
<1>4. /\ U \in Seq(Command) /\ db'[h].data = d
      /\ \A i \in 1 .. Len(U) : Wanted(U[i], h) /\ U[i] \in ToSet(Executes(c))
  BY <1>0, <1>1, <1>2, <1>3, UsersOf
<1>5. \A g \in Servers, k \in Keys : g # h \/ HomeOf(k) # h => At(g, k)' = At(g, k)
  <2>1. SameElsewhere(s, RunAll(s, Executes(c)), h)
    BY <1>0, <1>1, ExecElsewhere
  <2>. QED BY <1>0, <1>2, <2>1 DEF SameElsewhere, At
<1>6. \A k \in Keys : HomeOf(k) \in Servers /\ (PrevHosts # <<>> => PrevOf(k) \in Servers)
  BY Homes
<1>7. ASSUME NEW k \in Keys PROVE Hand(k)' = Hand(k) /\ (PrevHosts # <<>> /\ PrevOf(k) # HomeOf(k) => Before(k)' = Before(k))
  <2>1. pc[c] # "moveExec"
    OBVIOUS
  <2>2. Hand(k)' = Hand(k)
    BY <2>1, HandSame
  <2>3. PrevHosts # <<>> /\ PrevOf(k) # HomeOf(k) => Before(k)' = Before(k)
    BY <1>5, <1>6 DEF Before
  <2>. QED BY <2>2, <2>3
<1>8. ASSUME NEW k \in Keys, HomeOf(k) # h PROVE Logical(k)' = Logical(k)
  <2>1. At(HomeOf(k), k)' = At(HomeOf(k), k)
    BY <1>5, <1>6, <1>8
  <2>. QED BY <1>7, <2>1, SeenSame
<1>9. ASSUME NEW k \in Keys, HomeOf(k) = h
      PROVE  /\ Logical(k) = IF s.data[k] # Nil THEN s.data[k] ELSE R[k]
             /\ Logical(k)' = IF d[k] # Nil THEN d[k] ELSE R[k]
  <2>1. Seen(k) /\ Seen(k)'
    BY SeenIs, SeenAfter DEF SeenSo
  <2>2. Rest(k)' = Rest(k)
    BY <1>7 DEF Rest
  <2>3. At(HomeOf(k), k) = s.data[k] /\ At(HomeOf(k), k)' = d[k] /\ R[k] = Rest(k)
    BY <1>0, <1>4, <1>9 DEF At
  <2>. QED BY <2>1, <2>2, <2>3 DEF Seen
<1>10. V \in [Keys -> Value] /\ \A k \in Keys : V[k] = Logical(k)
  BY <1>0, RestIs DEF View
<1>11. Behind(V, R, J)
  BY <1>0, <1>10, RestIs DEF Behind
<1>12. Mix(V, R, h, s.data) = V
  BY <1>9, <1>10 DEF Mix
<1>13. Mix(V, R, h, d) = View'
  <2>1. View' = [k \in Keys |-> Logical(k)']
    BY DEF View
  <2>. QED BY <1>8, <1>9, <1>10, <2>1 DEF Mix
<1>14. ASSUME NEW i \in 1 .. Len(U) PROVE Respects(U[i], h, J, s.data)
  <2>1. PICK x : x = U[i]
    OBVIOUS
  <2>2. Wanted(x, h) /\ x \in ToSet(Executes(c))
    BY <1>4, <2>1
  <2>3. x \in Command /\ x.user /\ Sound(x) /\ x.name \in UserNames /\ \A k \in ToSet(x.keys) : HomeOf(k) = h
    BY <2>2 DEF Wanted
  <2>4. /\ x.name = "DEL" => \A k \in ToSet(x.keys) : ~Elsewhere(k)
        /\ x.name = "ADD" => \A k \in ToSet(x.keys) : At(h, k) # Nil \/ ~Elsewhere(k)
    BY <1>0, <2>2, <2>3, NothingCrossed
  <2>5. x.name = "ADD" => x.keys[1] \in ToSet(x.keys)
    <3>1. x.name = "ADD" => x.keys # <<>>
      BY <2>3 DEF Sound
    <3>2. x.keys \in Seq(Keys)
      BY <2>3, CommandFields
    <3>. QED BY <3>1, <3>2 DEF ToSet
  <2>6. x.name = "DEL" => \A k \in ToSet(x.keys) : k \notin J
    BY <1>0, <2>4
  <2>7. x.name = "ADD" => x.keys[1] \notin J \/ s.data[x.keys[1]] # Nil
    BY <1>0, <2>4, <2>5 DEF At
  <2>. QED BY <2>1, <2>3, <2>6, <2>7 DEF Respects
<1>15. /\ RunAll([data |-> Mix(V, R, h, s.data), index |-> {}], U).data = Mix(V, R, h, RunAll(s, U).data)
       /\ \A k \in Keys : k \in J /\ s.data[k] # Nil => RunAll(s, U).data[k] # Nil
  <2>1. RespectAll(U, h, J, s)
    BY <1>14 DEF RespectAll
  <2>2. MixAll(V, R, h, J, s, U)
    BY <1>3, <1>4, <1>11, <2>1, MixRunAll
  <2>. QED BY <2>2 DEF MixAll
<1>16. View' = RunAll([data |-> View, index |-> {}], Users(c)).data
  BY <1>0, <1>12, <1>13, <1>15
<1>17. ASSUME NEW k \in Keys, Elsewhere(k), Logical(k) # Nil PROVE Logical(k)' # Nil
  <2>1. CASE HomeOf(k) # h
    BY <1>8, <1>17, <2>1
  <2>2. CASE HomeOf(k) = h /\ s.data[k] # Nil
    BY <1>0, <1>9, <1>15, <1>17, <2>2
  <2>3. CASE HomeOf(k) = h /\ s.data[k] = Nil
    BY <1>9, <1>17, <2>3
  <2>. QED BY <2>1, <2>2, <2>3
<1>. QED BY <1>16, <1>17 DEF Shows

-----------------------------------------------------------------------------
(* What each step shows. *)

\* No key comes into the hands of a process; or none that is not seen.
TakesNone == \A d \in Clients, k \in Keys : InHand(d, k)' => InHand(d, k)
TakesSeen == \A d \in Clients, k \in Keys : InHand(d, k)' => InHand(d, k) \/ Logical(k) # Nil

\* A step shows nothing, or it shows what the application asked for.
Unseen     == Still /\ TakesSeen
Written(c) == Shows(c) /\ TakesNone /\ Stepped(c) /\ Waits(c)

\* What is in the hands of a process is still seen.
LEMMA ShownStays ==
  ASSUME Shown, Unseen \/ \E c \in Clients : Written(c)
  PROVE  Shown'
<1>1. SUFFICES ASSUME NEW d \in Clients, NEW k \in Keys, InHand(d, k)' PROVE Logical(k)' # Nil
  BY DEF Shown
<1>2. CASE Unseen
  BY <1>1, <1>2 DEF Unseen, TakesSeen, Still, Shown
<1>3. ASSUME NEW c \in Clients, Written(c) PROVE Logical(k)' # Nil
  BY <1>1, <1>3 DEF Written, Shows, TakesNone, Shown, Elsewhere
<1>. QED BY <1>2, <1>3

\* A step that reads no value.
LEMMA TakesNothing ==
  ASSUME CallInv, NEW c \in Clients, NEW w, NEW f, Go(c, w, f),
         f.item = Nil \/ (f.item = frame[c].item /\ f.key = frame[c].key)
  PROVE  TakesNone /\ TakesSeen
<1>1. frame \in [Clients -> Locals]
  BY DEF CallInv, Typed
<1>2. frame'[c] = f /\ \A d \in Clients : d # c => frame'[d] = frame[d]
  BY <1>1 DEF Go
<1>3. \A d \in Clients, k \in Keys : InHand(d, k)' => InHand(d, k)
  BY <1>2 DEF InHand
<1>. QED BY <1>3 DEF TakesNone, TakesSeen

\* A step outside the moves that leaves the servers alone.
LEMMA QuietUnseen ==
  ASSUME CallInv, Held, CallInv', Held', db' = db, NEW c \in Clients, PlainGo(c),
         pc[c] = "moveExec" => frame[c].item = Nil
  PROVE  Unseen
<1>1. PICK w, f : Go(c, w, f) /\ w \notin MidMove /\ f.item = Nil /\ ~f.success
  BY DEF PlainGo
<1>2. w # "moveExec"
  BY <1>1 DEF MidMove
<1>3. Still
  BY <1>1, <1>2, NoChange
<1>. QED BY <1>1, <1>3, TakesNothing DEF Unseen

\* Calls that start or return, and the loops of _rehash().
LEMMA ThinkingUnseen ==
  ASSUME CallInv, Held, CallInv', Held', NEW c \in Clients, Starts(c) \/ Scan(c) \/ Return(c)
  PROVE  Unseen
<1>1. PlainGo(c) /\ db' = db /\ pc[c] \in {"idle", "scan", "return"}
  <2>1. CASE Starts(c)
    BY <2>1, StartsPlain
  <2>2. CASE Scan(c) \/ Return(c)
    <3>1. PlainGo(c)
      BY <2>2, StepsPlain DEF Held
    <3>2. db' = db /\ pc[c] \in {"scan", "return"}
      BY <2>2 DEF Scan, Return
    <3>. QED BY <3>1, <3>2
  <2>. QED BY <2>1, <2>2
<1>. QED BY <1>1, QuietUnseen

\* Reads.
LEMMA ReadingUnseen ==
  ASSUME CallInv, Held, CallInv', Held', NEW c \in Clients, Read(c) \/ ReadPrev(c) \/ Mget(c) \/ List(c)
  PROVE  Unseen
<1>1. pc[c] \in Quiets /\ pc[c] # "moveExec" /\ Ask(c)
  BY DEF Read, ReadPrev, Mget, List, Quiets
<1>2. PlainGo(c)
  BY StepsPlain DEF Held
<1>3. db' = db
  <2> DEFINE X == Executes(c)
  <2>1. X \in {Executes(c), <<>>} /\ Serve(HostOf(c), X)
    BY <1>1 DEF Ask
  <2> HIDE DEF X
  <2>. QED BY <1>1, <2>1, ReadingLeaves
<1>. QED BY <1>1, <1>2, <1>3, QuietUnseen

\* Requests that only open or drop a transaction.
LEMMA NothingServed ==
  ASSUME CallInv, NEW c \in Clients, pc[c] \in {"multi", "moveMulti", "discard", "store"}, Ask(c)
  PROVE  db' = db
<1>1. pc[c] \in Busy
  BY DEF Busy, Steps
<1>2. Executes(c) = <<>>
  BY <1>1, ExecutesOf
<1>3. Serve(HostOf(c), <<>>)
  BY <1>2 DEF Ask
<1>. QED BY <1>1, <1>3, EmptyServe

\* Something is asked of a connection.
LEMMA BusyWaits ==
  ASSUME CallInv, NEW c \in Clients, pc[c] \in Busy
  PROVE  Waits(c)
<1>1. Request(c)[1] \in Connections
  BY CallFacts, ServedTyped
<1>. QED BY <1>1, NoneAssumption DEF Waits

\* A process goes on to another step.
LEMMA StepsOn ==
  ASSUME CallInv, NEW c \in Clients, NEW w, NEW f, Go(c, w, f), w # pc[c] \/ f # frame[c]
  PROVE  Stepped(c)
<1>1. pc \in [Clients -> Steps] /\ frame \in [Clients -> Locals]
  BY DEF CallInv, Typed
<1>2. pc'[c] = w /\ frame'[c] = f
  BY <1>1 DEF Go
<1>. QED BY <1>2 DEF Stepped

\* Commands of the application that are carried out.
LEMMA AskedWritten ==
  ASSUME CallInv, Held, CallInv', Held', NEW c \in Clients, pc[c] \in {"write", "forward", "exec"},
         Serve(HostOf(c), Executes(c)), Crossed(c) = {}, NEW w, NEW f, Go(c, w, f),
         w \notin MidMove, f.item = Nil, w # pc[c] \/ f # frame[c]
  PROVE  Written(c)
<1>1. pc[c] \in Busy /\ w # "moveExec"
  BY DEF Busy, Steps, MidMove
<1>. QED BY <1>1, WrittenShows, TakesNothing, BusyWaits, StepsOn DEF Written

\* The methods of a transaction.
LEMMA ForwardShows ==
  ASSUME CallInv, Held, CallInv', Held', torn' = {}, NEW c \in Clients, Forward(c)
  PROVE  Unseen \/ Written(c)
<1>1. /\ pc[c] \in {"forward", "multi", "exec", "discard"} /\ Ask(c) /\ Go(c, "return", NoFrame)
      /\ Crossed(c) = {}
  BY DEF Forward, Tear
<1>2. CASE pc[c] \in {"multi", "discard"}
  <2>1. db' = db /\ PlainGo(c)
    BY <1>1, <1>2, NothingServed, StepsPlain DEF Held
  <2>. QED BY <1>2, <2>1, QuietUnseen
<1>3. CASE pc[c] \in {"forward", "exec"}
  <2>1. Serve(HostOf(c), Executes(c)) /\ "return" \notin MidMove /\ NoFrame.item = Nil
    BY <1>1, StartLocals DEF Ask, MidMove
  <2>2. Written(c)
    BY <1>1, <1>3, <2>1, AskedWritten
  <2>. QED BY <2>2
<1>. QED BY <1>1, <1>2, <1>3

\* Writes.
LEMMA WriteShows ==
  ASSUME CallInv, Held, CallInv', Held', torn' = {}, NEW c \in Clients, Write(c)
  PROVE  Written(c)
<1>1. /\ pc[c] = "write" /\ Ask(c) /\ Crossed(c) = {} /\ Serve(HostOf(c), Executes(c))
      /\ Go(c, "return", NoFrame) \/ NextNode(c, "write")
  BY DEF Write, Tear, Ask
<1>2. PlainGo(c)
  BY StepsPlain DEF Held
<1>3. PICK w, f : Go(c, w, f) /\ w \notin MidMove /\ f.item = Nil /\ ~f.success
  BY <1>2 DEF PlainGo
<1>4. pc \in [Clients -> Steps] /\ frame \in [Clients -> Locals]
  BY DEF CallInv, Typed
<1>5. w = pc'[c] /\ f = frame'[c]
  BY <1>3, <1>4 DEF Go
<1>6. w # pc[c] \/ f # frame[c]
  <2>1. CASE Go(c, "return", NoFrame)
    BY <1>1, <1>4, <1>5, <2>1 DEF Go
  <2>2. CASE NextNode(c, "write")
    <3>1. PICK v \in {"return", "write"}, g \in Locals :
            Go(c, v, g) /\ (v = "write" => g.nodes = Tail(frame[c].nodes))
      BY <1>1, <2>2, NextNodeIs
    <3>2. v = w /\ g = f
      BY <1>4, <1>5, <3>1 DEF Go
    <3>3. Tail(frame[c].nodes) # frame[c].nodes
      <4>1. frame[c].nodes # <<>> /\ frame[c].nodes \in Seq(Servers)
        BY <1>1, CallFacts, TypedFields, LocalFields DEF CallIs
      <4> DEFINE s == frame[c].nodes
      <4> HIDE DEF s
      <4>2. s # <<>> /\ s \in Seq(Servers) => Tail(s) # s
        OBVIOUS
      <4>. QED BY <4>1, <4>2 DEF s
    <3>. QED BY <1>1, <3>1, <3>2, <3>3
  <2>. QED BY <1>1, <2>1, <2>2
<1>. QED BY <1>1, <1>3, <1>6, AskedWritten

\* A value that is found at its source is seen, at its host or there.
LEMMA FoundSeen ==
  ASSUME CallInv, Held, NEW c \in Clients, pc[c] \in {"type", "fetch"}, Fetched(c) # Nil
  PROVE  frame[c].key \in Keys /\ Logical(frame[c].key) # Nil
<1> DEFINE k == frame[c].key
<1>1. k \in Keys /\ Fetched(c) = At(HostOf(c), k)
  BY FetchedHere DEF Held
<1>2. HostOf(c) = PrevOf(k)
  BY <1>1, SourcePlace DEF Held
<1>3. PrevHosts # <<>>
  BY CallFacts DEF CallIs, Moves
<1>4. Before(k) # Nil
  BY <1>1, <1>2, <1>3 DEF Before
<1> HIDE DEF k
<1>5. Logical(k) # Nil
  BY <1>4 DEF Logical
<1>. QED BY <1>1, <1>5 DEF k

\* The steps of a move that read a value.
LEMMA FetchingUnseen ==
  ASSUME CallInv, Held, CallInv', Held', NEW c \in Clients, pc[c] \in {"type", "fetch"}, Ask(c),
         NEW w, NEW f, Go(c, w, f), f.item = Fetched(c), f.key = frame[c].key,
         w = "moveExec" => f.item = Nil
  PROVE  Unseen
<1>1. pc[c] \in Quiets /\ pc[c] # "moveExec"
  BY DEF Quiets
<1>2. db' = db
  <2> DEFINE X == Executes(c)
  <2>1. X \in {Executes(c), <<>>} /\ Serve(HostOf(c), X)
    BY DEF Ask
  <2> HIDE DEF X
  <2>. QED BY <1>1, <2>1, ReadingLeaves
<1>3. Still
  BY <1>1, <1>2, NoChange
<1>4. frame'[c] = f /\ \A d \in Clients : d # c => frame'[d] = frame[d]
  <2>1. frame \in [Clients -> Locals]
    BY DEF CallInv, Typed
  <2>. QED BY <2>1 DEF Go
<1>5. TakesSeen
  <2> SUFFICES ASSUME NEW d \in Clients, NEW k \in Keys, InHand(d, k)', ~InHand(d, k) PROVE Logical(k) # Nil
    BY DEF TakesSeen
  <2>1. d = c
    BY <1>4 DEF InHand
  <2>2. f.item # Nil /\ k = frame[c].key
    BY <1>4, <2>1 DEF InHand
  <2>. QED BY <2>2, FoundSeen
<1>. QED BY <1>3, <1>5 DEF Unseen

\* The move asks for type and time to live.
LEMMA MoveTypeUnseen ==
  ASSUME CallInv, Held, CallInv', Held', NEW c \in Clients, MoveType(c)
  PROVE  Unseen
<1> DEFINE g == frame[c]  x == Fetched(c)  f == [g EXCEPT !.ttl = x.ttl, !.item = x]  w == "moveMulti"
<1>1. MoveStep(c, "type", w, f)
  BY DEF MoveType
<1>2. "type" \in Moves
  BY DEF Moves
<1> HIDE DEF f
<1>3. pc[c] = "type" /\ Ask(c) /\ Go(c, w, f) /\ g \in Locals
  BY <1>1, <1>2, MoveStepIs
<1>5. x \in Value /\ x.ttl \in {-1, 0, 1}
  BY <1>3, FetchedHere DEF Held
<1>6. f.item = x /\ f.key = g.key
  <2> DEFINE t == x.ttl
  <2>1. \A s \in {-1, 0, 1}, y \in Value : Fields([g EXCEPT !.ttl = s, !.item = y],
          g.nodes, g.keys, g.key, g.from, g.to, s, y, g.success)
    BY <1>3, LocalSteps
  <2> HIDE DEF x
  <2>2. Fields([g EXCEPT !.ttl = t, !.item = x], g.nodes, g.keys, g.key, g.from, g.to, t, x, g.success)
    BY <1>5, <2>1
  <2>3. Fields(f, g.nodes, g.keys, g.key, g.from, g.to, t, x, g.success)
    BY <2>2 DEF f, x
  <2> HIDE DEF g, t
  <2>. QED BY <2>3 DEF Fields
<1>. QED BY <1>3, <1>6, FetchingUnseen

\* The move reads the value.
LEMMA MoveFetchUnseen ==
  ASSUME CallInv, Held, CallInv', Held', NEW c \in Clients, MoveFetch(c)
  PROVE  Unseen
<1> DEFINE g == frame[c]  x == Fetched(c)
           gone == x = Nil /\ TypeOf[g.key] = "string"
           f == [g EXCEPT !.item = x, !.success = ~gone]  w == IF gone THEN "moveExec" ELSE "store"
<1>1. MoveStep(c, "fetch", w, f)
  BY DEF MoveFetch
<1>2. "fetch" \in Moves
  BY DEF Moves
<1>w. (w = "moveExec" => x = Nil) /\ gone \in BOOLEAN
  OBVIOUS
<1> HIDE DEF w, f, gone
<1>3. pc[c] = "fetch" /\ Ask(c) /\ Go(c, w, f) /\ g \in Locals
  BY <1>1, <1>2, MoveStepIs
<1>5. x \in Value
  BY <1>3, FetchedHere DEF Held
<1>6. f.item = x /\ f.key = g.key
  <2>1. \A y \in Value, s \in BOOLEAN : Fields([g EXCEPT !.item = y, !.success = s],
          g.nodes, g.keys, g.key, g.from, g.to, g.ttl, y, s)
    BY <1>3, LocalSteps
  <2> HIDE DEF x
  <2> DEFINE s == ~gone
  <2>2. Fields([g EXCEPT !.item = x, !.success = s], g.nodes, g.keys, g.key, g.from, g.to, g.ttl, x, s)
    BY <1>w, <1>5, <2>1
  <2>3. Fields(f, g.nodes, g.keys, g.key, g.from, g.to, g.ttl, x, s)
    BY <2>2 DEF f, x
  <2> HIDE DEF g, s
  <2>. QED BY <2>3 DEF Fields
<1>. QED BY <1>w, <1>3, <1>6, FetchingUnseen

\* The move opens MULTI at its target, or queues what it writes.
LEMMA MoveQueuesUnseen ==
  ASSUME CallInv, Held, CallInv', Held', NEW c \in Clients, MoveMulti(c) \/ MoveStore(c)
  PROVE  Unseen
<1> DEFINE g == frame[c]
<1>1. PICK p, w, f : /\ MoveStep(c, p, w, f) /\ p \in {"moveMulti", "store"}
                     /\ f = [g EXCEPT !.item = Nil] \/ (f = g /\ w = "delKey")
  BY DEF MoveMulti, MoveStore
<1>2. p \in Moves
  BY <1>1 DEF Moves
<1>3. pc[c] = p /\ Ask(c) /\ Go(c, w, f) /\ g \in Locals
  BY <1>1, <1>2, MoveStepIs
<1>4. f.item = Nil \/ (f.item = g.item /\ f.key = g.key /\ w = "delKey")
  <2>1. CASE f = [g EXCEPT !.item = Nil]
    <3>1. \A y \in Value : Fields([g EXCEPT !.item = y], g.nodes, g.keys, g.key, g.from, g.to, g.ttl, y, g.success)
      BY <1>3, LocalSteps
    <3>2. Nil \in Value
      BY ValueFields
    <3> HIDE DEF g
    <3>3. Fields(f, g.nodes, g.keys, g.key, g.from, g.to, g.ttl, Nil, g.success)
      BY <2>1, <3>1, <3>2
    <3>. QED BY <3>3 DEF Fields
  <2>. QED BY <1>1, <2>1
<1>5. db' = db
  BY <1>1, <1>3, NothingServed
<1>6. pc[c] # "moveExec" /\ (w = "moveExec" => f.item = Nil)
  BY <1>1, <1>3, <1>4
<1>7. Still
  BY <1>3, <1>5, <1>6, NoChange
<1>. QED BY <1>3, <1>4, <1>7, TakesNothing DEF Unseen

\* The move deletes the key at its source, and ends with EXEC at its target.
LEMMA MoveEndsUnseen ==
  ASSUME CallInv, Held, Shown, CallInv', Held', torn' = {}, NEW c \in Clients, MoveDelete(c) \/ MoveExec(c)
  PROVE  Unseen
<1>1. CASE MoveDelete(c)
  <2>1. MoveStep(c, "delKey", "moveExec", frame[c]) /\ "delKey" \in Moves
    BY <1>1 DEF MoveDelete, Moves
  <2>2. pc[c] = "delKey" /\ Ask(c) /\ Go(c, "moveExec", frame[c]) /\ Moved(c) = {}
    BY <2>1, MoveStepIs, MoveTearsNot
  <2>3. Serve(HostOf(c), Executes(c))
    BY <2>2 DEF Ask
  <2>4. Still
    BY <2>2, <2>3, DeleteStill
  <2>. QED BY <2>2, <2>4, TakesNothing DEF Unseen
<1>2. CASE MoveExec(c)
  <2> DEFINE v == IF op[c].m = "_rehash" THEN "scan" ELSE "return"  f0 == Moving(frame[c], None, None, None)
  <2>1. MoveStep(c, "moveExec", v, f0) /\ "moveExec" \in Moves
    BY <1>2 DEF MoveExec, Moves
  <2>2. v # "moveExec"
    OBVIOUS
  <2> HIDE DEF v, f0
  <2>3. pc[c] = "moveExec" /\ Ask(c) /\ Go(c, v, f0) /\ Moved(c) = {}
    BY <2>1, MoveStepIs, MoveTearsNot
  <2>4. Serve(HostOf(c), Executes(c))
    BY <2>3 DEF Ask
  <2>5. Still
    BY <2>2, <2>3, <2>4, MoveExecStill
  <2>6. f0.item = Nil
    BY MovingLocals DEF f0
  <2>. QED BY <2>3, <2>5, <2>6, TakesNothing DEF Unseen
<1>. QED BY <1>1, <1>2

\* What a lost connection tears not.
LEMMA LoseTearsNot ==
  ASSUME NEW c \in Clients, Lose(c), torn' = {}
  PROVE  \E reached \in BOOLEAN :
           /\ Serve(HostOf(c), IF reached THEN Executes(c) ELSE <<>>)
           /\ reached => Crossed(c) = {} /\ Moved(c) = {} /\ (pc[c] = "delKey" => frame[c].item = Nil)
           /\ ~reached /\ pc[c] = "moveExec" => frame[c].item = Nil
<1>1. PICK reached \in BOOLEAN :
        /\ Serve(HostOf(c), IF reached THEN Executes(c) ELSE <<>>)
        /\ Tear((IF reached THEN Crossed(c) \cup Moved(c) ELSE {})
               \cup (IF \E cn \in Connections :
                           /\ conn'[c][cn].tx
                           /\ cn # Ring(multi'[c]) \/ (pc[c] \in MidMove /\ cn = frame[c].to)
                     THEN {"leftOpen"} ELSE {})
               \cup (IF \/ pc[c] = "delKey" /\ reached /\ frame[c].item # Nil
                        \/ pc[c] = "moveExec" /\ frame[c].item # Nil /\ ~reached
                     THEN {"lostInMove"} ELSE {}))
  BY DEF Lose
<1>2. /\ (IF reached THEN Crossed(c) \cup Moved(c) ELSE {}) = {}
      /\ (IF \/ pc[c] = "delKey" /\ reached /\ frame[c].item # Nil
             \/ pc[c] = "moveExec" /\ frame[c].item # Nil /\ ~reached
          THEN {"lostInMove"} ELSE {}) = {}
  BY <1>1 DEF Tear
<1>. QED BY <1>1, <1>2

\* A connection is lost.
LEMMA LoseShows ==
  ASSUME CallInv, Held, Shown, CallInv', Held', torn' = {}, NEW c \in Clients, Lose(c)
  PROVE  Unseen \/ Written(c)
<1>1. pc[c] \in Busy /\ Go(c, "idle", NoFrame) /\ PlainGo(c)
  BY LoseParts, StepsPlain DEF Held
<1>2. PICK reached \in BOOLEAN :
           /\ Serve(HostOf(c), IF reached THEN Executes(c) ELSE <<>>)
           /\ reached => Crossed(c) = {} /\ Moved(c) = {} /\ (pc[c] = "delKey" => frame[c].item = Nil)
           /\ ~reached /\ pc[c] = "moveExec" => frame[c].item = Nil
  BY LoseTearsNot
<1>3. "idle" \notin MidMove /\ "idle" # "moveExec" /\ NoFrame.item = Nil /\ pc[c] # "idle"
  BY <1>1, StartLocals DEF MidMove, Busy
<1>4. CASE ~reached
  <2>1. Serve(HostOf(c), <<>>)
    BY <1>2, <1>4
  <2>2. db' = db
    BY <1>1, <2>1, EmptyServe
  <2>. QED BY <1>1, <1>2, <1>4, <2>2, QuietUnseen
<1>5. CASE reached
  <2>1. Serve(HostOf(c), Executes(c)) /\ Crossed(c) = {} /\ Moved(c) = {}
    BY <1>2, <1>5
  <2>2. CASE pc[c] \in {"write", "forward", "exec"}
    <3>1. Written(c)
      BY <1>1, <1>3, <2>1, <2>2, AskedWritten
    <3>. QED BY <3>1
  <2>3. CASE pc[c] \in {"multi", "moveMulti", "discard", "store"}
    <3>1. Executes(c) = <<>>
      BY <1>1, <2>3, ExecutesOf
    <3>2. Serve(HostOf(c), <<>>)
      BY <2>1, <3>1
    <3>3. db' = db /\ pc[c] # "moveExec"
      BY <1>1, <2>3, <3>2, EmptyServe
    <3>. QED BY <1>1, <3>3, QuietUnseen
  <2>4. CASE pc[c] \in Quiets
    <3> DEFINE X == Executes(c)
    <3>1. X \in {Executes(c), <<>>} /\ Serve(HostOf(c), X)
      BY <2>1
    <3> HIDE DEF X
    <3>2. db' = db /\ pc[c] # "moveExec"
      BY <2>4, <3>1, ReadingLeaves DEF Quiets
    <3>. QED BY <1>1, <3>2, QuietUnseen
  <2>5. CASE pc[c] = "delKey"
    <3>1. Still
      BY <1>1, <1>2, <1>5, <2>1, <2>5, DeleteStill
    <3>. QED BY <1>1, <1>3, <3>1, TakesNothing DEF Unseen
  <2>6. CASE pc[c] = "moveExec"
    <3>1. Still
      BY <1>1, <1>3, <2>1, <2>6, MoveExecStill
    <3>. QED BY <1>1, <1>3, <3>1, TakesNothing DEF Unseen
  <2>. QED BY <1>1, <2>2, <2>3, <2>4, <2>5, <2>6 DEF Busy, Steps, Quiets
<1>. QED BY <1>4, <1>5

\* Every step that tears nothing.
LEMMA StepShows ==
  ASSUME CallInv, Held, Shown, CallInv', Held', torn' = {}, [Next]_vars
  PROVE  Unseen \/ \E c \in Clients : Written(c)
<1>1. ASSUME NEW c \in Clients, Starts(c) PROVE Unseen
  BY <1>1, ThinkingUnseen
<1>2. ASSUME NEW c \in Clients, Step(c) PROVE Unseen \/ Written(c)
  <2>1. CASE Scan(c) \/ Return(c)
    BY <2>1, ThinkingUnseen
  <2>2. CASE Read(c) \/ ReadPrev(c) \/ Mget(c) \/ List(c)
    BY <2>2, ReadingUnseen
  <2>3. CASE Forward(c)
    BY <2>3, ForwardShows
  <2>4. CASE Write(c)
    BY <2>4, WriteShows
  <2>5. CASE MoveType(c) \/ MoveFetch(c) \/ MoveMulti(c) \/ MoveStore(c)
    BY <2>5, MoveTypeUnseen, MoveFetchUnseen, MoveQueuesUnseen
  <2>6. CASE MoveDelete(c) \/ MoveExec(c)
    BY <2>6, MoveEndsUnseen
  <2>7. ~Throw(c)
    BY DEF Throw, Tear
  <2>. QED BY <1>2, <2>1, <2>2, <2>3, <2>4, <2>5, <2>6, <2>7 DEF Step, Move
<1>3. ASSUME NEW c \in Clients, Lose(c) PROVE Unseen \/ Written(c)
  BY <1>3, LoseShows
<1>4. CASE (\E h \in Servers : Fill(h)) \/ UNCHANGED vars
  <2>1. UNCHANGED <<db, pc, frame>>
    BY <1>4 DEF Fill, vars
  <2>2. Still
    <3> SUFFICES ASSUME NEW k \in Keys PROVE Logical(k)' = Logical(k)
      BY DEF Still
    <3>1. At(HomeOf(k), k)' = At(HomeOf(k), k) /\ Before(k)' = Before(k)
      BY <2>1 DEF At, Before
    <3>2. \A d \in Clients : (Carrying(d, k)' <=> Carrying(d, k)) /\ frame'[d].item = frame[d].item
      BY <2>1 DEF Carrying, InHand
    <3>3. Hand(k)' = Hand(k)
      BY <3>2, HandStays
    <3>. QED BY <3>1, <3>3, SeenSame
  <2>3. TakesSeen
    BY <2>1 DEF TakesSeen, InHand
  <2>. QED BY <2>2, <2>3 DEF Unseen
<1>. QED BY <1>1, <1>2, <1>3, <1>4 DEF Next, Starts

\* What the processes hold and what is seen, after every step.
LEMMA ShowSteps ==
  ASSUME ShowInv, [Next]_vars
  PROVE  /\ ShowInv'
         /\ torn' = {} => Unseen \/ \E c \in Clients : Written(c)
<1>1. HoldInv /\ HoldInv' /\ CallInv /\ CallInv'
  BY HoldSteps DEF ShowInv, HoldInv
<1>2. ASSUME torn' = {} PROVE Shown' /\ (Unseen \/ \E c \in Clients : Written(c))
  <2>1. torn = {}
    BY <1>2, TornGrows
  <2>2. Held /\ Held' /\ Shown
    BY <1>1, <1>2, <2>1 DEF HoldInv, ShowInv
  <2>3. Unseen \/ \E c \in Clients : Written(c)
    BY <1>1, <1>2, <2>2, StepShows
  <2>. QED BY <2>2, <2>3, ShownStays
<1>. QED BY <1>1, <1>2 DEF ShowInv

\* At first no value is in the hands of a process.
LEMMA StartShows ==
  ASSUME Init
  PROVE  ShowInv
<1>1. frame = [c \in Clients |-> NoFrame]
  BY DEF Init
<1>2. Shown
  BY <1>1, StartLocals DEF Shown, InHand
<1>. QED BY <1>2, StartHolds DEF ShowInv

\* A migration does not show: unless something of it is torn, a step changes what the
\* applications see of the keys only by the commands one of them has sent, as one server would.
THEOREM OnlyWritesAreSeen == Spec => OnlyWritesShow
<1>1. Init => ShowInv
  BY StartShows
<1>2. ShowInv /\ [Next]_vars => ShowInv'
  BY ShowSteps
<1>3. ShowInv /\ [Next]_vars =>
        [torn' = {} => \/ View' = View
                       \/ \E c \in Clients :
                            /\ Stepped(c) /\ Waits(c)
                            /\ LET cmds == Only(Executes(c), {x \in ToSet(Executes(c)) : x.user})
                               IN View' = RunAll([data |-> View, index |-> {}], cmds).data]_vars
  <2> SUFFICES ASSUME ShowInv, [Next]_vars, torn' = {}
               PROVE  \/ View' = View
                      \/ \E c \in Clients :
                            /\ Stepped(c) /\ Waits(c)
                            /\ LET cmds == Only(Executes(c), {x \in ToSet(Executes(c)) : x.user})
                               IN View' = RunAll([data |-> View, index |-> {}], cmds).data
    OBVIOUS
  <2>1. Unseen \/ \E c \in Clients : Written(c)
    BY ShowSteps
  <2>2. Unseen => View' = View
    BY StillView DEF Unseen
  <2>3. ASSUME NEW c \in Clients, Written(c)
        PROVE  /\ Stepped(c) /\ Waits(c)
               /\ LET cmds == Only(Executes(c), {x \in ToSet(Executes(c)) : x.user})
                  IN View' = RunAll([data |-> View, index |-> {}], cmds).data
    BY <2>3 DEF Written, Shows, Users
  <2>. QED BY <2>1, <2>2, <2>3
<1>. QED BY <1>1, <1>2, <1>3, PTL DEF Spec, OnlyWritesShow
=============================================================================
