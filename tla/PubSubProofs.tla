---------------------------- MODULE PubSubProofs ----------------------------
(***************************************************************************)
(* Loops of subscribe() and psubscribe() for any names and any number of    *)
(* nested calls: type correctness, the subscriptions the server has, and    *)
(* each message handed over once, in order, to its callback.                *)
(***************************************************************************)
EXTENDS PubSub, FiniteSetTheorems, SequenceTheorems, TLAPS

-----------------------------------------------------------------------------
(* The messages of a sequence. *)

\* Induction, with the set of the numbers that have the property.
LEMMA Climb ==
  ASSUME NEW P, 0 \in P, \A n \in Nat : n \in P => n + 1 \in P
  PROVE  Nat \subseteq P
<1> DEFINE Bad == Nat \ P
<1> SUFFICES ASSUME Bad # {} PROVE FALSE
  OBVIOUS
<1>1. PICK n \in Bad : \A k \in Bad : ~(k < n)
  <2>1. PICK n \in Bad : \A k \in Bad : <<k, n>> \notin OpToRel(<, Nat)
    <3>1. Bad \subseteq Nat
      OBVIOUS
    <3> HIDE DEF Bad
    <3>. QED BY <3>1, NatLessThanWellFounded, WFMin
  <2>2. \A k \in Nat : k < n => <<k, n>> \in OpToRel(<, Nat)
    BY DEF OpToRel
  <2>. QED BY <2>1, <2>2
<1>2. n # 0 /\ n - 1 \in Nat /\ n - 1 \notin Bad
  BY <1>1
<1>. QED BY <1>1, <1>2

\* m[i] are the messages among the first i of q.
Step(q, i, x)   == IF IsMessage(q[i]) THEN Append(x, q[i]) ELSE x
Counting(m, q, n) ==
  /\ m \in [0..n -> Seq(Item)] /\ m[0] = <<>>
  /\ \A i \in 1..n : m[i] = Step(q, i, m[i - 1])

LEMMA CountingExists ==
  ASSUME NEW q \in Seq(Item)
  PROVE  \E m : Counting(m, q, Len(q))
<1> DEFINE P == {n \in Nat : n <= Len(q) => \E m : Counting(m, q, n)}
<1>1. 0 \in P
  <2>1. Counting([i \in 0..0 |-> <<>>], q, 0)
    BY DEF Counting
  <2>. QED BY <2>1
<1>2. ASSUME NEW n \in Nat, n \in P PROVE n + 1 \in P
  <2>1. CASE n + 1 <= Len(q)
    <3>1. PICK m : Counting(m, q, n)
      BY <1>2, <2>1
    <3> DEFINE e == [i \in 0..n + 1 |-> IF i = n + 1 THEN Step(q, i, m[n]) ELSE m[i]]
    <3>2. q[n + 1] \in Item /\ m[n] \in Seq(Item) /\ m \in [0..n -> Seq(Item)]
      BY <2>1, <3>1 DEF Counting
    <3>3. Step(q, n + 1, m[n]) \in Seq(Item)
      BY <3>2 DEF Step
    <3>4. e \in [0..n + 1 -> Seq(Item)] /\ e[0] = <<>>
      BY <3>1, <3>2, <3>3 DEF Counting
    <3>5. ASSUME NEW i \in 1..n + 1 PROVE e[i] = Step(q, i, e[i - 1])
      <4>1. CASE i = n + 1
        BY <4>1
      <4>2. CASE i # n + 1
        <5>1. i \in 1..n /\ e[i] = m[i] /\ e[i - 1] = m[i - 1]
          BY <4>2
        <5>. QED BY <3>1, <5>1 DEF Counting
      <4>. QED BY <4>1, <4>2
    <3>6. Counting(e, q, n + 1)
      BY <3>4, <3>5 DEF Counting
    <3>. QED BY <2>1, <3>6
  <2>2. CASE ~(n + 1 <= Len(q))
    BY <2>2
  <2>. QED BY <2>1, <2>2
<1> HIDE DEF P
<1>3. Nat \subseteq P
  BY <1>1, <1>2, Climb
<1>. QED BY <1>3 DEF P

LEMMA CountingIsMessages ==
  ASSUME NEW q \in Seq(Item), NEW m, Counting(m, q, Len(q))
  PROVE  Messages(q) = m[Len(q)] /\ Messages(q) \in Seq(Item)
<1> DEFINE Def(f) == [i \in 0..Len(q) |->
                        IF i = 0 THEN <<>> ELSE IF IsMessage(q[i]) THEN Append(f[i - 1], q[i]) ELSE f[i - 1]]
           d == CHOOSE f : f = Def(f)
<1>1. m = Def(m)
  <2>1. m \in [0..Len(q) -> Seq(Item)] /\ Len(q) \in Nat
    BY DEF Counting
  <2>2. ASSUME NEW i \in 0..Len(q) PROVE m[i] = Def(m)[i]
    <3>1. CASE i = 0
      BY <3>1 DEF Counting
    <3>2. CASE i # 0
      <4>1. i \in 1..Len(q)
        BY <2>1, <3>2
      <4>2. m[i] = Step(q, i, m[i - 1])
        BY <4>1 DEF Counting
      <4>. QED BY <3>2, <4>2 DEF Step
    <3>. QED BY <3>1, <3>2
  <2>. QED BY <2>1, <2>2
<1>2. d = Def(d)
  BY <1>1
<1>3. Messages(q) = d[Len(q)]
  BY DEF Messages
<1> DEFINE P == {n \in Nat : n <= Len(q) => d[n] = m[n]}
<1>4. d[0] = <<>> /\ \A i \in 1..Len(q) : d[i] = Step(q, i, d[i - 1])
  <2> HIDE DEF d
  <2>1. d[0] = <<>>
    <3>1. 0 \in 0..Len(q)
      OBVIOUS
    <3>. QED BY <1>2, <3>1, Zenon
  <2>2. ASSUME NEW i \in 1..Len(q) PROVE d[i] = Step(q, i, d[i - 1])
    <3>1. i \in 0..Len(q) /\ i # 0
      OBVIOUS
    <3>. QED BY <1>2, <3>1, Zenon DEF Step
  <2>. QED BY <2>1, <2>2
<1> HIDE DEF d, Def
<1>5. 0 \in P
  BY <1>4 DEF Counting
<1>6. ASSUME NEW n \in Nat, n \in P PROVE n + 1 \in P
  <2>1. CASE n + 1 <= Len(q)
    <3>1. n + 1 \in 1..Len(q) /\ (n + 1) - 1 = n /\ d[n] = m[n]
      BY <1>6, <2>1
    <3>. QED BY <1>4, <3>1 DEF Counting
  <2>2. CASE ~(n + 1 <= Len(q))
    BY <2>2
  <2>. QED BY <2>1, <2>2
<1> HIDE DEF P
<1>7. Nat \subseteq P
  BY <1>5, <1>6, Climb
<1>8. d[Len(q)] = m[Len(q)]
  BY <1>7 DEF P
<1>. QED BY <1>3, <1>8 DEF Counting

LEMMA MessagesType == \A q \in Seq(Item) : Messages(q) \in Seq(Item)
BY CountingExists, CountingIsMessages

LEMMA MessagesEmpty == Messages(<<>>) = <<>>
<1>1. <<>> \in Seq(Item) /\ Len(<<>>) = 0
  OBVIOUS
<1>2. PICK m : Counting(m, <<>>, 0)
  BY <1>1, CountingExists
<1>. QED BY <1>1, <1>2, CountingIsMessages DEF Counting

LEMMA AppendLast ==
  ASSUME NEW p \in Seq(Item), NEW q \in Seq(Item), NEW x \in Item
  PROVE  p \o Append(q, x) = Append(p \o q, x)
OBVIOUS

LEMMA SubSeqLast ==
  ASSUME NEW q \in Seq(Item), NEW j \in 1..Len(q)
  PROVE  /\ SubSeq(q, 1, j - 1) \in Seq(Item) /\ q[j] \in Item
         /\ SubSeq(q, 1, j) = Append(SubSeq(q, 1, j - 1), q[j])
OBVIOUS

\* What is no message adds none.
LEMMA MessagesPlain ==
  ASSUME NEW q \in Seq(Item), NEW r \in Seq(Item), \A i \in 1..Len(r) : ~IsMessage(r[i])
  PROVE  Messages(q \o r) = Messages(q)
<1> DEFINE u == q \o r
<1>1. PICK m : Counting(m, q, Len(q))
  BY CountingExists
<1>2. /\ u \in Seq(Item) /\ Len(u) = Len(q) + Len(r) /\ Len(q) \in Nat /\ Len(r) \in Nat
      /\ \A i \in 1..Len(u) : u[i] = IF i <= Len(q) THEN q[i] ELSE r[i - Len(q)]
  OBVIOUS
<1> DEFINE e == [i \in 0..Len(u) |-> IF i <= Len(q) THEN m[i] ELSE m[Len(q)]]
<1>3. m \in [0..Len(q) -> Seq(Item)] /\ m[0] = <<>>
  BY <1>1 DEF Counting
<1> HIDE DEF u
<1>4. e \in [0..Len(u) -> Seq(Item)] /\ e[0] = <<>>
  BY <1>2, <1>3
<1>5. ASSUME NEW i \in 1..Len(u) PROVE e[i] = Step(u, i, e[i - 1])
  <2>1. CASE i <= Len(q)
    <3>1. i \in 1..Len(q) /\ e[i] = m[i] /\ e[i - 1] = m[i - 1] /\ u[i] = q[i]
      BY <1>2, <2>1
    <3>. QED BY <1>1, <3>1 DEF Counting, Step
  <2>2. CASE ~(i <= Len(q))
    <3>1. i - Len(q) \in 1..Len(r) /\ u[i] = r[i - Len(q)] /\ e[i] = m[Len(q)] /\ e[i - 1] = m[Len(q)]
      BY <1>2, <2>2
    <3>. QED BY <3>1 DEF Step
  <2>. QED BY <2>1, <2>2
<1>6. Counting(e, u, Len(u)) /\ e[Len(u)] = m[Len(q)]
  <2>1. Counting(e, u, Len(u))
    BY <1>4, <1>5 DEF Counting
  <2>2. Len(u) \in 0..Len(u) /\ (Len(u) <= Len(q) => Len(u) = Len(q))
    BY <1>2
  <2>. QED BY <2>1, <2>2
<1>7. Messages(q) = m[Len(q)] /\ Messages(u) = e[Len(u)]
  BY <1>1, <1>2, <1>6, CountingIsMessages
<1>. QED BY <1>6, <1>7 DEF u

LEMMA MessagesMore ==
  ASSUME NEW q \in Seq(Item), NEW r \in Seq(Item), \A i \in 1..Len(r) : IsMessage(r[i])
  PROVE  Messages(q \o r) = Messages(q) \o r
<1> DEFINE u == q \o r
<1>1. PICK m : Counting(m, q, Len(q))
  BY CountingExists
<1>2. /\ u \in Seq(Item) /\ Len(u) = Len(q) + Len(r) /\ Len(q) \in Nat /\ Len(r) \in Nat
      /\ \A i \in 1..Len(u) : u[i] = IF i <= Len(q) THEN q[i] ELSE r[i - Len(q)]
  OBVIOUS
<1>3. m \in [0..Len(q) -> Seq(Item)] /\ m[0] = <<>> /\ m[Len(q)] \in Seq(Item)
  BY <1>1 DEF Counting
<1> DEFINE p == m[Len(q)]
           e == [i \in 0..Len(u) |-> IF i <= Len(q) THEN m[i] ELSE p \o SubSeq(r, 1, i - Len(q))]
<1> HIDE DEF u, p
<1>4. e \in [0..Len(u) -> Seq(Item)] /\ e[0] = <<>>
  <2>1. ASSUME NEW i \in 0..Len(u) PROVE e[i] \in Seq(Item)
    <3>1. CASE i <= Len(q)
      <4>1. i \in 0..Len(q) /\ e[i] = m[i]
        BY <1>2, <3>1
      <4>. QED BY <1>3, <4>1
    <3>2. CASE ~(i <= Len(q))
      <4>1. SubSeq(r, 1, i - Len(q)) \in Seq(Item) /\ p \in Seq(Item)
        BY <1>2, <1>3, <3>2 DEF p
      <4>. QED BY <3>2, <4>1
    <3>. QED BY <3>1, <3>2
  <2>2. 0 <= Len(q) /\ 0 \in 0..Len(u)
    BY <1>2
  <2>. QED BY <1>3, <2>1, <2>2
<1>5. ASSUME NEW i \in 1..Len(u) PROVE e[i] = Step(u, i, e[i - 1])
  <2>1. CASE i <= Len(q)
    <3>1. i \in 1..Len(q) /\ e[i] = m[i] /\ e[i - 1] = m[i - 1] /\ u[i] = q[i]
      BY <1>2, <2>1
    <3>. QED BY <1>1, <3>1 DEF Counting, Step
  <2>2. CASE ~(i <= Len(q))
    <3> DEFINE j == i - Len(q)
    <3>1. j \in 1..Len(r) /\ u[i] = r[j] /\ e[i] = p \o SubSeq(r, 1, j) /\ IsMessage(r[j])
      <4>1. j \in 1..Len(r) /\ i \in 0..Len(u)
        BY <1>2, <2>2
      <4>2. u[i] = r[j]
        BY <1>2, <2>2
      <4>3. e[i] = p \o SubSeq(r, 1, j)
        BY <2>2, <4>1
      <4>. QED BY <4>1, <4>2, <4>3
    <3>2. e[i - 1] = p \o SubSeq(r, 1, j - 1)
      <4>1. CASE j = 1
        <5>1. i - 1 = Len(q) /\ e[i - 1] = p
          BY <1>2, <4>1 DEF p
        <5>2. SubSeq(r, 1, 0) = <<>> /\ p \o <<>> = p /\ j - 1 = 0
          BY <1>3, <4>1 DEF p
        <5> HIDE DEF e, j
        <5>. QED BY <5>1, <5>2
      <4>2. CASE j # 1
        <5>1. i - 1 \in 0..Len(u) /\ ~(i - 1 <= Len(q)) /\ (i - 1) - Len(q) = j - 1
          BY <1>2, <3>1, <4>2
        <5>2. e[i - 1] = p \o SubSeq(r, 1, (i - 1) - Len(q))
          BY <5>1
        <5> HIDE DEF e, j
        <5>. QED BY <5>1, <5>2
      <4>. QED BY <4>1, <4>2
    <3> HIDE DEF j, e
    <3>3. p \in Seq(Item)
      BY <1>3 DEF p
    <3>4. p \o SubSeq(r, 1, j) = Append(p \o SubSeq(r, 1, j - 1), r[j])
      <4>1. /\ SubSeq(r, 1, j - 1) \in Seq(Item) /\ r[j] \in Item
            /\ SubSeq(r, 1, j) = Append(SubSeq(r, 1, j - 1), r[j])
        BY <3>1, SubSeqLast
      <4> DEFINE b == SubSeq(r, 1, j - 1)
      <4>2. b \in Seq(Item)
        BY <4>1
      <4> HIDE DEF b
      <4>3. p \o Append(b, r[j]) = Append(p \o b, r[j])
        BY <3>3, <4>1, <4>2, AppendLast
      <4>. QED BY <4>1, <4>3 DEF b
    <3>. QED BY <3>1, <3>2, <3>4 DEF Step
  <2>. QED BY <2>1, <2>2
<1>6. Counting(e, u, Len(u))
  BY <1>4, <1>5 DEF Counting
<1>7. Messages(q) = p /\ Messages(u) = e[Len(u)]
  BY <1>1, <1>2, <1>6, CountingIsMessages DEF p
<1>8. e[Len(u)] = p \o r
  <2>1. CASE Len(r) = 0
    <3>1. r = <<>> /\ Len(u) = Len(q) /\ e[Len(u)] = p
      BY <1>2, <2>1 DEF p
    <3>. QED BY <1>3, <3>1 DEF p
  <2>2. CASE Len(r) # 0
    <3>1. Len(u) - Len(q) = Len(r) /\ ~(Len(u) <= Len(q)) /\ SubSeq(r, 1, Len(r)) = r /\ Len(u) \in 0..Len(u)
      BY <1>2, <2>2
    <3>. QED BY <3>1
  <2>. QED BY <1>2, <2>1, <2>2
<1>. QED BY <1>7, <1>8 DEF u

LEMMA MessagesTail ==
  ASSUME NEW q \in Seq(Item), q # <<>>
  PROVE  Messages(q) = IF IsMessage(Head(q)) THEN <<Head(q)>> \o Messages(Tail(q)) ELSE Messages(Tail(q))
<1> DEFINE t == Tail(q)
           h == IF IsMessage(Head(q)) THEN <<Head(q)>> ELSE <<>>
<1>1. /\ t \in Seq(Item) /\ Len(q) = Len(t) + 1 /\ Len(t) \in Nat /\ Head(q) = q[1] /\ q[1] \in Item
      /\ \A i \in 1..Len(t) : t[i] = q[i + 1]
  OBVIOUS
<1> HIDE DEF t
<1>2. PICK m : Counting(m, t, Len(t))
  BY <1>1, CountingExists
<1>3. m \in [0..Len(t) -> Seq(Item)] /\ m[0] = <<>>
  BY <1>2 DEF Counting
<1>4. h \in Seq(Item)
  BY <1>1
<1> HIDE DEF h
<1> DEFINE e == [i \in 0..Len(q) |-> IF i = 0 THEN <<>> ELSE h \o m[i - 1]]
<1>5. e \in [0..Len(q) -> Seq(Item)] /\ e[0] = <<>>
  <2>1. ASSUME NEW i \in 0..Len(q), i # 0 PROVE h \o m[i - 1] \in Seq(Item)
    <3>1. i - 1 \in 0..Len(t)
      BY <1>1, <2>1
    <3>2. m[i - 1] \in Seq(Item)
      BY <1>3, <3>1
    <3>. QED BY <1>4, <3>2
  <2>. QED BY <1>1, <2>1
<1>6. ASSUME NEW i \in 1..Len(q) PROVE e[i] = Step(q, i, e[i - 1])
  <2>1. CASE i = 1
    <3>1. e[1] = h \o m[0] /\ e[0] = <<>> /\ h \o <<>> = h
      <4>1. 1 \in 0..Len(q) /\ 0 \in 0..Len(q) /\ 1 - 1 = 0
        BY <1>1
      <4>2. e[1] = h \o m[1 - 1] /\ e[0] = <<>>
        BY <4>1
      <4> HIDE DEF e
      <4>. QED BY <1>4, <4>1, <4>2
    <3>2. e[i] = h /\ e[i - 1] = <<>>
      <4> HIDE DEF e
      <4>. QED BY <1>3, <2>1, <3>1
    <3> HIDE DEF e
    <3>. QED BY <1>1, <2>1, <3>2 DEF Step, h
  <2>2. CASE i # 1
    <3>1. i - 1 \in 1..Len(t) /\ e[i] = h \o m[i - 1] /\ e[i - 1] = h \o m[(i - 1) - 1] /\ t[i - 1] = q[i]
      <4>1. i - 1 \in 1..Len(t) /\ i - 1 \in 0..Len(q) /\ i \in 0..Len(q) /\ i # 0 /\ i - 1 # 0
        BY <1>1, <2>2
      <4>2. t[i - 1] = q[(i - 1) + 1] /\ (i - 1) + 1 = i
        BY <1>1, <4>1
      <4>. QED BY <4>1, <4>2
    <3>2. m[i - 1] = Step(t, i - 1, m[(i - 1) - 1])
      BY <1>2, <3>1 DEF Counting
    <3>3. m[(i - 1) - 1] \in Seq(Item) /\ q[i] \in Item
      <4>1. (i - 1) - 1 \in 0..Len(t)
        BY <1>1, <3>1
      <4>. QED BY <1>3, <4>1
    <3> HIDE DEF e
    <3>4. h \o Append(m[(i - 1) - 1], q[i]) = Append(h \o m[(i - 1) - 1], q[i])
      BY <1>4, <3>3, AppendLast
    <3>. QED BY <3>1, <3>2, <3>4 DEF Step
  <2>. QED BY <2>1, <2>2
<1>7. Counting(e, q, Len(q))
  BY <1>5, <1>6 DEF Counting
<1>8. Messages(t) = m[Len(t)] /\ Messages(q) = e[Len(q)] /\ m[Len(t)] \in Seq(Item)
  BY <1>1, <1>2, <1>3, <1>7, CountingIsMessages
<1>9. e[Len(q)] = h \o m[Len(t)]
  BY <1>1
<1>10. Messages(q) = h \o Messages(t) /\ Messages(t) \in Seq(Item)
  BY <1>8, <1>9
<1> HIDE DEF e
<1>. QED BY <1>10 DEF h, t

-----------------------------------------------------------------------------
(* Types. *)

Leavings == {Off[k] : k \in Kinds}

\* What a call reads tells which call it is.
Frames ==
  {f \in [m : Kinds \cup Leavings \cup {"command"}, id : 0..MaxCalls, left : 0..Cardinality(Names),
          built : [Names -> 0..MaxCalls], cb : 0..MaxCalls,
          pc : {"acks", "unacks", "reply", "loop", "callback"}] :
     /\ f.pc \in {"acks", "loop", "callback"} => f.m \in Kinds
     /\ f.pc = "unacks" => f.m \in Leavings}

\* A message is about a name.
Items   == {x \in Item : IsMessage(x) => x.name \in Names}
Tables  == [open : BOOLEAN, cb : [Names -> 0..MaxCalls]]
Servers == [alive : BOOLEAN, subs : SUBSET Subscription]
Wants   == [Subscription -> 0..MaxCalls]

SubsType  == subs \in [Kinds -> Tables] /\ \A k \in Kinds : ~subs[k].open => subs[k] = NoTable
StackType == stack \in Seq(Frames) /\ thrown \in BOOLEAN
NetType   == up \in BOOLEAN /\ server \in Servers /\ inbox \in Seq(Items)
SeenType  == wanted \in Wants /\ due \in Seq(Item)
CountType == calls \in 0..MaxCalls /\ faults \in 0..MaxFaults /\ published \in 0..MaxMessages
TornType  == torn \subseteq Events

Typed == SubsType /\ StackType /\ NetType /\ SeenType /\ CountType /\ TornType

LEMMA TypedParts == Typed <=> SubsType /\ StackType /\ NetType /\ SeenType /\ CountType /\ TornType
BY DEF Typed

LEMMA TypedPartsNext == Typed' <=> SubsType' /\ StackType' /\ NetType' /\ SeenType' /\ CountType' /\ TornType'
BY DEF Typed

LEMMA Bounds ==
  /\ MaxCalls \in Nat /\ MaxFaults \in Nat /\ MaxMessages \in Nat /\ Cardinality(Names) \in Nat
  /\ 0 \in 0..MaxCalls /\ 0 \in 0..MaxMessages /\ 0 \in 0..Cardinality(Names)
BY BoundsAssumption, NamesAssumption, FS_CardinalityType

LEMMA KindFacts ==
  /\ \A k \in Kinds : /\ Off[k] \in Leavings /\ Off[k] \notin Kinds /\ Message[k] \notin Kinds \cup Leavings
                      /\ Message[k] \notin {"error", "line", "rest"} /\ "command" \notin {k, Off[k]}
  /\ \A k, j \in Kinds : (Off[k] = Off[j] => k = j) /\ (Message[k] = Message[j] => k = j)
  /\ \A m \in Leavings : \E k \in Kinds : m = Off[k]
BY DEF Kinds, Off, Leavings, Message

LEMMA Constants ==
  /\ NoNames \in [Names -> 0..MaxCalls] /\ NoTable \in Tables /\ NoWants \in Wants
  /\ Fresh \in Servers /\ Gone \in Servers
  /\ \A t \in {"error", "line", "rest"} : Reply(t, None) \in Items /\ ~IsMessage(Reply(t, None))
  /\ <<>> \in Seq(Items) /\ <<>> \in Seq(Item) /\ Items \subseteq Item
  /\ \A q \in Seq(Items) : q \in Seq(Item)
<1>1. NoNames \in [Names -> 0..MaxCalls] /\ NoTable \in Tables /\ NoWants \in Wants
  BY Bounds DEF NoNames, NoTable, Tables, NoWants, Wants
<1>2. Fresh \in Servers /\ Gone \in Servers
  BY DEF Fresh, Gone, Servers
<1>3. ASSUME NEW t \in {"error", "line", "rest"} PROVE Reply(t, None) \in Items /\ ~IsMessage(Reply(t, None))
  <2>1. Reply(t, None) \in Item
    BY Bounds DEF Reply, Item
  <2>2. ~IsMessage(Reply(t, None))
    BY DEF Reply, IsMessage, Kinds, Message
  <2>. QED BY <2>1, <2>2 DEF Items
<1>4. Items \subseteq Item
  BY DEF Items
<1>5. \A q \in Seq(Items) : q \in Seq(Item)
  BY <1>4
<1>6. <<>> \in Seq(Items) /\ <<>> \in Seq(Item)
  OBVIOUS
<1>. QED BY <1>1, <1>2, <1>3, <1>4, <1>5, <1>6

\* The kind of a message is the one whose messages it has the type of.
LEMMA KindIs ==
  ASSUME NEW x, IsMessage(x)
  PROVE  KindOf(x) \in Kinds /\ Message[KindOf(x)] = x.type
BY DEF IsMessage, KindOf

LEMMA KindOfMessage ==
  ASSUME NEW x, NEW k \in Kinds, x.type = Message[k]
  PROVE  IsMessage(x) /\ KindOf(x) = k
<1>1. IsMessage(x)
  BY DEF IsMessage
<1>. QED BY <1>1, KindIs, KindFacts

LEMMA TopTypes ==
  ASSUME Typed, stack # <<>>
  PROVE  /\ Len(stack) \in Nat \ {0} /\ Top = stack[Len(stack)] /\ Top \in Frames
         /\ Front(stack) \in Seq(Frames) /\ Len(Front(stack)) = Len(stack) - 1
         /\ \A i \in 1..Len(stack) - 1 : Front(stack)[i] = stack[i]
<1>1. stack \in Seq(Frames)
  BY DEF Typed, StackType
<1>2. Len(stack) \in Nat \ {0} /\ Top = stack[Len(stack)]
  BY <1>1 DEF Top, Last
<1>3. Top \in Frames
  BY <1>1, <1>2
<1>4. Front(stack) = SubSeq(stack, 1, Len(stack) - 1)
  BY DEF Front
<1>5. /\ SubSeq(stack, 1, Len(stack) - 1) \in Seq(Frames) /\ Len(SubSeq(stack, 1, Len(stack) - 1)) = Len(stack) - 1
      /\ \A i \in 1..Len(stack) - 1 : SubSeq(stack, 1, Len(stack) - 1)[i] = stack[i]
  <2> DEFINE n == Len(stack) - 1
             z == SubSeq(stack, 1, n)
  <2>1. n \in Int /\ 1 \in Int /\ \A i \in 1..n : stack[i] \in Frames
    BY <1>1, <1>2
  <2>2. n \in Nat
    BY <1>2
  <2> HIDE DEF n
  <2>3. /\ z \in Seq(Frames) /\ Len(z) = (IF 1 <= n THEN n - 1 + 1 ELSE 0)
        /\ \A i \in 1..n - 1 + 1 : z[i] = stack[1 + i - 1]
    BY <2>1, SubSeqProperties
  <2> HIDE DEF z
  <2>4. Len(z) = n /\ \A i \in 1..n : z[i] = stack[i]
    BY <2>2, <2>3
  <2>. QED BY <2>3, <2>4 DEF n, z
<1>. QED BY <1>2, <1>3, <1>4, <1>5

\* The stack after a call has returned, or has gone on with f.
LEMMA Popped ==
  ASSUME Typed, stack # <<>>, stack' = Front(stack)
  PROVE  stack' \in Seq(Frames)
BY TopTypes

LEMMA TopSet ==
  ASSUME Typed, stack # <<>>, NEW f \in Frames, SetTop(f)
  PROVE  /\ stack' \in Seq(Frames) /\ Len(stack') = Len(stack) /\ stack' # <<>>
         /\ stack'[Len(stack)] = f /\ Last(stack') = f
         /\ \A i \in 1..Len(stack) - 1 : stack'[i] = stack[i]
<1> DEFINE p == Front(stack)
<1>1. /\ p \in Seq(Frames) /\ Len(p) = Len(stack) - 1 /\ Len(stack) \in Nat \ {0}
      /\ \A i \in 1..Len(stack) - 1 : p[i] = stack[i]
  BY TopTypes
<1>2. stack' = p \o <<f>>
  BY DEF SetTop
<1> HIDE DEF p
<1>. QED BY <1>1, <1>2 DEF Last

LEMMA Pushed ==
  ASSUME Typed, NEW f \in Frames, stack' = Append(stack, f)
  PROVE  /\ stack' \in Seq(Frames) /\ Len(stack') = Len(stack) + 1 /\ stack' # <<>> /\ Last(stack') = f
         /\ stack'[Len(stack) + 1] = f /\ \A i \in 1..Len(stack) : stack'[i] = stack[i]
BY DEF Typed, StackType, Last


\* The answers to a command on the given names.
Replied(items, type, names) ==
  /\ items \in Seq(Items) /\ Len(items) = Cardinality(names)
  /\ \A i \in 1..Len(items) : items[i].type = type /\ items[i].name \in names /\ ~IsMessage(items[i])
  /\ \A n \in names : \E i \in 1..Len(items) : items[i].name = n

LEMMA Replies ==
  ASSUME NEW names \in SUBSET Names, NEW type \in Kinds \cup Leavings
  PROVE  /\ Cardinality(names) \in 0..Cardinality(Names) /\ (names # {} => Cardinality(names) > 0)
         /\ Replied([i \in 1..Cardinality(names) |-> Reply(type, SetToSeq(names)[i])], type, names)
<1> DEFINE n == Cardinality(names)
           s == SetToSeq(names)
           items == [i \in 1..n |-> Reply(type, s[i])]
<1>1. IsFiniteSet(names) /\ n \in Nat /\ n <= Cardinality(Names)
  BY NamesAssumption, FS_Subset, FS_CardinalityType
<1>2. names # {} => n # 0
  BY <1>1, FS_EmptySet
<1>3. ExistsBijection(1..n, names)
  BY <1>1, FS_CardinalityType
<1>4. \E f \in [1..n -> names] : IsInjective(f)
  BY <1>3 DEF ExistsBijection, Bijection, Injection, IsInjective
<1>5. s \in [1..n -> names] /\ IsInjective(s)
  BY <1>4 DEF SetToSeq
<1>6. \A x \in names : \E i \in 1..n : s[i] = x
  <2>1. s \in Injection(1..n, names)
    BY <1>5 DEF Injection
  <2>2. IsFiniteSet(1..n) /\ Cardinality(1..n) = n
    BY <1>1, FS_Interval
  <2>3. s \in Surjection(1..n, names)
    BY <1>1, <2>1, <2>2, FS_Injection
  <2>. QED BY <2>3 DEF Surjection
<1> HIDE DEF s, n
<1>7. ASSUME NEW x \in Names PROVE Reply(type, x) \in Items /\ ~IsMessage(Reply(type, x))
  BY Bounds DEF Reply, Item, Items, Leavings, IsMessage, Kinds, Message, Off
<1>8. items \in Seq(Items) /\ Len(items) = n /\ \A i \in 1..n : items[i] = Reply(type, s[i])
  BY <1>1, <1>5, <1>7
<1>9. Replied(items, type, names)
  <2> HIDE DEF items
  <2>1. \A i \in 1..n : items[i].type = type /\ items[i].name = s[i] /\ ~IsMessage(items[i])
    BY <1>5, <1>7, <1>8 DEF Reply
  <2>. QED BY <1>5, <1>6, <1>8, <2>1 DEF Replied, n
<1>. QED BY <1>1, <1>2, <1>9 DEF n, s

\* The server and the records a command is written to.
ServerNow == IF Reopened THEN Fresh ELSE server
WantsNow  == IF Reopened THEN NoWants ELSE wanted
Give(w, subset, value) == [p \in Subscription |-> IF p \in subset THEN value ELSE w[p]]

\* What comes of writing command m.
Unanswered == ~ServerNow.alive /\ server' = ServerNow /\ wanted' = WantsNow /\ inbox' = inbox
Granted(m, names, id) ==
  /\ ServerNow.alive /\ m \in Kinds
  /\ server' = [ServerNow EXCEPT !.subs = @ \cup ({m} \X names)] /\ wanted' = Give(WantsNow, {m} \X names, id)
  /\ \E items : Replied(items, m, names) /\ inbox' = inbox \o items
Refused(m) ==
  /\ ServerNow.alive /\ m \in Kinds
  /\ server' = ServerNow /\ wanted' = WantsNow /\ inbox' = inbox \o <<Reply("error", None)>>
Dropped(m, names) ==
  /\ ServerNow.alive
  /\ \E k \in Kinds : /\ m = Off[k]
                      /\ server' = [ServerNow EXCEPT !.subs = @ \ ({k} \X names)]
                      /\ wanted' = Give(WantsNow, {k} \X names, 0)
  /\ \E items : Replied(items, m, names) /\ inbox' = inbox \o items
Performed(m) ==
  /\ ServerNow.alive /\ m = "command"
  /\ server' = ServerNow /\ wanted' = WantsNow
  /\ \E type \in {"line", "error"} : inbox' = inbox \o <<Reply(type, None)>>

LEMMA WrittenSays ==
  ASSUME Typed, NEW m \in Kinds \cup Leavings \cup {"command"}, NEW names \in SUBSET Names, NEW id, NEW f,
         Written(m, names, id, f)
  PROVE  /\ up' = TRUE /\ calls' = calls + 1 /\ stack' = Append(stack, f)
         /\ torn' = IF Reopened /\ stack # <<>> THEN torn \cup {"reconnected"} ELSE torn
         /\ UNCHANGED <<subs, thrown, due, published>> /\ faults' \in 0..MaxFaults
         /\ Unanswered \/ Granted(m, names, id) \/ Refused(m) \/ Dropped(m, names) \/ Performed(m)
<1>1. /\ up' = TRUE /\ calls' = calls + 1 /\ stack' = Append(stack, f)
      /\ torn' = IF Reopened /\ stack # <<>> THEN torn \cup {"reconnected"} ELSE torn
      /\ UNCHANGED <<subs, thrown, due, published>>
  BY DEF Written
<1>2. faults' \in 0..MaxFaults
  <2>1. faults' = faults \/ Fault
    BY DEF Written
  <2>2. faults \in 0..MaxFaults
    BY DEF Typed, CountType
  <2>. QED BY <2>1, <2>2, Bounds DEF Fault
<1> DEFINE replies(type) == [i \in 1..Cardinality(names) |-> Reply(type, SetToSeq(names)[i])]
           Answers(set, want, items) ==
             /\ server' = [ServerNow EXCEPT !.subs = IF ServerNow.alive THEN set ELSE @]
             /\ wanted' = IF ServerNow.alive THEN want ELSE WantsNow
             /\ inbox' = IF ServerNow.alive THEN inbox \o items ELSE inbox
<1>3. \/ m \in Kinds /\ Answers(ServerNow.subs \cup ({m} \X names), Give(WantsNow, {m} \X names, id), replies(m))
      \/ m \in Kinds /\ Answers(ServerNow.subs, WantsNow, <<Reply("error", None)>>)
      \/ \E k \in Kinds : /\ Off[k] = m
                          /\ Answers(ServerNow.subs \ ({k} \X names), Give(WantsNow, {k} \X names, 0), replies(m))
      \/ m = "command" /\ Answers(ServerNow.subs, WantsNow,
                                  <<Reply(IF ServerNow.subs = {} THEN "line" ELSE "error", None)>>)
  BY DEF Written, ServerNow, WantsNow, Give
<1>4. ServerNow \in Servers
  BY Constants DEF ServerNow, Typed, NetType
<1>5. [ServerNow EXCEPT !.subs = ServerNow.subs] = ServerNow
  BY <1>4 DEF Servers
<1>6. ASSUME ~ServerNow.alive, NEW set, NEW want, NEW items, Answers(set, want, items)
      PROVE  Unanswered
  BY <1>4, <1>6 DEF Unanswered, Servers
<1>7. ASSUME ServerNow.alive, NEW set, NEW want, NEW items, Answers(set, want, items)
      PROVE  server' = [ServerNow EXCEPT !.subs = set] /\ wanted' = want /\ inbox' = inbox \o items
  BY <1>4, <1>7 DEF Servers
<1> HIDE DEF Answers
<1>8. CASE ~ServerNow.alive
  BY <1>1, <1>2, <1>3, <1>6, <1>8
<1>9. CASE ServerNow.alive
  <2>1. ASSUME m \in Kinds,
               Answers(ServerNow.subs \cup ({m} \X names), Give(WantsNow, {m} \X names, id), replies(m))
        PROVE  Granted(m, names, id)
    <3>1. Replied(replies(m), m, names)
      BY <2>1, Replies
    <3> HIDE DEF replies
    <3>. QED BY <1>7, <1>9, <2>1, <3>1 DEF Granted
  <2>2. ASSUME m \in Kinds, Answers(ServerNow.subs, WantsNow, <<Reply("error", None)>>)
        PROVE  Refused(m)
    BY <1>5, <1>7, <1>9, <2>2 DEF Refused
  <2>3. ASSUME NEW k \in Kinds, Off[k] = m,
               Answers(ServerNow.subs \ ({k} \X names), Give(WantsNow, {k} \X names, 0), replies(m))
        PROVE  Dropped(m, names)
    <3>1. Replied(replies(m), m, names)
      BY <2>3, KindFacts, Replies
    <3> HIDE DEF replies
    <3>2. /\ server' = [ServerNow EXCEPT !.subs = ServerNow.subs \ ({k} \X names)]
          /\ wanted' = Give(WantsNow, {k} \X names, 0) /\ inbox' = inbox \o replies(m)
      BY <1>7, <1>9, <2>3
    <3>3. \E j \in Kinds : /\ m = Off[j]
                          /\ server' = [ServerNow EXCEPT !.subs = @ \ ({j} \X names)]
                          /\ wanted' = Give(WantsNow, {j} \X names, 0)
      BY <2>3, <3>2
    <3>4. \E items : Replied(items, m, names) /\ inbox' = inbox \o items
      BY <3>1, <3>2
    <3>. QED BY <1>9, <3>3, <3>4 DEF Dropped
  <2>4. ASSUME m = "command", Answers(ServerNow.subs, WantsNow,
                                      <<Reply(IF ServerNow.subs = {} THEN "line" ELSE "error", None)>>)
        PROVE  Performed(m)
    BY <1>5, <1>7, <1>9, <2>4 DEF Performed
  <2> HIDE DEF replies
  <2>. QED BY <1>1, <1>2, <1>3, <2>1, <2>2, <2>3, <2>4
<1>. QED BY <1>8, <1>9

LEMMA ArrivedTypes ==
  ASSUME Typed, inbox # <<>>
  PROVE  /\ item \in Items /\ item = inbox[1] /\ Tail(inbox) \in Seq(Items)
         /\ Len(inbox) \in Nat \ {0} /\ Len(Tail(inbox)) = Len(inbox) - 1
         /\ \A i \in 1..Len(inbox) - 1 : Tail(inbox)[i] = inbox[i + 1]
BY DEF Typed, NetType, item

LEMMA ItemFields ==
  ASSUME NEW x \in Item
  PROVE  /\ x.type \in Kinds \cup Leavings \cup {Message[k] : k \in Kinds} \cup {"error", "line", "rest"}
         /\ x.name \in Names \cup {None} /\ x.id \in 0..MaxMessages
BY DEF Item, Leavings

LEMMA FrameFields ==
  ASSUME NEW f \in Frames
  PROVE  /\ f.id \in 0..MaxCalls /\ f.left \in 0..Cardinality(Names) /\ f.built \in [Names -> 0..MaxCalls]
         /\ f.m \in Kinds \cup Leavings \cup {"command"} /\ f.cb \in 0..MaxCalls
         /\ f.pc \in {"acks", "loop", "callback"} => f.m \in Kinds
         /\ f.pc = "unacks" => f.m \in Leavings
BY DEF Frames

LEMMA SeqConcat == \A S : \A q, r \in Seq(S) : q \o r \in Seq(S)
OBVIOUS

LEMMA NowTypes ==
  ASSUME Typed
  PROVE  ServerNow \in Servers /\ WantsNow \in Wants
BY Constants DEF ServerNow, WantsNow, Typed, NetType, SeenType

LEMMA GiveType ==
  ASSUME NEW w \in Wants, NEW subset, NEW value \in 0..MaxCalls
  PROVE  Give(w, subset, value) \in Wants
BY DEF Give, Wants

LEMMA WrittenTyped ==
  ASSUME Typed, calls < MaxCalls, NEW m \in Kinds \cup Leavings \cup {"command"}, NEW names \in SUBSET Names,
         NEW id \in 0..MaxCalls, NEW f \in Frames, Written(m, names, id, f)
  PROVE  Typed'
<1>1. /\ up' = TRUE /\ calls' = calls + 1 /\ stack' = Append(stack, f)
      /\ torn' = IF Reopened /\ stack # <<>> THEN torn \cup {"reconnected"} ELSE torn
      /\ UNCHANGED <<subs, thrown, due, published>> /\ faults' \in 0..MaxFaults
      /\ Unanswered \/ Granted(m, names, id) \/ Refused(m) \/ Dropped(m, names) \/ Performed(m)
  BY WrittenSays
<1>2. inbox \in Seq(Items) /\ ServerNow \in Servers /\ WantsNow \in Wants
  BY NowTypes DEF Typed, NetType
<1>3. server' \in Servers /\ wanted' \in Wants /\ inbox' \in Seq(Items)
  <2>1. CASE Unanswered
    BY <1>2, <2>1 DEF Unanswered
  <2>2. CASE Granted(m, names, id)
    <3>1. PICK items : Replied(items, m, names) /\ inbox' = inbox \o items
      BY <2>2 DEF Granted
    <3>2. inbox' \in Seq(Items)
      BY <1>2, <3>1, SeqConcat DEF Replied
    <3>3. m \in Kinds /\ {m} \X names \subseteq Subscription
      BY <2>2 DEF Granted, Subscription
    <3>4. server' \in Servers
      BY <1>2, <2>2, <3>3 DEF Granted, Servers
    <3>. QED BY <1>2, <2>2, <3>2, <3>4, GiveType DEF Granted
  <2>3. CASE Refused(m)
    <3>1. <<Reply("error", None)>> \in Seq(Items)
      BY Constants
    <3>. QED BY <1>2, <2>3, <3>1, SeqConcat DEF Refused
  <2>4. CASE Dropped(m, names)
    <3>1. PICK items : Replied(items, m, names) /\ inbox' = inbox \o items
      BY <2>4 DEF Dropped
    <3>2. inbox' \in Seq(Items)
      BY <1>2, <3>1, SeqConcat DEF Replied
    <3>3. PICK k \in Kinds : /\ server' = [ServerNow EXCEPT !.subs = @ \ ({k} \X names)]
                             /\ wanted' = Give(WantsNow, {k} \X names, 0)
      BY <2>4 DEF Dropped
    <3>4. server' \in Servers
      BY <1>2, <3>3 DEF Servers
    <3>. QED BY <1>2, <3>2, <3>3, <3>4, GiveType, Bounds
  <2>5. CASE Performed(m)
    <3>1. PICK type \in {"line", "error"} : inbox' = inbox \o <<Reply(type, None)>>
      BY <2>5 DEF Performed
    <3>2. <<Reply(type, None)>> \in Seq(Items)
      BY Constants
    <3>. QED BY <1>2, <2>5, <3>1, <3>2, SeqConcat DEF Performed
  <2>. QED BY <1>1, <2>1, <2>2, <2>3, <2>4, <2>5
<1>4. stack' \in Seq(Frames)
  BY <1>1, Pushed
<1>5. calls' \in 0..MaxCalls
  BY <1>1, Bounds DEF Typed, CountType
<1>6. torn' \subseteq Events
  BY <1>1 DEF Typed, TornType, Events
<1>. QED BY <1>1, <1>3, <1>4, <1>5, <1>6, TypedParts, TypedPartsNext
         DEF SubsType, StackType, NetType, SeenType, CountType, TornType

LEMMA NewFrame ==
  ASSUME calls \in 0..MaxCalls, calls < MaxCalls, NEW names \in SUBSET Names
  PROVE  /\ \A k \in Kinds : Frame(k, calls + 1, Cardinality(names), "acks") \in Frames
         /\ \A k \in Kinds : Frame(Off[k], 0, Cardinality(names), "unacks") \in Frames
         /\ Frame("command", 0, 0, "reply") \in Frames
         /\ calls + 1 \in 0..MaxCalls
<1>1. Cardinality(names) \in 0..Cardinality(Names)
  BY Replies DEF Leavings, Kinds
<1>. QED BY <1>1, Bounds, Constants, KindFacts DEF Frame, Frames

LEMMA CallsTyped ==
  ASSUME Typed
  PROVE  /\ \A k \in Kinds, names \in SUBSET Names : Subscribe(k, names) \/ Unsubscribe(k, names) => Typed'
         /\ Command => Typed'
<1>1. calls \in 0..MaxCalls
  BY DEF Typed, CountType
<1>2. ASSUME NEW k \in Kinds, NEW names \in SUBSET Names, Subscribe(k, names) PROVE Typed'
  <2>1. calls < MaxCalls /\ Written(k, names, calls + 1, Frame(k, calls + 1, Cardinality(names), "acks"))
    BY <1>2 DEF Subscribe, MayCall
  <2>. QED BY <1>1, <2>1, NewFrame, WrittenTyped
<1>3. ASSUME NEW k \in Kinds, NEW names \in SUBSET Names, Unsubscribe(k, names) PROVE Typed'
  <2>1. calls < MaxCalls /\ Written(Off[k], names, 0, Frame(Off[k], 0, Cardinality(names), "unacks"))
    BY <1>3 DEF Unsubscribe, MayCall
  <2>2. Off[k] \in Leavings
    BY KindFacts
  <2>. QED BY <1>1, <2>1, <2>2, NewFrame, WrittenTyped, Bounds
<1>4. ASSUME Command PROVE Typed'
  <2>1. calls < MaxCalls /\ Written("command", {}, 0, Frame("command", 0, 0, "reply"))
    BY <1>4 DEF Command, MayCall
  <2>. QED BY <1>1, <2>1, NewFrame, WrittenTyped, Bounds
<1>. QED BY <1>2, <1>3, <1>4

LEMMA ReturnTypes ==
  ASSUME Typed, stack # <<>>
  PROVE  /\ Returns => stack' \in Seq(Frames) /\ thrown' \in BOOLEAN
         /\ Throws => stack' \in Seq(Frames) /\ thrown' \in BOOLEAN
<1>1. Len(stack) \in Nat /\ Front(stack) \in Seq(Frames) /\ thrown \in BOOLEAN
  BY TopTypes DEF Typed, StackType
<1>2. (thrown /\ Len(stack) > 1) \in BOOLEAN /\ (Len(stack) > 1) \in BOOLEAN
  <2>1. CASE thrown /\ Len(stack) > 1
    BY <2>1
  <2>2. CASE ~(thrown /\ Len(stack) > 1)
    BY <2>2
  <2>. QED BY <2>1, <2>2
<1>3. ASSUME Returns PROVE stack' \in Seq(Frames) /\ thrown' \in BOOLEAN
  <2>1. stack' = Front(stack) /\ thrown' = (thrown /\ Len(stack) > 1)
    BY <1>3 DEF Returns
  <2>. QED BY <1>1, <1>2, <2>1, Zenon
<1>4. ASSUME Throws PROVE stack' \in Seq(Frames) /\ thrown' \in BOOLEAN
  <2>1. stack' = Front(stack) /\ thrown' = (Len(stack) > 1)
    BY <1>4 DEF Throws
  <2>. QED BY <1>1, <1>2, <2>1, Zenon
<1>. QED BY <1>3, <1>4, Zenon

LEMMA CountsTyped ==
  ASSUME Typed
  PROVE  /\ Fault => faults' \in 0..MaxFaults
         /\ calls < MaxCalls /\ calls' = calls + 1 => calls' \in 0..MaxCalls
         /\ published < MaxMessages => published + 1 \in 0..MaxMessages
BY Bounds DEF Fault, Typed, CountType

LEMMA DisconnectedTypes ==
  ASSUME Disconnected
  PROVE  up' \in BOOLEAN /\ server' \in Servers /\ inbox' \in Seq(Items) /\ wanted' \in Wants /\ due' \in Seq(Item)
BY Constants DEF Disconnected

LEMMA EnvironmentTyped ==
  ASSUME Typed, ServerCloses \/ StopsShort \/ ReadTimesOut \/ \E n \in Names : Publish(n)
  PROVE  Typed'
<1> USE TypedParts, TypedPartsNext
<1>1. CASE ServerCloses
  <2>1. inbox \in Seq(Items) /\ Gone \in Servers
    BY Constants DEF NetType
  <2>2. inbox' \in Seq(Items)
    BY <1>1, <2>1 DEF ServerCloses
  <2>3. due' \in Seq(Item)
    BY <1>1, <2>2, MessagesType, Constants DEF ServerCloses
  <2>. QED BY <1>1, <2>1, <2>2, <2>3, Bounds DEF ServerCloses, Fault, sock, SubsType, StackType, NetType, SeenType,
            CountType, TornType
<1>2. CASE StopsShort
  <2>1. inbox # <<>> /\ stack # <<>>
    BY <1>2 DEF StopsShort, Arrived, LoopReads, In
  <2>2. <<Reply("rest", None)>> \in Seq(Items) /\ Tail(inbox) \in Seq(Items)
    BY <2>1, Constants, ArrivedTypes
  <2>3. inbox' \in Seq(Items)
    BY <1>2, <2>2, SeqConcat DEF StopsShort
  <2>4. stack' \in Seq(Frames) /\ thrown' \in BOOLEAN
    BY <1>2, <2>1, ReturnTypes DEF StopsShort, StackType
  <2>. QED BY <1>2, <2>3, <2>4, Bounds DEF StopsShort, Fault, sock, seen, Torn, Events, SubsType, StackType, NetType,
            SeenType, CountType, TornType
<1>3. CASE ReadTimesOut
  <2>1. stack # <<>>
    BY <1>3 DEF ReadTimesOut, Reading, LoopReads, In
  <2>2. stack' \in Seq(Frames) /\ thrown' \in BOOLEAN
    BY <1>3, <2>1, ReturnTypes DEF ReadTimesOut
  <2>3. up' \in BOOLEAN /\ server' \in Servers /\ inbox' \in Seq(Items) /\ wanted' \in Wants /\ due' \in Seq(Item)
    BY <1>3, DisconnectedTypes DEF ReadTimesOut
  <2>. QED BY <1>3, <2>2, <2>3, Bounds DEF ReadTimesOut, Fault, SubsType, StackType, NetType, SeenType, CountType,
            TornType
<1>4. ASSUME NEW n \in Names, Publish(n) PROVE Typed'
  <2> DEFINE Copy(k) == IF <<k, n>> \in server.subs
                        THEN <<[type |-> Message[k], name |-> n, id |-> published + 1]>> ELSE <<>>
             copies == Copy("subscribe") \o Copy("psubscribe")
  <2>1. published + 1 \in 0..MaxMessages
    BY <1>4, CountsTyped DEF Publish
  <2>2. \A k \in Kinds : [type |-> Message[k], name |-> n, id |-> published + 1] \in Items
    BY <2>1 DEF Item, Items
  <2>3. Copy("subscribe") \in Seq(Items) /\ Copy("psubscribe") \in Seq(Items)
    BY <2>2 DEF Kinds
  <2> HIDE DEF Copy
  <2>4. copies \in Seq(Items)
    BY <2>3, SeqConcat
  <2>5. inbox' = inbox \o copies /\ due' = due \o copies
    BY <1>4 DEF Publish, Copy
  <2>6. inbox' \in Seq(Items) /\ due' \in Seq(Item)
    BY <2>4, <2>5, SeqConcat, Constants DEF NetType, SeenType
  <2>. QED BY <1>4, <2>1, <2>6 DEF Publish, sock, SubsType, StackType, NetType, SeenType, CountType, TornType
<1>. QED BY <1>1, <1>2, <1>3, <1>4

LEMMA MovesTyped ==
  ASSUME Typed, CallFails \/ Close \/ Connect \/ CallbackCatches \/ CallbackReturns
  PROVE  Typed'
<1> USE TypedParts, TypedPartsNext
<1>1. CASE CallFails
  <2>1. thrown' \in BOOLEAN /\ calls < MaxCalls
    BY <1>1 DEF CallFails, MayCall
  <2>. QED BY <1>1, <2>1, CountsTyped, DisconnectedTypes DEF CallFails, SubsType, StackType, NetType, SeenType, CountType,
            TornType
<1>2. CASE Close
  BY <1>2, CountsTyped, DisconnectedTypes DEF Close, MayCall, SubsType, StackType, NetType, SeenType, CountType, TornType
<1>3. CASE Connect
  <2>1. server' \in Servers
    BY <1>3, Constants DEF Connect
  <2>2. SubsType'
    BY <1>3, Constants DEF Connect, SubsType
  <2>. QED BY <1>3, <2>1, <2>2, Constants, Bounds DEF Connect, StackType, NetType, SeenType, CountType, TornType
<1>4. CASE CallbackCatches
  BY <1>4 DEF CallbackCatches, sock, net, seen, SubsType, StackType, NetType, SeenType, CountType, TornType
<1>5. CASE CallbackReturns
  <2>1. stack # <<>> /\ Top.pc = "callback" /\ Top \in Frames
    BY <1>5, TopTypes DEF CallbackReturns, In
  <2>2. [Top EXCEPT !.pc = "loop", !.cb = 0] \in Frames
    BY <2>1, Bounds DEF Frames
  <2>3. stack' \in Seq(Frames)
    BY <1>5, <2>1, <2>2, TopSet DEF CallbackReturns
  <2>. QED BY <1>5, <2>3 DEF CallbackReturns, sock, net, seen, SubsType, StackType, NetType, SeenType, CountType, TornType
<1>. QED BY <1>1, <1>2, <1>3, <1>4, <1>5

LEMMA AnswersTyped ==
  ASSUME Typed, ReadAck \/ ReadUnack \/ ReadReply
  PROVE  Typed'
<1> USE TypedParts, TypedPartsNext
<1>1. stack # <<>> /\ inbox # <<>> /\ Top \in Frames /\ item \in Items /\ Tail(inbox) \in Seq(Items)
  BY TopTypes, ArrivedTypes DEF ReadAck, ReadUnack, ReadReply, In, Reads, Arrived
<1>2. torn' \subseteq Events
  BY DEF ReadAck, ReadUnack, ReadReply, Swallows, Torn, Events, TornType
<1>3. CASE ReadAck
  <2>1. stack' \in Seq(Frames) /\ thrown' \in BOOLEAN
    <3>1. CASE item.type = Top.m
      <4> DEFINE f == [Top EXCEPT !.left = @ - 1, !.built[item.name] = Top.id]
      <4>1. Top.left > 0 /\ Top.left \in 0..Cardinality(Names) /\ Top.built \in [Names -> 0..MaxCalls]
            /\ Top.id \in 0..MaxCalls
        BY <1>1, <1>3, FrameFields DEF ReadAck
      <4>2. Top.left - 1 \in 0..Cardinality(Names) /\ [Top.built EXCEPT ![item.name] = Top.id] \in [Names -> 0..MaxCalls]
        <5>1. Top.left - 1 \in 0..Cardinality(Names)
          BY <4>1, Bounds
        <5>. QED BY <4>1, <5>1
      <4>3. f \in Frames
        BY <1>1, <4>2 DEF Frames
      <4>. QED BY <1>1, <1>3, <3>1, <4>3, TopSet DEF ReadAck, StackType
    <3>2. CASE item.type # Top.m
      BY <1>1, <1>3, <3>2, ReturnTypes DEF ReadAck
    <3>. QED BY <3>1, <3>2
  <2>. QED BY <1>1, <1>2, <1>3, <2>1 DEF ReadAck, Reads, sock, seen, SubsType, StackType, NetType, SeenType, CountType,
            TornType
<1>4. CASE ReadUnack
  <2>1. stack' \in Seq(Frames) /\ thrown' \in BOOLEAN /\ SubsType'
    <3>1. CASE item.name \in Names
      <4> DEFINE f == [Top EXCEPT !.left = @ - 1]
                 k == CHOOSE j \in Kinds : Off[j] = Top.m
      <4>1. Top.left > 0 /\ Top.left \in 0..Cardinality(Names) /\ Top.m \in Leavings
        BY <1>1, <1>4, FrameFields DEF ReadUnack, In
      <4>2. f \in Frames
        BY <1>1, <4>1, Bounds DEF Frames
      <4>3. k \in Kinds
        BY <4>1, KindFacts
      <4>4. subs' = [subs EXCEPT ![k].cb[item.name] = 0] /\ SetTop(f) /\ UNCHANGED thrown
        BY <1>4, <3>1 DEF ReadUnack
      <4> HIDE DEF k, f
      <4>5. SubsType'
        <5>1. subs[k] \in Tables /\ subs[k].cb \in [Names -> 0..MaxCalls]
          BY <4>3 DEF SubsType, Tables
        <5>2. [subs[k] EXCEPT !.cb[item.name] = 0] \in Tables
          BY <5>1, Bounds DEF Tables
        <5>3. ~subs[k].open => [subs[k] EXCEPT !.cb[item.name] = 0] = NoTable
          <6>1. [NoNames EXCEPT ![item.name] = 0] = NoNames
            BY <3>1 DEF NoNames
          <6>2. ~subs[k].open => subs[k] = [open |-> FALSE, cb |-> NoNames]
            BY <4>3 DEF SubsType, NoTable
          <6>. QED BY <6>1, <6>2 DEF NoTable
        <5>4. subs' = [subs EXCEPT ![k] = [subs[k] EXCEPT !.cb[item.name] = 0]]
          BY <4>3, <4>4 DEF SubsType
        <5>5. [subs[k] EXCEPT !.cb[item.name] = 0].open = subs[k].open
          BY <5>1 DEF Tables
        <5>. QED BY <4>3, <5>2, <5>3, <5>4, <5>5 DEF SubsType
      <4>. QED BY <1>1, <4>2, <4>4, <4>5, TopSet DEF StackType
    <3>2. CASE item.name \notin Names
      BY <1>1, <1>4, <3>2, ReturnTypes DEF ReadUnack, SubsType
    <3>. QED BY <3>1, <3>2
  <2>. QED BY <1>1, <1>2, <1>4, <2>1 DEF ReadUnack, Reads, seen, StackType, NetType, SeenType, CountType, TornType
<1>5. CASE ReadReply
  <2>1. <<Reply("rest", None)>> \in Seq(Items)
    BY Constants
  <2>2. inbox' \in Seq(Items)
    BY <1>1, <1>5, <2>1, SeqConcat DEF ReadReply
  <2>3. stack' \in Seq(Frames) /\ thrown' \in BOOLEAN
    BY <1>1, <1>5, ReturnTypes DEF ReadReply
  <2>. QED BY <1>2, <1>5, <2>2, <2>3 DEF ReadReply, sock, seen, SubsType, StackType, NetType, SeenType, CountType, TornType
<1>. QED BY <1>3, <1>4, <1>5

LEMMA TablesTyped ==
  ASSUME Typed, Subscribed \/ Unsubscribed
  PROVE  Typed'
<1> USE TypedParts, TypedPartsNext
<1>1. stack # <<>> /\ Top \in Frames
  BY TopTypes DEF Subscribed, Unsubscribed, In
<1>2. CASE Subscribed
  <2> DEFINE k == Top.m
  <2>1. k \in Kinds /\ Top.built \in [Names -> 0..MaxCalls] /\ Top.pc = "acks"
    BY <1>1, <1>2, FrameFields DEF Subscribed, In
  <2>2. CASE subs[k].open
    <3>1. subs[k] \in Tables /\ Merged(subs[k].cb, Top.built) \in [Names -> 0..MaxCalls]
      BY <2>1 DEF SubsType, Tables, Merged
    <3>2. subs' = [subs EXCEPT ![k].cb = Merged(@, Top.built)] /\ Returns
      BY <1>2, <2>2 DEF Subscribed
    <3>3. SubsType'
      BY <2>1, <2>2, <3>1, <3>2 DEF SubsType, Tables
    <3>4. torn' \subseteq Events
      BY <1>2, <2>2 DEF Subscribed, Torn, Events, TornType
    <3>. QED BY <1>1, <1>2, <3>2, <3>3, <3>4, ReturnTypes DEF Subscribed, net, seen, StackType, NetType, SeenType,
              CountType, TornType
  <2>3. CASE ~subs[k].open
    <3>1. subs' = [subs EXCEPT ![k] = [open |-> TRUE, cb |-> Top.built]] /\ UNCHANGED <<thrown, torn>>
          /\ SetTop([Top EXCEPT !.pc = "loop"])
      BY <1>2, <2>3 DEF Subscribed
    <3>2. SubsType'
      BY <2>1, <3>1 DEF SubsType, Tables
    <3>3. [Top EXCEPT !.pc = "loop"] \in Frames
      BY <1>1, <2>1 DEF Frames
    <3>. QED BY <1>1, <1>2, <3>1, <3>2, <3>3, TopSet DEF Subscribed, net, seen, StackType, NetType, SeenType, CountType,
              TornType
  <2>. QED BY <2>2, <2>3
<1>3. CASE Unsubscribed
  <2> DEFINE k == CHOOSE j \in Kinds : Off[j] = Top.m
  <2>1. k \in Kinds
    BY <1>1, <1>3, FrameFields, KindFacts DEF Unsubscribed, In
  <2>2. subs' = [subs EXCEPT ![k] = Kept(@)] /\ Returns
    BY <1>3 DEF Unsubscribed
  <2> HIDE DEF k
  <2>3. Kept(subs[k]) \in Tables /\ (~Kept(subs[k]).open => Kept(subs[k]) = NoTable)
    <3>1. subs[k] \in Tables
      BY <2>1 DEF SubsType
    <3>2. subs[k] = [open |-> subs[k].open, cb |-> subs[k].cb] /\ subs[k].open \in BOOLEAN
      BY <3>1 DEF Tables
    <3>3. Kept(subs[k]) = [open |-> subs[k].open /\ subs[k].cb # NoNames, cb |-> subs[k].cb]
      BY <3>2 DEF Kept
    <3>4. ~subs[k].open => subs[k].cb = NoNames
      BY <2>1 DEF SubsType, NoTable
    <3>5. subs[k].cb \in [Names -> 0..MaxCalls]
      BY <3>1 DEF Tables
    <3>6. (subs[k].open /\ subs[k].cb # NoNames) \in BOOLEAN
      BY Zenon
    <3> DEFINE b == subs[k].open /\ subs[k].cb # NoNames
    <3>7. b \in BOOLEAN /\ Kept(subs[k]) = [open |-> b, cb |-> subs[k].cb]
      BY <3>3, <3>6
    <3>8. ~b => subs[k].cb = NoNames
      BY <3>4
    <3> HIDE DEF b
    <3>9. ~b => b = FALSE
      BY <3>7
    <3>10. ASSUME ~Kept(subs[k]).open PROVE Kept(subs[k]) = NoTable
      <4>1. ~b
        BY <3>7, <3>10
      <4>2. Kept(subs[k]) = [open |-> FALSE, cb |-> NoNames]
        BY <3>7, <3>8, <3>9, <4>1
      <4>. QED BY <4>2 DEF NoTable
    <3>. QED BY <3>5, <3>7, <3>10 DEF Tables
  <2>4. SubsType'
    BY <2>1, <2>2, <2>3 DEF SubsType
  <2>. QED BY <1>1, <1>3, <2>2, <2>4, ReturnTypes DEF Unsubscribed, net, seen, StackType, NetType, SeenType, CountType,
            TornType
<1>. QED BY <1>2, <1>3

LEMMA LoopTyped ==
  ASSUME Typed, LoopEnds \/ HandOver \/ NoCallback \/ Pending \/ NotAMessage \/ ReadSeesEof
  PROVE  Typed'
<1> USE TypedParts, TypedPartsNext
<1>1. stack # <<>> /\ Top \in Frames
  BY TopTypes DEF LoopEnds, HandOver, NoCallback, Pending, NotAMessage, ReadSeesEof, Reading, LoopReads, In
<1>2. Returns => stack' \in Seq(Frames) /\ thrown' \in BOOLEAN
  BY <1>1, ReturnTypes
<1>3. CASE LoopEnds
  BY <1>2, <1>3 DEF LoopEnds, sock, net, seen, SubsType, StackType, NetType, SeenType, CountType, TornType
<1>4. CASE ReadSeesEof
  <2>1. stack' \in Seq(Frames) /\ thrown' \in BOOLEAN
    BY <1>1, <1>4, ReturnTypes DEF ReadSeesEof
  <2>. QED BY <1>4, <2>1, DisconnectedTypes DEF ReadSeesEof, SubsType, StackType, NetType, SeenType, CountType, TornType
<1>5. CASE HandOver \/ NoCallback \/ Pending \/ NotAMessage
  <2>1. inbox # <<>> /\ inbox' = Tail(inbox) /\ UNCHANGED <<sock, server, wanted, calls, faults, published>>
    BY <1>5 DEF HandOver, NoCallback, Pending, NotAMessage, Reads, Arrived, seen
  <2>2. inbox' \in Seq(Items) /\ item \in Items
    BY <2>1, ArrivedTypes
  <2>3. torn' \subseteq Events
    BY <1>5 DEF HandOver, NoCallback, Pending, NotAMessage, Mixed, Torn, Events, TornType
  <2>4. stack' \in Seq(Frames) /\ thrown' \in BOOLEAN
    <3>1. CASE HandOver
      <4>1. Top.pc = "loop" /\ Top.m \in Kinds /\ IsMessage(item) /\ Callback # 0
        BY <1>1, <3>1, FrameFields DEF HandOver, LoopReads, In
      <4>2. Callback \in 0..MaxCalls
        <5>1. item.name \in Names
          BY <2>1, <3>1, ArrivedTypes DEF HandOver, Items
        <5>. QED BY <4>1, <5>1 DEF Callback, SubsType, Tables
      <4>3. [Top EXCEPT !.pc = "callback", !.cb = Callback] \in Frames
        BY <1>1, <4>1, <4>2 DEF Frames
      <4>. QED BY <1>1, <3>1, <4>3, TopSet DEF HandOver, StackType
    <3>2. CASE NoCallback \/ Pending \/ NotAMessage
      BY <1>2, <3>2 DEF NoCallback, Pending, NotAMessage, StackType
    <3>. QED BY <1>5, <3>1, <3>2
  <2>5. due' \in Seq(Item)
    BY <1>5 DEF HandOver, NoCallback, Pending, NotAMessage, seen, SeenType
  <2>. QED BY <2>1, <2>2, <2>3, <2>4, <2>5 DEF sock, SubsType, StackType, NetType, SeenType, CountType, TornType
<1>. QED BY <1>3, <1>4, <1>5


LEMMA InitTyped == Init => Typed
<1> SUFFICES ASSUME Init PROVE Typed
  OBVIOUS
<1>1. SubsType
  BY Constants DEF Init, SubsType
<1>2. StackType /\ TornType
  <2>1. <<>> \in Seq(Frames)
    OBVIOUS
  <2>. QED BY <2>1 DEF Init, StackType, TornType
<1>4. CountType
  <2>1. 0 \in 0..MaxCalls /\ 0 \in 0..MaxFaults /\ 0 \in 0..MaxMessages
    BY Bounds
  <2>. QED BY <2>1 DEF Init, CountType
<1>3. NetType /\ SeenType
  BY Constants DEF Init, NetType, SeenType
<1>. QED BY <1>1, <1>2, <1>3, <1>4 DEF Typed

LEMMA StutterTyped == Typed /\ UNCHANGED vars => Typed'
BY DEF vars, sock, net, seen, Typed, SubsType, StackType, NetType, SeenType, CountType, TornType

LEMMA NextTyped == Typed /\ [Next]_vars => Typed'
<1> SUFFICES ASSUME Typed, [Next]_vars PROVE Typed'
  OBVIOUS
<1>1. CASE Application
  BY <1>1, CallsTyped, MovesTyped DEF Application
<1>2. CASE Client
  BY <1>2, AnswersTyped, TablesTyped, LoopTyped, MovesTyped DEF Client
<1>3. CASE Environment
  BY <1>3, EnvironmentTyped DEF Environment
<1>. QED BY <1>1, <1>2, <1>3, StutterTyped DEF Next

\* The types of the proofs are those of the runs, and say more.
LEMMA TypedIsTypeOK == Typed => TypeOK
<1> SUFFICES ASSUME Typed PROVE TypeOK
  OBVIOUS
<1>1. ASSUME NEW i \in 1..Len(stack) PROVE FrameOK(stack[i])
  <2>1. stack[i] \in Frames
    BY DEF Typed, StackType
  <2>. QED BY <2>1, KindFacts DEF FrameOK, Frames, Leavings
<1>. QED BY <1>1, Constants DEF TypeOK, Typed, SubsType, StackType, NetType, SeenType, CountType, TornType, Tables,
         Servers, Wants

LEMMA AlwaysTyped == Spec => []Typed
<1>. QED BY InitTyped, NextTyped, PTL DEF Spec

\* However calls are nested in callbacks, every variable has its type, and a table that is NULL holds
\* no callbacks (redis_subscribe_response, redis_unsubscribe_response).
THEOREM TypeCorrect == Spec => []TypeOK
<1>. QED BY AlwaysTyped, TypedIsTypeOK, PTL

-----------------------------------------------------------------------------
(* The inductive invariant. *)

\* The method calls below the innermost are loops that wait for their callback.
FramesFit == \A i \in 1..Len(stack) : i < Len(stack) => stack[i].pc = "callback"

\* Nothing comes from a stream there is not; Redis has the subscriptions the application wants.
Connected ==
  /\ ~up => ~server.alive /\ inbox = <<>>
  /\ server.alive => server.subs = {s \in Subscription : wanted[s] # 0}

\* The callback the loops under way have for a subscription.
Registered(s) == IF Looping(s[1]) THEN subs[s[1]].cb[s[2]] ELSE 0
Agreed == \A s \in Subscription : wanted[s] = Registered(s)

\* All that was sent after the first n is messages somebody waits for.
Wanted(x) == IsMessage(x) /\ x.name \in Names /\ wanted[<<KindOf(x), x.name>>] # 0
After(n)  == \A i \in 1..Len(inbox) : i > n => Wanted(inbox[i])

\* The first n are acknowledgements of the innermost call.
Acks(n)   == \A i \in 1..n : inbox[i].type = Top.m /\ inbox[i].name \in Names
Coming(n) == \E i \in 1..Top.left : inbox[i].name = n

\* The next that is read for an answer is a message, which sets torn.
Late == inbox # <<>> /\ IsMessage(item)
\* The connection ended before the last acknowledgement.
Lost == ~server.alive /\ Len(inbox) < Top.left /\ Acks(Len(inbox))

Joining ==
  /\ Len(inbox) >= Top.left /\ Acks(Top.left) /\ After(Top.left)
  /\ Top.id # 0 /\ \A n \in Names : Top.built[n] \in {0, Top.id}
  /\ \A s \in Subscription :
       wanted[s] = IF s[1] = Top.m /\ (Top.built[s[2]] # 0 \/ Coming(s[2])) THEN Top.id ELSE Registered(s)
Leaving ==
  /\ Len(inbox) >= Top.left /\ Acks(Top.left) /\ After(Top.left)
  /\ \A s \in Subscription :
       wanted[s] = IF Off[s[1]] = Top.m /\ Coming(s[2]) THEN 0 ELSE Registered(s)
Answered(types) == inbox # <<>> /\ item.type \in types /\ After(1) /\ Agreed

\* What the next step of the innermost call finds.
Quiet == Agreed /\ After(0)
Agree ==
  /\ stack = <<>> \/ In("loop") \/ In("callback") => Quiet
  /\ In("acks")   => (Top.left > 0 /\ (Late \/ Answered({"error"}))) \/ Lost \/ Joining
  /\ In("unacks") => (Top.left > 0 /\ Late) \/ Lost \/ Leaving
  /\ In("reply")  => Late \/ Answered({"line", "error"})

\* Until torn, and as long as anything can still come.
Live   == torn = {} /\ (server.alive \/ inbox # <<>>)
Mirror == Live => Agree

\* due are the messages on the stream.
DueIsSent == torn = {} => due = Messages(inbox)

LoopsInv == FramesFit /\ Connected /\ Mirror /\ DueIsSent

-----------------------------------------------------------------------------
(* The frames. *)

RunsLoop(f, k) == f.m = k /\ f.pc \in {"loop", "callback"}

LEMMA Pop ==
  ASSUME Typed, FramesFit, stack # <<>>, stack' = Front(stack)
  PROVE  /\ FramesFit' /\ (stack' = <<>> \/ In("callback")')
         /\ \A k : ~RunsLoop(Top, k) => (Looping(k)' <=> Looping(k))
<1>1. /\ Len(stack) \in Nat \ {0} /\ Top = stack[Len(stack)] /\ stack' \in Seq(Frames) /\ Len(stack') = Len(stack) - 1
      /\ \A i \in 1..Len(stack) - 1 : stack'[i] = stack[i]
  BY TopTypes
<1>2. FramesFit'
  BY <1>1 DEF FramesFit
<1>3. ASSUME stack' # <<>> PROVE In("callback")'
  <2>1. Len(stack') \in 1..Len(stack) - 1 /\ Len(stack') < Len(stack) /\ Top' = stack'[Len(stack')]
    BY <1>1, <1>3 DEF Top, Last
  <2>2. Top' = stack[Len(stack')] /\ stack[Len(stack')].pc = "callback"
    BY <1>1, <2>1 DEF FramesFit
  <2>. QED BY <1>3, <2>2 DEF In
<1>4. ASSUME NEW k, ~RunsLoop(Top, k) PROVE Looping(k)' <=> Looping(k)
  <2>1. ASSUME Looping(k) PROVE Looping(k)'
    <3>1. PICK i \in 1..Len(stack) : RunsLoop(stack[i], k)
      BY <2>1 DEF Looping, RunsLoop
    <3>2. i \in 1..Len(stack')
      BY <1>1, <1>4, <3>1
    <3>. QED BY <1>1, <3>1, <3>2 DEF Looping, RunsLoop
  <2>2. ASSUME Looping(k)' PROVE Looping(k)
    BY <1>1, <2>2 DEF Looping
  <2>. QED BY <2>1, <2>2
<1>. QED BY <1>2, <1>3, <1>4

LEMMA Set ==
  ASSUME Typed, FramesFit, stack # <<>>, NEW f \in Frames, SetTop(f)
  PROVE  /\ FramesFit' /\ stack' # <<>> /\ Top' = f /\ Len(stack') = Len(stack)
         /\ \A k : (RunsLoop(f, k) <=> RunsLoop(Top, k)) => (Looping(k)' <=> Looping(k))
         /\ \A k : RunsLoop(f, k) => Looping(k)'
<1>1. /\ stack' \in Seq(Frames) /\ Len(stack') = Len(stack) /\ stack' # <<>>
      /\ stack'[Len(stack)] = f /\ Last(stack') = f
      /\ \A i \in 1..Len(stack) - 1 : stack'[i] = stack[i]
  BY TopSet
<1>2. Len(stack) \in Nat \ {0} /\ Top = stack[Len(stack)]
  BY TopTypes
<1>3. FramesFit'
  BY <1>1, <1>2 DEF FramesFit
<1>4. ASSUME NEW k, RunsLoop(f, k) PROVE Looping(k)'
  BY <1>1, <1>2, <1>4 DEF Looping, RunsLoop
<1>5. ASSUME NEW k, RunsLoop(f, k) <=> RunsLoop(Top, k) PROVE Looping(k)' <=> Looping(k)
  <2>1. \A i \in 1..Len(stack) : RunsLoop(stack'[i], k) <=> RunsLoop(stack[i], k)
    <3> TAKE i \in 1..Len(stack)
    <3>1. CASE i = Len(stack)
      BY <1>1, <1>2, <1>5, <3>1
    <3>2. CASE i # Len(stack)
      BY <1>1, <1>2, <3>2
    <3>. QED BY <3>1, <3>2
  <2>. QED BY <1>1, <2>1 DEF Looping, RunsLoop
<1>. QED BY <1>1, <1>3, <1>4, <1>5 DEF Top

LEMMA Push ==
  ASSUME Typed, FramesFit, stack = <<>> \/ In("callback"), NEW f \in Frames, f.pc \notin {"loop", "callback"},
         stack' = Append(stack, f)
  PROVE  /\ FramesFit' /\ stack' # <<>> /\ Top' = f
         /\ \A k : Looping(k)' <=> Looping(k)
<1>1. /\ stack' \in Seq(Frames) /\ Len(stack') = Len(stack) + 1 /\ stack' # <<>> /\ Last(stack') = f
      /\ stack'[Len(stack) + 1] = f /\ \A i \in 1..Len(stack) : stack'[i] = stack[i]
  BY Pushed
<1>2. Len(stack) \in Nat
  BY DEF Typed, StackType
<1>3. stack # <<>> => stack[Len(stack)].pc = "callback"
  BY TopTypes DEF In
<1>4. FramesFit'
  BY <1>1, <1>2, <1>3 DEF FramesFit
<1>5. ASSUME NEW k PROVE Looping(k)' <=> Looping(k)
  BY <1>1, <1>2 DEF Looping
<1>. QED BY <1>1, <1>4, <1>5 DEF Top

\* What stands where in the names of the callbacks.
LEMMA Pairs ==
  ASSUME NEW s \in Subscription
  PROVE  s[1] \in Kinds /\ s[2] \in Names /\ s = <<s[1], s[2]>>
BY DEF Subscription

LEMMA NoLoops == stack = <<>> => \A k : ~Looping(k)
BY DEF Looping

LEMMA FrameSet ==
  ASSUME Typed, Typed', stack # <<>>, NEW f, SetTop(f)
  PROVE  f \in Frames
<1> DEFINE p == Front(stack)
<1>1. p \in Seq(Frames) /\ Len(p) \in Nat
  BY TopTypes
<1>2. stack' = p \o <<f>> /\ stack' \in Seq(Frames)
  BY DEF SetTop, Typed, StackType
<1> HIDE DEF p
<1>3. stack'[Len(p) + 1] = f /\ Len(p) + 1 \in 1..Len(stack')
  BY <1>1, <1>2
<1>. QED BY <1>2, <1>3

LEMMA FramePushed ==
  ASSUME Typed, Typed', NEW f, stack' = Append(stack, f)
  PROVE  f \in Frames
<1>1. stack \in Seq(Frames) /\ stack' \in Seq(Frames)
  BY DEF Typed, StackType
<1>2. stack'[Len(stack) + 1] = f /\ Len(stack) + 1 \in 1..Len(stack')
  BY <1>1
<1>. QED BY <1>1, <1>2

\* What an action does to the stack.
Calls == stack = <<>> \/ In("callback")
Moved == \/ UNCHANGED stack
         \/ stack # <<>> /\ stack' = Front(stack)
         \/ stack # <<>> /\ \E f \in Frames : SetTop(f)
         \/ Calls /\ \E f \in Frames : f.pc \notin {"loop", "callback"} /\ stack' = Append(stack, f)

LEMMA StackMoves ==
  ASSUME Typed, Typed', [Next]_vars
  PROVE  Moved
<1>1. CASE Application
  <2>1. ASSUME NEW k \in Kinds, NEW names \in SUBSET Names, Subscribe(k, names) PROVE Moved
    <3> DEFINE f == Frame(k, calls + 1, Cardinality(names), "acks")
    <3>1. Calls /\ stack' = Append(stack, f)
      BY <2>1 DEF Subscribe, Written, MayCall, Acts, Calls
    <3>2. f.pc = "acks"
      BY DEF Frame
    <3> HIDE DEF f
    <3>. QED BY <3>1, <3>2, FramePushed DEF Moved
  <2>2. ASSUME NEW k \in Kinds, NEW names \in SUBSET Names, Unsubscribe(k, names) PROVE Moved
    <3> DEFINE f == Frame(Off[k], 0, Cardinality(names), "unacks")
    <3>1. Calls /\ stack' = Append(stack, f)
      BY <2>2 DEF Unsubscribe, Written, MayCall, Acts, Calls
    <3>2. f.pc = "unacks"
      BY DEF Frame
    <3> HIDE DEF f
    <3>. QED BY <3>1, <3>2, FramePushed DEF Moved
  <2>3. ASSUME Command PROVE Moved
    <3> DEFINE f == Frame("command", 0, 0, "reply")
    <3>1. Calls /\ stack' = Append(stack, f)
      BY <2>3 DEF Command, Written, MayCall, Acts, Calls
    <3>2. f.pc = "reply"
      BY DEF Frame
    <3> HIDE DEF f
    <3>. QED BY <3>1, <3>2, FramePushed DEF Moved
  <2>4. CASE CallFails \/ Close \/ Connect \/ CallbackCatches
    BY <2>4 DEF CallFails, Close, Connect, CallbackCatches, Moved
  <2>. QED BY <1>1, <2>1, <2>2, <2>3, <2>4 DEF Application
<1>2. CASE Client
  <2>1. stack # <<>>
    BY <1>2 DEF Client, ReadAck, Subscribed, ReadUnack, Unsubscribed, ReadReply, LoopEnds, HandOver, NoCallback, Pending,
          NotAMessage, ReadSeesEof, CallbackReturns, LoopReads, Reading, In
  <2>2. UNCHANGED stack \/ stack' = Front(stack) \/ \E f : SetTop(f)
    <3>1. CASE ReadAck
      BY <3>1 DEF ReadAck, Returns
    <3>2. CASE ReadUnack
      BY <3>2 DEF ReadUnack, Returns
    <3>3. CASE Subscribed
      BY <3>3 DEF Subscribed, Returns
    <3>4. CASE Unsubscribed \/ ReadReply \/ LoopEnds \/ NoCallback \/ Pending \/ NotAMessage
      BY <3>4 DEF Unsubscribed, ReadReply, LoopEnds, NoCallback, Pending, NotAMessage, Returns
    <3>5. CASE HandOver
      BY <3>5 DEF HandOver
    <3>6. CASE CallbackReturns
      BY <3>6 DEF CallbackReturns
    <3>7. CASE ReadSeesEof
      BY <3>7 DEF ReadSeesEof, Throws
    <3>. QED BY <1>2, <3>1, <3>2, <3>3, <3>4, <3>5, <3>6, <3>7 DEF Client
  <2>. QED BY <2>1, <2>2, FrameSet DEF Moved
<1>3. CASE Environment
  <2>1. CASE ServerCloses \/ \E n \in Names : Publish(n)
    BY <2>1 DEF ServerCloses, Publish, sock, Moved
  <2>2. CASE StopsShort
    BY <2>2 DEF StopsShort, Throws, LoopReads, In, Moved
  <2>3. CASE ReadTimesOut
    BY <2>3 DEF ReadTimesOut, Throws, Reading, LoopReads, In, Moved
  <2>. QED BY <1>3, <2>1, <2>2, <2>3 DEF Environment
<1>4. CASE UNCHANGED vars
  BY <1>4 DEF vars, Moved
<1>. QED BY <1>1, <1>2, <1>3, <1>4 DEF Next

LEMMA FramesNext ==
  ASSUME Typed, Typed', FramesFit, [Next]_vars
  PROVE  FramesFit'
<1>1. CASE UNCHANGED stack
  BY <1>1 DEF FramesFit
<1>2. CASE stack # <<>> /\ stack' = Front(stack)
  BY <1>2, Pop
<1>3. CASE stack # <<>> /\ \E f \in Frames : SetTop(f)
  BY <1>3, Set
<1>4. CASE Calls /\ \E f \in Frames : f.pc \notin {"loop", "callback"} /\ stack' = Append(stack, f)
  BY <1>4, Push DEF Calls
<1>. QED BY <1>1, <1>2, <1>3, <1>4, StackMoves DEF Moved

-----------------------------------------------------------------------------
(* The connection. *)

LEMMA WrittenConnected ==
  ASSUME Typed, Connected, NEW m \in Kinds \cup Leavings \cup {"command"}, NEW names \in SUBSET Names, NEW id, NEW f,
         Written(m, names, id, f), m \in Kinds => id # 0
  PROVE  Connected'
<1>1. up' = TRUE /\ (Unanswered \/ Granted(m, names, id) \/ Refused(m) \/ Dropped(m, names) \/ Performed(m))
  BY WrittenSays
<1>2. ServerNow \in Servers /\ WantsNow \in Wants
  BY NowTypes
<1>3. ServerNow.alive => ServerNow.subs = {s \in Subscription : WantsNow[s] # 0}
  BY DEF ServerNow, WantsNow, Connected, Fresh, NoWants
<1> SUFFICES ASSUME server'.alive PROVE server'.subs = {s \in Subscription : wanted'[s] # 0}
  BY <1>1 DEF Connected
<1>4. CASE Unanswered
  BY <1>4 DEF Unanswered
<1>5. CASE Granted(m, names, id)
  <2>1. /\ server'.subs = ServerNow.subs \cup ({m} \X names) /\ wanted' = Give(WantsNow, {m} \X names, id)
        /\ id # 0 /\ {m} \X names \subseteq Subscription /\ ServerNow.alive
    BY <1>2, <1>5 DEF Granted, Servers, Subscription
  <2> DEFINE given == {m} \X names
  <2>2. \A s \in Subscription : wanted'[s] = IF s \in given THEN id ELSE WantsNow[s]
    BY <2>1 DEF Give
  <2>3. given \subseteq Subscription /\ server'.subs = ServerNow.subs \cup given
    BY <2>1
  <2> HIDE DEF given
  <2>. QED BY <1>3, <2>1, <2>2, <2>3
<1>6. CASE Refused(m) \/ Performed(m)
  BY <1>3, <1>6 DEF Refused, Performed
<1>7. CASE Dropped(m, names)
  <2>1. PICK k \in Kinds : /\ server' = [ServerNow EXCEPT !.subs = @ \ ({k} \X names)]
                           /\ wanted' = Give(WantsNow, {k} \X names, 0)
    BY <1>7 DEF Dropped
  <2> DEFINE given == {k} \X names
  <2>2. \A s \in Subscription : wanted'[s] = IF s \in given THEN 0 ELSE WantsNow[s]
    BY <2>1 DEF Give
  <2>3. server'.subs = ServerNow.subs \ given /\ ServerNow.alive
    BY <1>2, <1>7, <2>1 DEF Dropped, Servers
  <2> HIDE DEF given
  <2>. QED BY <1>3, <2>2, <2>3
<1>. QED BY <1>1, <1>4, <1>5, <1>6, <1>7

LEMMA ConnectedNext ==
  ASSUME Typed, Connected, [Next]_vars
  PROVE  Connected'
<1>1. calls \in Nat
  BY Bounds DEF Typed, CountType
<1>2. CASE \E k \in Kinds, names \in SUBSET Names : Subscribe(k, names)
  <2>1. PICK k \in Kinds, names \in SUBSET Names : Subscribe(k, names)
    BY <1>2
  <2>. QED BY <1>1, <2>1, WrittenConnected DEF Subscribe
<1>3. CASE \E k \in Kinds, names \in SUBSET Names : Unsubscribe(k, names)
  <2>1. PICK k \in Kinds, names \in SUBSET Names : Unsubscribe(k, names)
    BY <1>3
  <2>. QED BY <2>1, KindFacts, WrittenConnected DEF Unsubscribe
<1>4. CASE Command
  BY <1>4, WrittenConnected DEF Command, Kinds
<1>5. CASE CallFails \/ Close \/ ReadSeesEof \/ ReadTimesOut
  <2>1. Disconnected
    BY <1>5 DEF CallFails, Close, ReadSeesEof, ReadTimesOut
  <2>2. ~server'.alive /\ inbox' = <<>>
    BY <2>1 DEF Disconnected, Gone
  <2>. QED BY <2>2 DEF Connected
<1>6. CASE Connect
  BY <1>6 DEF Connect, Fresh, Gone, NoWants, Connected
<1>7. CASE ServerCloses
  <2>1. ~up => inbox' = <<>>
    <3>1. ~up => \E i \in 0..0 : inbox' = SubSeq(<<>>, 1, i)
      BY <1>7 DEF ServerCloses, Connected
    <3>. QED BY <3>1
  <2>. QED BY <1>7, <2>1 DEF ServerCloses, sock, Gone, Connected
<1>8. CASE \E n \in Names : Publish(n)
  BY <1>8 DEF Publish, sock, Connected
<1>9. CASE ReadAck \/ ReadUnack \/ ReadReply \/ HandOver \/ NoCallback \/ Pending \/ NotAMessage \/ StopsShort
  BY <1>9 DEF ReadAck, ReadUnack, ReadReply, HandOver, NoCallback, Pending, NotAMessage, StopsShort, Reads, Arrived,
        sock, seen, Connected
<1>10. CASE Subscribed \/ Unsubscribed \/ LoopEnds \/ CallbackReturns \/ CallbackCatches \/ UNCHANGED vars
  BY <1>10 DEF Subscribed, Unsubscribed, LoopEnds, CallbackReturns, CallbackCatches, vars, sock, net, seen, Connected
<1>. QED BY <1>2, <1>3, <1>4, <1>5, <1>6, <1>7, <1>8, <1>9, <1>10 DEF Next, Application, Client, Environment

-----------------------------------------------------------------------------
(* The messages that are due. *)

LEMMA One ==
  ASSUME NEW x \in Item
  PROVE  <<x>> \in Seq(Item) /\ \A i \in 1..Len(<<x>>) : <<x>>[i] = x
OBVIOUS

LEMMA DueRead ==
  ASSUME Typed, DueIsSent, torn = {}, inbox # <<>>, ~IsMessage(item), inbox' = Tail(inbox), UNCHANGED due
  PROVE  due' = Messages(inbox')
<1>1. inbox \in Seq(Item) /\ item = Head(inbox)
  BY Constants DEF Typed, NetType, item
<1>2. Messages(inbox) = Messages(Tail(inbox))
  BY <1>1, MessagesTail
<1>. QED BY <1>2 DEF DueIsSent

LEMMA WrittenDue ==
  ASSUME Typed, DueIsSent, torn = {}, NEW m \in Kinds \cup Leavings \cup {"command"}, NEW names \in SUBSET Names,
         NEW id, NEW f, Written(m, names, id, f)
  PROVE  due' = Messages(inbox')
<1>1. UNCHANGED due /\ (Unanswered \/ Granted(m, names, id) \/ Refused(m) \/ Dropped(m, names) \/ Performed(m))
  BY WrittenSays
<1>2. inbox \in Seq(Item) /\ due = Messages(inbox)
  BY Constants DEF Typed, NetType, DueIsSent
<1>3. UNCHANGED inbox \/ \E r \in Seq(Item) : (\A i \in 1..Len(r) : ~IsMessage(r[i])) /\ inbox' = inbox \o r
  <2>1. CASE Granted(m, names, id) \/ Dropped(m, names)
    <3>1. PICK r : Replied(r, m, names) /\ inbox' = inbox \o r
      BY <2>1 DEF Granted, Dropped
    <3>2. r \in Seq(Item) /\ \A i \in 1..Len(r) : ~IsMessage(r[i])
      BY <3>1, Constants DEF Replied
    <3>. QED BY <3>1, <3>2
  <2>2. CASE Refused(m) \/ Performed(m)
    <3>1. PICK t \in {"error", "line", "rest"} : inbox' = inbox \o <<Reply(t, None)>>
      BY <2>2 DEF Refused, Performed
    <3> DEFINE x == Reply(t, None)
    <3>2. x \in Item /\ ~IsMessage(x)
      BY Constants
    <3> HIDE DEF x
    <3>3. <<x>> \in Seq(Item) /\ \A i \in 1..Len(<<x>>) : ~IsMessage(<<x>>[i])
      BY <3>2, One
    <3>. QED BY <3>1, <3>3 DEF x
  <2>. QED BY <1>1, <2>1, <2>2 DEF Unanswered
<1>. QED BY <1>1, <1>2, <1>3, MessagesPlain

LEMMA DueNext ==
  ASSUME Typed, Connected, Mirror, DueIsSent, [Next]_vars
  PROVE  DueIsSent'
<1> SUFFICES ASSUME torn' = {} PROVE due' = Messages(inbox')
  BY DEF DueIsSent
<1> USE MessagesEmpty
<1>1. CASE Connect \/ Close \/ CallFails \/ ReadSeesEof \/ ReadTimesOut
  BY <1>1 DEF Connect, Close, CallFails, ReadSeesEof, ReadTimesOut, Disconnected
<1>2. CASE ServerCloses
  BY <1>2 DEF ServerCloses
<1>3. CASE \E k \in Kinds, names \in SUBSET Names : Subscribe(k, names)
  <2>1. PICK k \in Kinds, names \in SUBSET Names : Subscribe(k, names)
    BY <1>3
  <2>. QED BY <2>1, WrittenDue DEF Subscribe, MayCall
<1>4. CASE \E k \in Kinds, names \in SUBSET Names : Unsubscribe(k, names)
  <2>1. PICK k \in Kinds, names \in SUBSET Names : Unsubscribe(k, names)
    BY <1>4
  <2>. QED BY <2>1, KindFacts, WrittenDue DEF Unsubscribe, MayCall
<1>5. CASE Command
  BY <1>5, WrittenDue DEF Command, MayCall
<1>6. CASE \E n \in Names : Publish(n)
  <2>1. PICK n \in Names : Publish(n)
    BY <1>6
  <2> DEFINE Copy(k) == IF <<k, n>> \in server.subs
                        THEN <<[type |-> Message[k], name |-> n, id |-> published + 1]>> ELSE <<>>
             mine == Copy("subscribe") \o Copy("psubscribe")
  <2>2. published + 1 \in 0..MaxMessages
    BY <2>1, CountsTyped DEF Publish
  <2>3. \A k \in Kinds : LET x == [type |-> Message[k], name |-> n, id |-> published + 1] IN x \in Item /\ IsMessage(x)
    BY <2>2 DEF Item, IsMessage
  <2>4. \A k \in Kinds : Copy(k) \in Seq(Item) /\ \A i \in 1..Len(Copy(k)) : IsMessage(Copy(k)[i])
    <3> TAKE k \in Kinds
    <3> DEFINE x == [type |-> Message[k], name |-> n, id |-> published + 1]
    <3>1. x \in Item /\ IsMessage(x) /\ (Copy(k) = <<x>> \/ Copy(k) = <<>>)
      BY <2>3
    <3> HIDE DEF x, Copy
    <3>2. CASE Copy(k) = <<x>>
      BY <3>1, <3>2, One
    <3>3. CASE Copy(k) = <<>>
      <4>1. <<>> \in Seq(Item) /\ 1..Len(<<>>) = {}
        OBVIOUS
      <4>. QED BY <3>3, <4>1
    <3>. QED BY <3>1, <3>2, <3>3
  <2>5. inbox' = inbox \o mine /\ due' = due \o mine /\ UNCHANGED torn
    BY <2>1 DEF Publish
  <2> DEFINE a == Copy("subscribe")
             b == Copy("psubscribe")
  <2>6. a \in Seq(Item) /\ b \in Seq(Item) /\ mine = a \o b
        /\ (\A i \in 1..Len(a) : IsMessage(a[i])) /\ \A i \in 1..Len(b) : IsMessage(b[i])
    BY <2>4 DEF Kinds
  <2> HIDE DEF a, b, Copy, mine
  <2>7. mine \in Seq(Item) /\ \A i \in 1..Len(mine) : IsMessage(mine[i])
    BY <2>6
  <2>8. inbox \in Seq(Item)
    BY Constants DEF Typed, NetType
  <2>. QED BY <2>5, <2>7, <2>8, MessagesMore DEF DueIsSent
<1>7. CASE ReadAck \/ ReadUnack
  <2>1. torn = {} /\ inbox # <<>> /\ ~IsMessage(item) /\ inbox' = Tail(inbox) /\ UNCHANGED due
    BY <1>7 DEF ReadAck, ReadUnack, Reads, Arrived, Swallows, Torn, seen
  <2>. QED BY <2>1, DueRead
<1>8. CASE ReadReply
  <2>1. torn = {} /\ inbox # <<>> /\ ~IsMessage(item) /\ UNCHANGED due
    BY <1>8 DEF ReadReply, Arrived, Swallows, Torn, seen
  <2>2. CASE inbox' = Tail(inbox)
    BY <2>1, <2>2, DueRead
  <2>3. CASE inbox' = <<Reply("rest", None)>> \o Tail(inbox)
    <3> DEFINE x == Reply("rest", None)
    <3>1. inbox \in Seq(Item) /\ item = Head(inbox)
      BY Constants DEF Typed, NetType, item
    <3>2. x \in Item /\ ~IsMessage(x)
      BY Constants
    <3> HIDE DEF x
    <3>3. inbox' \in Seq(Item) /\ inbox' # <<>> /\ Head(inbox') = x /\ Tail(inbox') = Tail(inbox)
      BY <2>1, <2>3, <3>1, <3>2 DEF x
    <3>4. Messages(inbox') = Messages(Tail(inbox)) /\ Messages(inbox) = Messages(Tail(inbox))
      BY <2>1, <3>1, <3>2, <3>3, MessagesTail
    <3>. QED BY <2>1, <3>4 DEF DueIsSent
  <2>. QED BY <1>8, <2>2, <2>3 DEF ReadReply
<1>9. CASE NotAMessage
  BY <1>9, DueRead DEF NotAMessage, Reads, Arrived, seen
<1>10. CASE HandOver
  <2>1. torn = {} /\ inbox # <<>> /\ IsMessage(item) /\ inbox' = Tail(inbox)
        /\ due' = IF due # <<>> THEN Tail(due) ELSE due
    BY <1>10 DEF HandOver, Reads, Arrived, Mixed, Torn
  <2>2. inbox \in Seq(Item) /\ item = Head(inbox) /\ item \in Item /\ Tail(inbox) \in Seq(Item)
    BY <2>1, Constants, ArrivedTypes DEF Typed, NetType, item
  <2>3. due = <<item>> \o Messages(Tail(inbox)) /\ Messages(Tail(inbox)) \in Seq(Item)
    BY <2>1, <2>2, MessagesTail, MessagesType DEF DueIsSent
  <2>4. due # <<>> /\ Tail(due) = Messages(Tail(inbox))
    <3> HIDE DEF item
    <3> DEFINE t == Messages(Tail(inbox))
               i == item
    <3>1. t \in Seq(Item) /\ i \in Item /\ due = <<i>> \o t
      BY <2>2, <2>3
    <3> HIDE DEF t, i
    <3>2. due # <<>> /\ Tail(due) = t
      BY <3>1
    <3>. QED BY <3>2 DEF t
  <2>. QED BY <2>1, <2>4
<1>11. CASE NoCallback
  <2>1. /\ torn = {} /\ inbox # <<>> /\ IsMessage(item) /\ KindOf(item) = Top.m /\ In("loop") /\ subs[Top.m].open
        /\ Callback = 0
    BY <1>11 DEF NoCallback, LoopReads, Reads, Arrived, Mixed, Torn
  <2>2. Quiet
    BY <2>1 DEF Mirror, Live, Agree
  <2>3. Wanted(item)
    BY <2>1, <2>2, ArrivedTypes DEF Quiet, After
  <2>4. <<Top.m, item.name>> \in Subscription /\ wanted[<<Top.m, item.name>>] # 0
    BY <2>1, <2>3, KindIs DEF Wanted, Subscription
  <2>5. Callback # 0
    BY <2>2, <2>4 DEF Quiet, Agreed, Registered, Callback
  <2>. QED BY <2>1, <2>5
<1>12. CASE Pending \/ StopsShort
  BY <1>12 DEF Pending, StopsShort, Torn
<1>13. CASE Subscribed \/ Unsubscribed \/ LoopEnds \/ CallbackReturns \/ CallbackCatches \/ UNCHANGED vars
  BY <1>13 DEF Subscribed, Unsubscribed, LoopEnds, CallbackReturns, CallbackCatches, vars, net, seen, Torn, DueIsSent
<1>. QED BY <1>1, <1>2, <1>3, <1>4, <1>5, <1>6, <1>7, <1>8, <1>9, <1>10, <1>11, <1>12, <1>13
         DEF Next, Application, Client, Environment

-----------------------------------------------------------------------------
(* Commands are written. *)

\* Where a call begins, the records agree and only messages are on the stream.
LEMMA CallStarts ==
  ASSUME Typed, Connected, Mirror, MayCall, Reopened => stack = <<>>
  PROVE  /\ \A s \in Subscription : WantsNow[s] = Registered(s)
         /\ \A i \in 1..Len(inbox) : Wanted(inbox[i])
         /\ stack = <<>> \/ In("callback")
<1>1. CASE Reopened
  <2>1. inbox = <<>> /\ 1..Len(inbox) = {}
    BY <1>1 DEF Reopened, Connected
  <2>2. ASSUME NEW s \in Subscription PROVE WantsNow[s] = 0 /\ Registered(s) = 0
    BY <1>1, <2>2, NoLoops DEF WantsNow, NoWants, Registered
  <2>. QED BY <1>1, <2>1, <2>2
<1>2. CASE ~Reopened
  <2>1. Live /\ (stack = <<>> \/ In("callback"))
    BY <1>2 DEF Reopened, MayCall, Acts, Live
  <2>2. Quiet
    BY <2>1 DEF Mirror, Agree
  <2>. QED BY <1>2, <2>1, <2>2 DEF Quiet, Agreed, After, WantsNow, Typed, NetType
<1>. QED BY <1>1, <1>2

\* What the call that begins with Written finds and leaves.
LEMMA WrittenStarts ==
  ASSUME Typed, FramesFit, Connected, Mirror, MayCall, torn' = {},
         NEW m \in Kinds \cup Leavings \cup {"command"}, NEW names \in SUBSET Names, NEW id, NEW f \in Frames,
         f.pc \notin {"loop", "callback"}, Written(m, names, id, f)
  PROVE  /\ \A s \in Subscription : WantsNow[s] = Registered(s)
         /\ \A s \in Subscription : Registered(s)' = Registered(s)
         /\ stack' # <<>> /\ Top' = f
         /\ Unanswered \/ Granted(m, names, id) \/ Refused(m) \/ Dropped(m, names) \/ Performed(m)
         /\ \/ inbox = <<>> /\ ServerNow.alive
            \/ Late'
<1>1. /\ stack' = Append(stack, f) /\ UNCHANGED subs
      /\ torn' = IF Reopened /\ stack # <<>> THEN torn \cup {"reconnected"} ELSE torn
      /\ Unanswered \/ Granted(m, names, id) \/ Refused(m) \/ Dropped(m, names) \/ Performed(m)
  BY WrittenSays
<1>2. Reopened => stack = <<>>
  BY <1>1
<1>3. /\ \A s \in Subscription : WantsNow[s] = Registered(s)
      /\ \A i \in 1..Len(inbox) : Wanted(inbox[i])
      /\ stack = <<>> \/ In("callback")
  BY <1>2, CallStarts
<1>4. stack' # <<>> /\ Top' = f /\ \A k : Looping(k)' <=> Looping(k)
  BY <1>1, <1>3, Push
<1>5. \A s \in Subscription : Registered(s)' = Registered(s)
  BY <1>1, <1>4 DEF Registered
<1>6. CASE inbox = <<>>
  <2>1. ServerNow.alive
    BY <1>6 DEF ServerNow, Reopened, Fresh
  <2>. QED BY <1>1, <1>3, <1>4, <1>5, <1>6, <2>1
<1>7. CASE inbox # <<>>
  <2>1. inbox \in Seq(Items) /\ Len(inbox) \in Nat \ {0}
    BY <1>7 DEF Typed, NetType
  <2>2. IsMessage(inbox[1])
    <3>1. 1 \in 1..Len(inbox)
      BY <2>1
    <3>2. Wanted(inbox[1])
      BY <1>3, <3>1
    <3>. QED BY <3>2, Zenon DEF Wanted
  <2>3. UNCHANGED inbox \/ \E r \in Seq(Items) : inbox' = inbox \o r
    <3>1. \A t \in {"error", "line", "rest"} : <<Reply(t, None)>> \in Seq(Items)
      BY Constants
    <3>. QED BY <1>1, <3>1 DEF Unanswered, Granted, Refused, Dropped, Performed, Replied
  <2>4. inbox' # <<>> /\ Head(inbox') = inbox[1]
    BY <2>1, <2>3
  <2>5. Late'
    BY <2>2, <2>4 DEF Late, item
  <2>. QED BY <1>1, <1>3, <1>4, <1>5, <2>5
<1>. QED BY <1>6, <1>7

\* The answer is all there is on the stream.
LEMMA Only ==
  ASSUME inbox = <<>>, NEW r \in Seq(Items), inbox' = inbox \o r
  PROVE  inbox' = r
OBVIOUS

LEMMA SubscribeMirror ==
  ASSUME Typed, FramesFit, Connected, Mirror, NEW k \in Kinds, NEW names \in SUBSET Names, Subscribe(k, names),
         torn' = {}
  PROVE  Agree'
<1> DEFINE id == calls + 1
           left == Cardinality(names)
           f == Frame(k, id, left, "acks")
<1>1. MayCall /\ names # {} /\ Written(k, names, id, f) /\ id \in 0..MaxCalls /\ id # 0
  BY Bounds DEF Subscribe, MayCall, Typed, CountType
<1>2. f \in Frames
  BY NewFrame DEF Subscribe, MayCall, Typed, CountType
<1>3. f.pc = "acks" /\ f.m = k /\ f.id = id /\ f.left = left /\ f.built = NoNames
  BY DEF Frame
<1>4. left \in Nat /\ left > 0
  <2>1. k \in Kinds \cup Leavings
    OBVIOUS
  <2>2. left \in 0..Cardinality(Names) /\ (names # {} => left > 0)
    BY <2>1, Replies
  <2>. QED BY <1>1, <2>2, Bounds
<1> HIDE DEF f, id, left
<1>5. /\ \A s \in Subscription : WantsNow[s] = Registered(s)
      /\ \A s \in Subscription : Registered(s)' = Registered(s)
      /\ stack' # <<>> /\ Top' = f
      /\ Unanswered \/ Granted(k, names, id) \/ Refused(k) \/ Dropped(k, names) \/ Performed(k)
      /\ (inbox = <<>> /\ ServerNow.alive) \/ Late'
  BY <1>1, <1>2, <1>3, WrittenStarts
<1>6. SUFFICES (Top.left > 0 /\ (Late \/ Answered({"error"})))' \/ Joining'
  BY <1>3, <1>5 DEF Agree, In
<1>7. CASE Late'
  BY <1>3, <1>4, <1>5, <1>7
<1>8. CASE inbox = <<>> /\ ServerNow.alive /\ Granted(k, names, id)
  <2>1. PICK r : Replied(r, k, names) /\ inbox' = inbox \o r
    BY <1>8 DEF Granted
  <2>2. /\ inbox' = r /\ r \in Seq(Items) /\ Len(r) = left
        /\ \A i \in 1..Len(r) : r[i].type = k /\ r[i].name \in names
        /\ \A n \in names : \E i \in 1..Len(r) : r[i].name = n
    BY <1>8, <2>1, Only DEF Replied, left
  <2>3. (Len(inbox) >= Top.left)' /\ Acks(Top.left)' /\ After(Top.left)'
    BY <1>3, <1>4, <1>5, <2>2 DEF Acks, After
  <2>4. (Top.id # 0 /\ \A n \in Names : Top.built[n] \in {0, Top.id})'
    BY <1>1, <1>3, <1>5 DEF NoNames
  <2>5. ASSUME NEW s \in Subscription
        PROVE  (wanted[s] = IF s[1] = Top.m /\ (Top.built[s[2]] # 0 \/ Coming(s[2])) THEN Top.id ELSE Registered(s))'
    <3>1. wanted'[s] = IF s \in {k} \X names THEN id ELSE WantsNow[s]
      BY <1>8 DEF Granted, Give
    <3>2. s \in {k} \X names <=> s[1] = k /\ s[2] \in names
      BY Pairs
    <3>3. Top'.built[s[2]] = 0
      BY <1>3, <1>5, Pairs DEF NoNames
    <3>4. Coming(s[2])' <=> s[2] \in names
      BY <1>3, <1>5, <2>2 DEF Coming
    <3>. QED BY <1>3, <1>5, <3>1, <3>2, <3>3, <3>4
  <2>. QED BY <2>3, <2>4, <2>5 DEF Joining
<1>9. CASE inbox = <<>> /\ ServerNow.alive /\ Refused(k)
  <2> DEFINE x == Reply("error", None)
  <2>1. x \in Items /\ x.type = "error"
    BY Constants DEF Reply
  <2>2. inbox' = inbox \o <<x>> /\ wanted' = WantsNow
    BY <1>9 DEF Refused
  <2> HIDE DEF x
  <2>3. inbox' # <<>> /\ Head(inbox') = x /\ Len(inbox') = 1
    BY <1>9, <2>1, <2>2
  <2>4. Answered({"error"})'
    BY <1>5, <2>1, <2>2, <2>3 DEF Answered, item, After, Agreed
  <2>. QED BY <1>3, <1>4, <1>5, <2>4
<1>10. ~Performed(k) /\ ~Dropped(k, names) /\ (ServerNow.alive => ~Unanswered)
  BY KindFacts DEF Performed, Dropped, Unanswered
<1>. QED BY <1>5, <1>7, <1>8, <1>9, <1>10

LEMMA UnsubscribeMirror ==
  ASSUME Typed, FramesFit, Connected, Mirror, NEW k \in Kinds, NEW names \in SUBSET Names, Unsubscribe(k, names),
         torn' = {}
  PROVE  Agree'
<1> DEFINE left == Cardinality(names)
           f == Frame(Off[k], 0, left, "unacks")
<1>1. MayCall /\ names # {} /\ Written(Off[k], names, 0, f) /\ Off[k] \in Leavings
  BY KindFacts DEF Unsubscribe
<1>2. f \in Frames
  BY NewFrame DEF Unsubscribe, MayCall, Typed, CountType
<1>3. f.pc = "unacks" /\ f.m = Off[k] /\ f.left = left
  BY DEF Frame
<1>4. left \in Nat /\ left > 0
  <2>1. k \in Kinds \cup Leavings
    OBVIOUS
  <2>2. left \in 0..Cardinality(Names) /\ (names # {} => left > 0)
    BY <2>1, Replies
  <2>. QED BY <1>1, <2>2, Bounds
<1> HIDE DEF f, left
<1>5. /\ \A s \in Subscription : WantsNow[s] = Registered(s)
      /\ \A s \in Subscription : Registered(s)' = Registered(s)
      /\ stack' # <<>> /\ Top' = f
      /\ \/ Unanswered \/ Granted(Off[k], names, 0) \/ Refused(Off[k]) \/ Dropped(Off[k], names)
         \/ Performed(Off[k])
      /\ (inbox = <<>> /\ ServerNow.alive) \/ Late'
  BY <1>1, <1>2, <1>3, WrittenStarts
<1>6. SUFFICES (Top.left > 0 /\ Late)' \/ Leaving'
  BY <1>3, <1>5 DEF Agree, In
<1>7. CASE Late'
  BY <1>3, <1>4, <1>5, <1>7
<1>8. CASE inbox = <<>> /\ ServerNow.alive /\ Dropped(Off[k], names)
  <2>1. PICK r : Replied(r, Off[k], names) /\ inbox' = inbox \o r
    BY <1>8 DEF Dropped
  <2>2. /\ inbox' = r /\ r \in Seq(Items) /\ Len(r) = left
        /\ \A i \in 1..Len(r) : r[i].type = Off[k] /\ r[i].name \in names
        /\ \A n \in names : \E i \in 1..Len(r) : r[i].name = n
    BY <1>8, <2>1, Only DEF Replied, left
  <2>3. (Len(inbox) >= Top.left)' /\ Acks(Top.left)' /\ After(Top.left)'
    BY <1>3, <1>4, <1>5, <2>2 DEF Acks, After
  <2>4. wanted' = Give(WantsNow, {k} \X names, 0)
    BY <1>8, KindFacts DEF Dropped
  <2>5. ASSUME NEW s \in Subscription
        PROVE  (wanted[s] = IF Off[s[1]] = Top.m /\ Coming(s[2]) THEN 0 ELSE Registered(s))'
    <3>1. wanted'[s] = IF s \in {k} \X names THEN 0 ELSE WantsNow[s]
      BY <2>4 DEF Give
    <3>2. s \in {k} \X names <=> Off[s[1]] = Off[k] /\ s[2] \in names
      BY Pairs, KindFacts
    <3>3. Coming(s[2])' <=> s[2] \in names
      BY <1>3, <1>5, <2>2 DEF Coming
    <3>. QED BY <1>3, <1>5, <3>1, <3>2, <3>3
  <2>. QED BY <2>3, <2>5 DEF Leaving
<1>9. ~Performed(Off[k]) /\ ~Granted(Off[k], names, 0) /\ ~Refused(Off[k]) /\ (ServerNow.alive => ~Unanswered)
  BY KindFacts DEF Performed, Granted, Refused, Unanswered
<1>. QED BY <1>5, <1>7, <1>8, <1>9

LEMMA CommandMirror ==
  ASSUME Typed, FramesFit, Connected, Mirror, Command, torn' = {}
  PROVE  Agree'
<1> DEFINE f == Frame("command", 0, 0, "reply")
<1>1. MayCall /\ Written("command", {}, 0, f)
  BY DEF Command
<1>2. f \in Frames
  BY NewFrame DEF Command, MayCall, Typed, CountType
<1>3. f.pc = "reply"
  BY DEF Frame
<1> HIDE DEF f
<1>4. /\ \A s \in Subscription : WantsNow[s] = Registered(s)
      /\ \A s \in Subscription : Registered(s)' = Registered(s)
      /\ stack' # <<>> /\ Top' = f
      /\ Unanswered \/ Granted("command", {}, 0) \/ Refused("command") \/ Dropped("command", {}) \/ Performed("command")
      /\ (inbox = <<>> /\ ServerNow.alive) \/ Late'
  BY <1>1, <1>2, <1>3, WrittenStarts
<1>5. SUFFICES (Late \/ Answered({"line", "error"}))'
  BY <1>3, <1>4 DEF Agree, In
<1>6. CASE inbox = <<>> /\ ServerNow.alive /\ Performed("command")
  <2>1. PICK t \in {"line", "error"} : inbox' = inbox \o <<Reply(t, None)>>
    BY <1>6 DEF Performed
  <2> DEFINE x == Reply(t, None)
  <2>2. x \in Items /\ x.type = t
    BY Constants DEF Reply
  <2> HIDE DEF x
  <2>3. inbox' # <<>> /\ Head(inbox') = x /\ Len(inbox') = 1
    BY <1>6, <2>1, <2>2 DEF x
  <2>4. wanted' = WantsNow
    BY <1>6 DEF Performed
  <2>. QED BY <1>4, <2>2, <2>3, <2>4 DEF Answered, item, After, Agreed
<1>7. ~Granted("command", {}, 0) /\ ~Refused("command") /\ ~Dropped("command", {}) /\ (ServerNow.alive => ~Unanswered)
  BY KindFacts DEF Granted, Refused, Dropped, Unanswered, Kinds
<1>. QED BY <1>4, <1>6, <1>7

-----------------------------------------------------------------------------
(* The server and the network. *)

\* More messages change nothing for the calls under way.
LEMMA More ==
  ASSUME Typed, Agree, server.alive, UNCHANGED <<stack, subs, wanted, server>>,
         NEW r \in Seq(Items), \A i \in 1..Len(r) : Wanted(r[i]), inbox' = inbox \o r
  PROVE  Agree'
<1>1. /\ inbox \in Seq(Items) /\ inbox' \in Seq(Items) /\ Len(inbox) \in Nat /\ Len(r) \in Nat
      /\ Len(inbox') = Len(inbox) + Len(r)
      /\ \A i \in 1..Len(inbox') : inbox'[i] = IF i <= Len(inbox) THEN inbox[i] ELSE r[i - Len(inbox)]
  BY DEF Typed, NetType
<1>2. Top' = Top /\ Agreed' = Agreed /\ (\A pc : In(pc)' <=> In(pc)) /\ \A s : Registered(s)' = Registered(s)
  BY DEF Top, Agreed, Registered, In, Looping
<1>3. \A x : Wanted(x)' <=> Wanted(x)
  BY DEF Wanted
<1>4. ASSUME NEW n \in Nat, After(n) PROVE After(n)'
  <2>1. ASSUME NEW i \in 1..Len(inbox'), i > n PROVE Wanted(inbox'[i])
    <3>1. CASE i <= Len(inbox)
      BY <1>1, <1>4, <2>1, <3>1 DEF After
    <3>2. CASE ~(i <= Len(inbox))
      BY <1>1, <3>2
    <3>. QED BY <3>1, <3>2
  <2>. QED BY <1>3, <2>1 DEF After
<1>5. inbox # <<>> => inbox' # <<>> /\ item' = item
  BY <1>1 DEF item
<1>6. \A types : Answered(types) => Answered(types)'
  BY <1>2, <1>4, <1>5 DEF Answered
<1>7. Late => Late'
  BY <1>5 DEF Late
<1>8. ASSUME stack # <<>>, Len(inbox) >= Top.left, Acks(Top.left), After(Top.left)
      PROVE  /\ (Len(inbox) >= Top.left)' /\ Acks(Top.left)' /\ After(Top.left)'
             /\ \A n : Coming(n)' <=> Coming(n)
  <2>1. Top.left \in Nat
    BY <1>8, TopTypes, FrameFields, Bounds
  <2>2. \A i \in 1..Top.left : i \in 1..Len(inbox') /\ inbox'[i] = inbox[i]
    BY <1>1, <1>8, <2>1
  <2>3. Acks(Top.left)' /\ \A n : Coming(n)' <=> Coming(n)
    BY <1>2, <1>8, <2>2 DEF Acks, Coming
  <2>4. After(Top.left)'
    BY <1>2, <1>4, <1>8, <2>1
  <2>. QED BY <1>1, <1>2, <1>8, <2>1, <2>3, <2>4
<1>9. stack # <<>> /\ Joining => Joining'
  BY <1>2, <1>8 DEF Joining
<1>10. stack # <<>> /\ Leaving => Leaving'
  BY <1>2, <1>8 DEF Leaving
<1>11. Quiet => Quiet'
  BY <1>2, <1>4 DEF Quiet
<1>12. ~Lost
  BY DEF Lost
<1>. QED BY <1>2, <1>6, <1>7, <1>9, <1>10, <1>11, <1>12 DEF Agree, In

LEMMA PublishMirror ==
  ASSUME Typed, Connected, Mirror, NEW n \in Names, Publish(n), torn' = {}
  PROVE  Agree'
<1> DEFINE x(k) == [type |-> Message[k], name |-> n, id |-> published + 1]
           Copy(k) == IF <<k, n>> \in server.subs THEN <<x(k)>> ELSE <<>>
           a == Copy("subscribe")
           b == Copy("psubscribe")
           r == a \o b
<1>1. published + 1 \in 0..MaxMessages
  BY CountsTyped DEF Publish
<1>2. server.alive /\ inbox' = inbox \o r /\ UNCHANGED <<stack, subs, wanted, server, torn>>
  BY DEF Publish, sock
<1>3. \A k \in Kinds : x(k) \in Items /\ (<<k, n>> \in server.subs => Wanted(x(k)))
  <2> TAKE k \in Kinds
  <2>1. x(k) \in Item /\ x(k).type = Message[k] /\ x(k).name = n
    BY <1>1 DEF Item
  <2> HIDE DEF x
  <2>2. IsMessage(x(k)) /\ KindOf(x(k)) = k
    BY <2>1, KindOfMessage
  <2>3. <<k, n>> \in server.subs => wanted[<<k, n>>] # 0
    BY <1>2 DEF Connected
  <2>. QED BY <2>1, <2>2, <2>3 DEF Items, Wanted
<1>4. \A k \in Kinds : Copy(k) \in Seq(Items) /\ \A i \in 1..Len(Copy(k)) : Wanted(Copy(k)[i])
  <2> TAKE k \in Kinds
  <2> DEFINE y == x(k)
             c == Copy(k)
  <2>1. CASE <<k, n>> \in server.subs
    <3>1. c = <<y>> /\ y \in Items /\ Wanted(y)
      BY <1>3, <2>1
    <3> HIDE DEF c, y
    <3>2. c \in Seq(Items) /\ \A i \in 1..Len(c) : c[i] = y
      BY <3>1
    <3>3. \A i \in 1..Len(c) : Wanted(c[i])
      BY <3>1, <3>2, Zenon
    <3>. QED BY <3>2, <3>3 DEF c
  <2>2. CASE <<k, n>> \notin server.subs
    <3>1. c = <<>>
      BY <2>2
    <3> HIDE DEF c
    <3>2. c \in Seq(Items) /\ 1..Len(c) = {}
      BY <3>1
    <3>. QED BY <3>2 DEF c
  <2>. QED BY <2>1, <2>2
<1>5. a \in Seq(Items) /\ b \in Seq(Items) /\ (\A i \in 1..Len(a) : Wanted(a[i])) /\ \A i \in 1..Len(b) : Wanted(b[i])
  BY <1>4 DEF Kinds
<1> HIDE DEF a, b, Copy, x
<1>6. r \in Seq(Items) /\ \A i \in 1..Len(r) : r[i] = (IF i <= Len(a) THEN a[i] ELSE b[i - Len(a)])
  BY <1>5
<1>7. \A i \in 1..Len(r) : Wanted(r[i])
  <2> TAKE i \in 1..Len(r)
  <2>1. Len(r) = Len(a) + Len(b) /\ Len(a) \in Nat /\ Len(b) \in Nat
    BY <1>5
  <2>2. CASE i <= Len(a)
    <3>1. i \in 1..Len(a) /\ r[i] = a[i]
      BY <1>6, <2>1, <2>2
    <3>. QED BY <1>5, <3>1
  <2>3. CASE ~(i <= Len(a))
    <3>1. i - Len(a) \in 1..Len(b) /\ r[i] = b[i - Len(a)]
      BY <1>6, <2>1, <2>3
    <3>. QED BY <1>5, <3>1
  <2>. QED BY <2>2, <2>3
<1> HIDE DEF r
<1>8. Agree
  BY <1>2 DEF Mirror, Live
<1>. QED BY <1>2, <1>6, <1>7, <1>8, More

\* The end of what the server sent may be lost with the connection.
LEMMA ClosesMirror ==
  ASSUME Typed, Mirror, ServerCloses, torn' = {}, inbox' # <<>>
  PROVE  Agree'
<1>1. PICK j \in 0..Len(inbox) : inbox' = SubSeq(inbox, 1, j)
  BY DEF ServerCloses
<1>2. inbox \in Seq(Items) /\ Len(inbox) \in Nat
  BY DEF Typed, NetType
<1>3. Len(inbox') = j /\ (\A i \in 1..j : inbox'[i] = inbox[i]) /\ j # 0
  <2>1. j # 0
    BY <1>1, <1>2
  <2>. QED BY <1>1, <1>2, <2>1
<1>4. inbox # <<>> /\ item' = item
  <2>1. inbox # <<>>
    BY <1>2, <1>3
  <2>2. Head(inbox) = inbox[1] /\ Head(inbox') = inbox'[1] /\ 1 \in 1..j
    <3>1. inbox' \in Seq(Items)
      BY <1>1, <1>2
    <3>. QED BY <1>2, <1>3, <2>1, <3>1
  <2>. QED BY <1>3, <2>1, <2>2 DEF item
<1>5. server.alive /\ ~server'.alive /\ UNCHANGED <<stack, subs, wanted, torn>>
  BY DEF ServerCloses, sock, Gone
<1>6. Top' = Top /\ Agreed' = Agreed /\ (\A pc : In(pc)' <=> In(pc)) /\ \A s : Registered(s)' = Registered(s)
  BY <1>5 DEF Top, Agreed, Registered, In, Looping
<1>7. ASSUME NEW n \in Nat, After(n) PROVE After(n)'
  <2>1. \A x : Wanted(x)' <=> Wanted(x)
    BY <1>5 DEF Wanted
  <2>2. \A i \in 1..j : i \in 1..Len(inbox)
    BY <1>2
  <2>. QED BY <1>3, <1>7, <2>1, <2>2 DEF After
<1>8. (Late => Late') /\ \A types : Answered(types) => Answered(types)'
  BY <1>4, <1>6, <1>7 DEF Late, Answered
<1>9. ASSUME stack # <<>>, Len(inbox) >= Top.left, Acks(Top.left), After(Top.left)
      PROVE  \/ Lost'
             \/ /\ (Len(inbox) >= Top.left)' /\ Acks(Top.left)' /\ After(Top.left)'
                /\ \A n : Coming(n)' <=> Coming(n)
  <2>1. Top.left \in Nat
    BY <1>9, TopTypes, FrameFields, Bounds
  <2>2. CASE j < Top.left
    <3>1. Acks(Len(inbox))'
      BY <1>3, <1>6, <1>9, <2>1, <2>2 DEF Acks
    <3>. QED BY <1>3, <1>5, <1>6, <2>2, <3>1 DEF Lost
  <2>3. CASE ~(j < Top.left)
    <3>1. \A i \in 1..Top.left : inbox'[i] = inbox[i]
      BY <1>3, <2>1, <2>3
    <3>2. Acks(Top.left)' /\ \A n : Coming(n)' <=> Coming(n)
      BY <1>6, <1>9, <3>1 DEF Acks, Coming
    <3>3. After(Top.left)'
      BY <1>6, <1>7, <1>9, <2>1
    <3>. QED BY <1>3, <1>6, <2>1, <2>3, <3>2, <3>3
  <2>. QED BY <2>2, <2>3
<1>10. stack # <<>> /\ Joining => Joining' \/ Lost'
  <2> SUFFICES ASSUME stack # <<>>, Joining, ~Lost' PROVE Joining'
    OBVIOUS
  <2>1. /\ (Len(inbox) >= Top.left)' /\ Acks(Top.left)' /\ After(Top.left)'
        /\ \A n : Coming(n)' <=> Coming(n)
    BY <1>9 DEF Joining
  <2>. QED BY <1>5, <1>6, <2>1 DEF Joining
<1>11. stack # <<>> /\ Leaving => Leaving' \/ Lost'
  <2> SUFFICES ASSUME stack # <<>>, Leaving, ~Lost' PROVE Leaving'
    OBVIOUS
  <2>1. /\ (Len(inbox) >= Top.left)' /\ Acks(Top.left)' /\ After(Top.left)'
        /\ \A n : Coming(n)' <=> Coming(n)
    BY <1>9 DEF Leaving
  <2>. QED BY <1>5, <1>6, <2>1 DEF Leaving
<1>12. Quiet => Quiet'
  BY <1>6, <1>7 DEF Quiet
<1>13. Agree /\ ~Lost
  BY <1>5 DEF Mirror, Live, Lost
<1>. QED BY <1>5, <1>6, <1>8, <1>10, <1>11, <1>12, <1>13 DEF Agree, In

-----------------------------------------------------------------------------
(* Reading. *)

\* What is left of the stream when its first item is read.
LEMMA Rest ==
  ASSUME Typed, inbox # <<>>, inbox' = Tail(inbox), UNCHANGED wanted
  PROVE  /\ Len(inbox') = Len(inbox) - 1 /\ \A i \in 1..Len(inbox) - 1 : inbox'[i] = inbox[i + 1]
         /\ item = inbox[1] /\ item \in Items /\ Len(inbox) \in Nat \ {0}
         /\ \A n \in Nat : After(n + 1) => After(n)'
         /\ (After(0) => After(0)' /\ Wanted(item))
<1>1. /\ item \in Items /\ item = inbox[1] /\ Len(inbox) \in Nat \ {0} /\ Len(inbox') = Len(inbox) - 1
      /\ \A i \in 1..Len(inbox) - 1 : inbox'[i] = inbox[i + 1]
  BY ArrivedTypes
<1>2. \A x : Wanted(x)' <=> Wanted(x)
  BY DEF Wanted
<1>3. ASSUME NEW n \in Nat, After(n + 1) PROVE After(n)'
  <2>1. ASSUME NEW i \in 1..Len(inbox'), i > n PROVE Wanted(inbox'[i])
    <3>1. i + 1 \in 1..Len(inbox) /\ i + 1 > n + 1 /\ inbox'[i] = inbox[i + 1]
      BY <1>1, <2>1
    <3>. QED BY <1>3, <3>1 DEF After
  <2>. QED BY <1>2, <2>1 DEF After
<1>4. ASSUME After(0) PROVE After(0)' /\ Wanted(item)
  <2>1. 1 \in 1..Len(inbox) /\ 1 > 0
    BY <1>1
  <2>2. Wanted(inbox[1])
    BY <1>4, <2>1 DEF After
  <2>3. After(0 + 1)
    BY <1>4 DEF After
  <2>. QED BY <1>1, <1>3, <2>2, <2>3
<1>. QED BY <1>1, <1>3, <1>4

LEMMA Settles ==
  ASSUME Agreed', After(0)', (stack = <<>> \/ In("loop") \/ In("callback"))'
  PROVE  Agree'
BY DEF Agree, Quiet, In

\* A call that is no loop returns, and leaves the records as they are.
LEMMA PopAgreed ==
  ASSUME Typed, FramesFit, stack # <<>>, stack' = Front(stack), Top.pc \notin {"loop", "callback"},
         UNCHANGED <<subs, wanted>>, Agreed
  PROVE  Agreed' /\ (stack = <<>> \/ In("callback"))'
<1>1. (stack' = <<>> \/ In("callback")') /\ \A k : ~RunsLoop(Top, k) => (Looping(k)' <=> Looping(k))
  BY Pop
<1>2. \A k : ~RunsLoop(Top, k)
  BY DEF RunsLoop
<1>3. \A k : Looping(k)' <=> Looping(k)
  BY <1>1, <1>2
<1>. QED BY <1>1, <1>3 DEF Agreed, Registered

\* The first of the acknowledgements that are to come.
LEMMA AckRead ==
  ASSUME Typed, stack # <<>>, inbox # <<>>, inbox' = Tail(inbox), UNCHANGED wanted, Top.left > 0,
         Top'.m = Top.m, Top'.left = Top.left - 1
  PROVE  /\ (Lost /\ UNCHANGED server => Lost' /\ item.type = Top.m /\ item.name \in Names)
         /\ (Len(inbox) >= Top.left /\ Acks(Top.left) /\ After(Top.left) =>
              /\ (Len(inbox) >= Top.left)' /\ Acks(Top.left)' /\ After(Top.left)'
              /\ item.type = Top.m /\ item.name \in Names
              /\ \A n : Coming(n) <=> (item.name = n \/ Coming(n)'))
<1>1. /\ Len(inbox') = Len(inbox) - 1 /\ \A i \in 1..Len(inbox) - 1 : inbox'[i] = inbox[i + 1]
      /\ item = inbox[1] /\ Len(inbox) \in Nat \ {0} /\ \A n \in Nat : After(n + 1) => After(n)'
  BY Rest
<1>2. Top.left \in Nat \ {0}
  BY TopTypes, FrameFields, Bounds
<1>3. ASSUME Lost, UNCHANGED server PROVE Lost' /\ item.type = Top.m /\ item.name \in Names
  BY <1>1, <1>2, <1>3 DEF Lost, Acks
<1>4. ASSUME Len(inbox) >= Top.left, Acks(Top.left), After(Top.left)
      PROVE  /\ (Len(inbox) >= Top.left)' /\ Acks(Top.left)' /\ After(Top.left)'
             /\ item.type = Top.m /\ item.name \in Names
             /\ \A n : Coming(n) <=> (item.name = n \/ Coming(n)')
  <2>1. \A i \in 1..Top.left - 1 : inbox'[i] = inbox[i + 1] /\ i + 1 \in 1..Top.left
    BY <1>1, <1>2, <1>4
  <2>2. Acks(Top.left)'
    BY <1>4, <2>1 DEF Acks
  <2>3. item.type = Top.m /\ item.name \in Names
    BY <1>1, <1>2, <1>4 DEF Acks
  <2>4. After(Top.left)'
    <3>1. Top.left - 1 \in Nat /\ (Top.left - 1) + 1 = Top.left
      BY <1>2
    <3>. QED BY <1>1, <1>4, <3>1
  <2>5. ASSUME NEW n PROVE Coming(n) <=> (item.name = n \/ Coming(n)')
    <3>1. \A i \in 1..Top.left : i = 1 \/ (i - 1 \in 1..Top.left - 1 /\ inbox[i] = inbox'[i - 1])
      BY <1>1, <1>2, <2>1, <1>4
    <3>2. 1 \in 1..Top.left
      BY <1>2
    <3>3. Coming(n) => item.name = n \/ Coming(n)'
      BY <1>1, <3>1 DEF Coming
    <3>4. item.name = n \/ Coming(n)' => Coming(n)
      BY <1>1, <2>1, <3>2 DEF Coming
    <3>. QED BY <3>3, <3>4
  <2>. QED BY <1>1, <1>2, <1>4, <2>2, <2>3, <2>4, <2>5
<1>. QED BY <1>3, <1>4

LEMMA ReadAckMirror ==
  ASSUME Typed, FramesFit, Mirror, ReadAck, torn' = {}
  PROVE  Agree'
<1>1. /\ stack # <<>> /\ Top.pc = "acks" /\ Top.left > 0 /\ inbox # <<>> /\ inbox' = Tail(inbox) /\ ~IsMessage(item)
      /\ torn = {} /\ UNCHANGED <<subs, server, wanted>>
  BY DEF ReadAck, In, Reads, Arrived, Swallows, Torn, sock, seen
<1>2. Top \in Frames /\ Top.m \in Kinds /\ Top.left \in Nat \ {0}
  BY <1>1, TopTypes, FrameFields, Bounds
<1>3. Answered({"error"}) \/ Lost \/ Joining
  BY <1>1 DEF Mirror, Live, Agree, In, Late
<1>4. CASE Answered({"error"})
  <2>1. item.type # Top.m
    BY <1>2, <1>4 DEF Answered, Kinds
  <2>2. stack' = Front(stack)
    BY <2>1 DEF ReadAck, Returns
  <2>3. After(0)'
    <3>1. After(0 + 1)
      BY <1>4 DEF Answered
    <3>. QED BY <1>1, <3>1, Rest
  <2>. QED BY <1>1, <1>4, <2>2, <2>3, PopAgreed, Settles DEF Answered
<1> DEFINE f == [Top EXCEPT !.left = @ - 1, !.built[item.name] = Top.id]
<1>5. ASSUME item.type = Top.m, item.name \in Names
      PROVE  /\ stack' # <<>> /\ Top' = f /\ (\A k : Looping(k)' <=> Looping(k))
             /\ f.m = Top.m /\ f.pc = "acks" /\ f.left = Top.left - 1 /\ f.id = Top.id
             /\ \A n \in Names : f.built[n] = IF n = item.name THEN Top.id ELSE Top.built[n]
  <2>1. Top.left \in 0..Cardinality(Names) /\ Top.built \in [Names -> 0..MaxCalls] /\ Top.id \in 0..MaxCalls
    BY <1>2, FrameFields
  <2>2. /\ Top.left - 1 \in 0..Cardinality(Names)
        /\ [Top.built EXCEPT ![item.name] = Top.id] \in [Names -> 0..MaxCalls]
    <3>1. Top.left - 1 \in 0..Cardinality(Names)
      BY <1>2, <2>1, Bounds
    <3>. QED BY <2>1, <3>1
  <2>3. /\ f \in Frames /\ f.m = Top.m /\ f.pc = "acks" /\ f.left = Top.left - 1 /\ f.id = Top.id
        /\ f.built = [Top.built EXCEPT ![item.name] = Top.id]
    BY <1>1, <1>2, <2>2 DEF Frames
  <2>4. SetTop(f)
    BY <1>5 DEF ReadAck
  <2>5. \A n \in Names : f.built[n] = IF n = item.name THEN Top.id ELSE Top.built[n]
    BY <2>1, <2>3
  <2> HIDE DEF f
  <2>6. \A k : RunsLoop(f, k) <=> RunsLoop(Top, k)
    BY <1>1, <2>3 DEF RunsLoop
  <2>. QED BY <1>1, <2>3, <2>4, <2>5, <2>6, Set
<1> HIDE DEF f
<1>6. CASE Lost
  <2>1. item.type = Top.m /\ item.name \in Names
    BY <1>1, <1>6, Rest DEF Lost, Acks
  <2>2. stack' # <<>> /\ Top'.pc = "acks" /\ Top'.m = Top.m /\ Top'.left = Top.left - 1
    BY <1>5, <2>1
  <2>3. Lost'
    BY <1>1, <1>6, <2>2, AckRead
  <2>. QED BY <2>2, <2>3 DEF Agree, In
<1>7. CASE Joining
  <2>1. item.type = Top.m /\ item.name \in Names
    BY <1>1, <1>2, <1>7, Rest DEF Joining, Acks
  <2>2. /\ stack' # <<>> /\ Top' = f /\ (\A k : Looping(k)' <=> Looping(k))
        /\ f.m = Top.m /\ f.pc = "acks" /\ f.left = Top.left - 1 /\ f.id = Top.id
        /\ \A n \in Names : f.built[n] = IF n = item.name THEN Top.id ELSE Top.built[n]
    BY <1>5, <2>1
  <2>3. /\ (Len(inbox) >= Top.left)' /\ Acks(Top.left)' /\ After(Top.left)'
        /\ \A n : Coming(n) <=> (item.name = n \/ Coming(n)')
    BY <1>1, <1>7, <2>2, AckRead DEF Joining
  <2>4. (Top.id # 0 /\ \A n \in Names : Top.built[n] \in {0, Top.id})'
    BY <1>7, <2>2 DEF Joining
  <2>5. ASSUME NEW s \in Subscription
        PROVE  (wanted[s] = IF s[1] = Top.m /\ (Top.built[s[2]] # 0 \/ Coming(s[2])) THEN Top.id ELSE Registered(s))'
    <3>1. wanted[s] = IF s[1] = Top.m /\ (Top.built[s[2]] # 0 \/ Coming(s[2])) THEN Top.id ELSE Registered(s)
      BY <1>7 DEF Joining
    <3>2. Registered(s)' = Registered(s)
      BY <1>1, <2>2 DEF Registered
    <3>3. Top'.built[s[2]] = IF s[2] = item.name THEN Top.id ELSE Top.built[s[2]]
      BY <2>2, Pairs
    <3>4. Top.id # 0
      BY <1>7 DEF Joining
    <3>5. (Top'.built[s[2]] # 0 \/ Coming(s[2])') <=> (Top.built[s[2]] # 0 \/ Coming(s[2]))
      BY <2>3, <3>3, <3>4
    <3>. QED BY <1>1, <2>2, <3>1, <3>2, <3>5
  <2>6. Joining'
    BY <2>3, <2>4, <2>5 DEF Joining
  <2>. QED BY <2>2, <2>6 DEF Agree, In
<1>. QED BY <1>3, <1>4, <1>6, <1>7

LEMMA ReadUnackMirror ==
  ASSUME Typed, FramesFit, Mirror, ReadUnack, torn' = {}
  PROVE  Agree'
<1>1. /\ stack # <<>> /\ Top.pc = "unacks" /\ Top.left > 0 /\ inbox # <<>> /\ inbox' = Tail(inbox)
      /\ ~IsMessage(item) /\ torn = {} /\ UNCHANGED <<server, wanted>>
  BY DEF ReadUnack, In, Reads, Arrived, Swallows, Torn, seen
<1>2. Top \in Frames /\ Top.m \in Leavings /\ Top.left \in Nat \ {0}
  BY <1>1, TopTypes, FrameFields, Bounds
<1>3. Lost \/ Leaving
  BY <1>1 DEF Mirror, Live, Agree, In, Late
<1>4. item.name \in Names
  <2>1. Acks(Len(inbox)) \/ Acks(Top.left)
    BY <1>3 DEF Lost, Leaving
  <2>. QED BY <1>1, <1>2, <2>1, Rest DEF Acks
<1> DEFINE k == CHOOSE j \in Kinds : Off[j] = Top.m
           f == [Top EXCEPT !.left = @ - 1]
<1>5. k \in Kinds /\ Off[k] = Top.m
  BY <1>2, KindFacts
<1>6. subs' = [subs EXCEPT ![k].cb[item.name] = 0] /\ SetTop(f)
  BY <1>4 DEF ReadUnack
<1> HIDE DEF k
<1>7. f \in Frames /\ f.m = Top.m /\ f.pc = "unacks" /\ f.left = Top.left - 1
  <2>1. Top.left - 1 \in 0..Cardinality(Names)
    BY <1>2, FrameFields, Bounds
  <2>. QED BY <1>1, <1>2, <2>1 DEF Frames
<1> HIDE DEF f
<1>8. /\ stack' # <<>> /\ Top' = f /\ \A j : Looping(j)' <=> Looping(j)
  <2>1. \A j : RunsLoop(f, j) <=> RunsLoop(Top, j)
    BY <1>1, <1>7 DEF RunsLoop
  <2>. QED BY <1>1, <1>6, <1>7, <2>1, Set
<1>9. Lost => Lost'
  BY <1>1, <1>7, <1>8, AckRead
<1>10. CASE Leaving
  <2>1. /\ (Len(inbox) >= Top.left)' /\ Acks(Top.left)' /\ After(Top.left)'
        /\ \A n : Coming(n) <=> (item.name = n \/ Coming(n)')
    BY <1>1, <1>7, <1>8, <1>10, AckRead DEF Leaving
  <2>2. ASSUME NEW s \in Subscription
        PROVE  (wanted[s] = IF Off[s[1]] = Top.m /\ Coming(s[2]) THEN 0 ELSE Registered(s))'
    <3>1. wanted[s] = IF Off[s[1]] = Top.m /\ Coming(s[2]) THEN 0 ELSE Registered(s)
      BY <1>10 DEF Leaving
    <3>2. Registered(s)' = IF s[1] = k /\ s[2] = item.name /\ Looping(s[1]) THEN 0 ELSE Registered(s)
      <4>1. s[1] \in Kinds /\ s[2] \in Names /\ subs \in [Kinds -> Tables]
        BY Pairs DEF Typed, SubsType
      <4>2. subs'[s[1]].cb[s[2]] = IF s[1] = k /\ s[2] = item.name THEN 0 ELSE subs[s[1]].cb[s[2]]
        <5>1. subs[s[1]] \in Tables
          BY <4>1
        <5>. QED BY <1>5, <1>6, <4>1, <5>1 DEF Tables
      <4>. QED BY <1>8, <4>2 DEF Registered
    <3>3. Off[s[1]] = Top.m <=> s[1] = k
      BY <1>5, Pairs, KindFacts
    <3>4. Registered(s) = 0 \/ Looping(s[1])
      BY DEF Registered
    <3>. QED BY <1>1, <1>7, <1>8, <2>1, <3>1, <3>2, <3>3, <3>4
  <2>3. Leaving'
    BY <2>1, <2>2 DEF Leaving
  <2>. QED BY <1>7, <1>8, <2>3 DEF Agree, In
<1>. QED BY <1>3, <1>7, <1>8, <1>9, <1>10 DEF Agree, In

LEMMA ReadReplyMirror ==
  ASSUME Typed, FramesFit, Mirror, ReadReply, torn' = {}
  PROVE  Agree'
<1>1. /\ stack # <<>> /\ Top.pc = "reply" /\ inbox # <<>> /\ ~IsMessage(item) /\ torn = {}
      /\ UNCHANGED <<subs, wanted>> /\ stack' = Front(stack)
  BY DEF ReadReply, In, Arrived, Swallows, Torn, Returns, sock, seen
<1>2. Answered({"line", "error"})
  BY <1>1 DEF Mirror, Live, Agree, In, Late
<1>3. inbox' = Tail(inbox)
  BY <1>2 DEF ReadReply, Answered
<1>4. After(0)'
  <2>1. After(0 + 1)
    BY <1>2 DEF Answered
  <2>. QED BY <1>1, <1>3, <2>1, Rest
<1>. QED BY <1>1, <1>2, <1>4, PopAgreed, Settles DEF Answered

\* All acknowledgements of subscribe() have come.
LEMMA SubscribedMirror ==
  ASSUME Typed, FramesFit, Mirror, Live, Subscribed, torn' = {}
  PROVE  Agree'
<1> DEFINE k == Top.m
           b == Top.built
<1>1. stack # <<>> /\ Top.pc = "acks" /\ Top.left = 0 /\ UNCHANGED <<inbox, wanted>>
  BY DEF Subscribed, In, net, seen
<1>2. Top \in Frames /\ k \in Kinds /\ b \in [Names -> 0..MaxCalls] /\ subs \in [Kinds -> Tables]
  BY <1>1, TopTypes, FrameFields DEF Typed, SubsType
<1>3. Joining
  <2>1. inbox \in Seq(Items)
    BY DEF Typed, NetType
  <2>2. ~Lost
    BY <1>1, <2>1 DEF Lost
  <2>. QED BY <1>1, <2>2 DEF Mirror, Agree, In
<1>4. After(0)'
  <2>1. After(0)
    BY <1>1, <1>3 DEF Joining
  <2>. QED BY <1>1, <2>1 DEF After, Wanted
<1>5. ASSUME NEW s \in Subscription
      PROVE  wanted[s] = IF s[1] = k /\ b[s[2]] # 0 THEN b[s[2]] ELSE Registered(s)
  <2>1. ~Coming(s[2])
    BY <1>1 DEF Coming
  <2>2. b[s[2]] \in {0, Top.id}
    BY <1>3, Pairs DEF Joining
  <2>3. wanted[s] = IF s[1] = k /\ (b[s[2]] # 0 \/ Coming(s[2])) THEN Top.id ELSE Registered(s)
    BY <1>3 DEF Joining
  <2>. QED BY <2>1, <2>2, <2>3
<1>6. CASE subs[k].open
  <2>1. subs' = [subs EXCEPT ![k].cb = Merged(@, b)] /\ stack' = Front(stack) /\ Looping(k)
    BY <1>6 DEF Subscribed, Returns, Torn
  <2>2. (stack' = <<>> \/ In("callback")') /\ \A j : Looping(j)' <=> Looping(j)
    <3>1. \A j : ~RunsLoop(Top, j)
      BY <1>1 DEF RunsLoop
    <3>. QED BY <1>1, <2>1, <3>1, Pop
  <2>3. ASSUME NEW s \in Subscription PROVE wanted'[s] = Registered(s)'
    <3>1. s[1] \in Kinds /\ s[2] \in Names
      BY Pairs
    <3>2. subs'[s[1]].cb[s[2]] = IF s[1] = k /\ b[s[2]] # 0 THEN b[s[2]] ELSE subs[s[1]].cb[s[2]]
      <4>1. subs[s[1]] \in Tables /\ subs[k] \in Tables
        BY <1>2, <3>1
      <4>2. CASE s[1] = k
        <5>1. subs'[k].cb = Merged(subs[k].cb, b)
          BY <1>2, <2>1, <4>1 DEF Tables
        <5>. QED BY <3>1, <4>2, <5>1 DEF Merged
      <4>3. CASE s[1] # k
        BY <1>2, <2>1, <3>1, <4>3
      <4>. QED BY <4>2, <4>3
    <3>3. s[1] = k => Looping(s[1])
      BY <2>1
    <3> HIDE DEF k, b
    <3>. QED BY <1>1, <1>5, <2>2, <3>2, <3>3 DEF Registered
  <2>4. Agreed'
    BY <2>3 DEF Agreed
  <2>. QED BY <1>4, <2>2, <2>4, Settles
<1>7. CASE ~subs[k].open
  <2> DEFINE f == [Top EXCEPT !.pc = "loop"]
  <2>1. subs' = [subs EXCEPT ![k] = [open |-> TRUE, cb |-> b]] /\ SetTop(f)
    BY <1>7 DEF Subscribed
  <2>2. f \in Frames /\ f.m = k /\ f.pc = "loop"
    BY <1>2 DEF Frames
  <2> HIDE DEF f
  <2>3. /\ stack' # <<>> /\ Top' = f
        /\ \A j : IF j = k THEN Looping(j)' ELSE Looping(j)' <=> Looping(j)
    <3>1. RunsLoop(f, k) /\ \A j : j # k => (RunsLoop(f, j) <=> RunsLoop(Top, j))
      BY <2>2 DEF RunsLoop
    <3>. QED BY <1>1, <2>1, <2>2, <3>1, Set
  <2>4. ASSUME NEW s \in Subscription PROVE wanted'[s] = Registered(s)'
    <3>1. s[1] \in Kinds /\ s[2] \in Names
      BY Pairs
    <3>2. CASE s[1] = k
      <4>1. Registered(s)' = b[s[2]]
        <5>1. Looping(s[1])'
          BY <2>3, <3>2
        <5>2. subs'[s[1]].cb[s[2]] = b[s[2]]
          BY <1>2, <2>1, <3>2
        <5>. QED BY <5>1, <5>2 DEF Registered
      <4>2. Registered(s) = 0
        BY <1>7, <3>1, <3>2 DEF Registered, Typed, SubsType, NoTable, NoNames
      <4>. QED BY <1>1, <1>5, <3>2, <4>1, <4>2
    <3>3. CASE s[1] # k
      <4>1. Registered(s)' = Registered(s)
        BY <1>2, <2>1, <2>3, <3>1, <3>3 DEF Registered
      <4>. QED BY <1>1, <1>5, <3>3, <4>1
    <3>. QED BY <3>2, <3>3
  <2>5. Agreed'
    BY <2>4 DEF Agreed
  <2>. QED BY <1>4, <2>2, <2>3, <2>5, Settles DEF In
<1>. QED BY <1>6, <1>7

LEMMA UnsubscribedMirror ==
  ASSUME Typed, FramesFit, Mirror, Live, Unsubscribed
  PROVE  Agree'
<1> DEFINE k == CHOOSE j \in Kinds : Off[j] = Top.m
<1>1. /\ stack # <<>> /\ Top.pc = "unacks" /\ Top.left = 0 /\ UNCHANGED <<inbox, wanted>>
      /\ stack' = Front(stack) /\ subs' = [subs EXCEPT ![k] = Kept(@)]
  BY DEF Unsubscribed, Returns, In, net, seen
<1>2. Top.m \in Leavings /\ k \in Kinds /\ subs \in [Kinds -> Tables]
  <2>1. Top.m \in Leavings
    BY <1>1, TopTypes, FrameFields
  <2>. QED BY <2>1, KindFacts DEF Typed, SubsType
<1> HIDE DEF k
<1>3. Leaving
  <2>1. inbox \in Seq(Items)
    BY DEF Typed, NetType
  <2>2. ~Lost
    BY <1>1, <2>1 DEF Lost
  <2>. QED BY <1>1, <2>2 DEF Mirror, Agree, In
<1>4. After(0)'
  <2>1. After(0)
    BY <1>1, <1>3 DEF Leaving
  <2>. QED BY <1>1, <2>1 DEF After, Wanted
<1>5. (stack' = <<>> \/ In("callback")') /\ \A j : Looping(j)' <=> Looping(j)
  <2>1. \A j : ~RunsLoop(Top, j)
    BY <1>1 DEF RunsLoop
  <2>. QED BY <1>1, <2>1, Pop
<1>6. ASSUME NEW s \in Subscription PROVE wanted'[s] = Registered(s)'
  <2>1. s[1] \in Kinds
    BY Pairs
  <2>2. subs'[s[1]].cb = subs[s[1]].cb
    <3>1. subs[s[1]] \in Tables /\ subs[k] \in Tables
      BY <1>2, <2>1
    <3>2. Kept(subs[k]).cb = subs[k].cb
      BY <3>1 DEF Kept, Tables
    <3>. QED BY <1>1, <1>2, <2>1, <3>2
  <2>3. Registered(s)' = Registered(s)
    BY <1>5, <2>2 DEF Registered
  <2>4. wanted[s] = Registered(s)
    BY <1>1, <1>3 DEF Leaving, Coming
  <2>. QED BY <1>1, <2>3, <2>4
<1>. QED BY <1>4, <1>5, <1>6, Settles DEF Agreed

-----------------------------------------------------------------------------
(* Loops. *)

LEMMA LoopEndsMirror ==
  ASSUME Typed, FramesFit, Mirror, Live, LoopEnds
  PROVE  Agree'
<1>1. /\ stack # <<>> /\ Top.pc = "loop" /\ ~subs[Top.m].open /\ stack' = Front(stack)
      /\ UNCHANGED <<subs, inbox, wanted>>
  BY DEF LoopEnds, Returns, In, sock, net, seen
<1>2. Quiet
  BY <1>1 DEF Mirror, Agree, In
<1>3. (stack' = <<>> \/ In("callback")') /\ \A j : ~RunsLoop(Top, j) => (Looping(j)' <=> Looping(j))
  BY <1>1, Pop
<1>4. ASSUME NEW s \in Subscription PROVE wanted'[s] = Registered(s)'
  <2>1. s[1] \in Kinds /\ s[2] \in Names
    BY Pairs
  <2>2. wanted'[s] = Registered(s)
    BY <1>1, <1>2 DEF Quiet, Agreed
  <2>3. CASE s[1] = Top.m
    <3>1. subs[s[1]].cb[s[2]] = 0
      BY <1>1, <2>1, <2>3 DEF Typed, SubsType, NoTable, NoNames
    <3>. QED BY <1>1, <2>2, <3>1 DEF Registered
  <2>4. CASE s[1] # Top.m
    BY <1>1, <1>3, <2>2, <2>4 DEF Registered, RunsLoop
  <2>. QED BY <2>3, <2>4
<1>5. After(0)'
  BY <1>1, <1>2 DEF Quiet, After, Wanted
<1>. QED BY <1>3, <1>4, <1>5, Settles DEF Agreed

\* The loop calls its callback, or is called back by it.
LEMMA TurnMirror ==
  ASSUME Typed, Typed', FramesFit, Quiet, stack # <<>>, Top.pc \in {"loop", "callback"},
         NEW f, SetTop(f), f.m = Top.m, f.pc \in {"loop", "callback"}, UNCHANGED <<subs, wanted>>,
         UNCHANGED inbox \/ (inbox # <<>> /\ inbox' = Tail(inbox))
  PROVE  Agree'
<1>1. f \in Frames
  BY FrameSet
<1>2. stack' # <<>> /\ Top' = f /\ \A k : Looping(k)' <=> Looping(k)
  <2>1. \A k : RunsLoop(f, k) <=> RunsLoop(Top, k)
    BY DEF RunsLoop
  <2>. QED BY <1>1, <2>1, Set
<1>3. Agreed'
  BY <1>2 DEF Quiet, Agreed, Registered
<1>4. After(0)'
  <2>1. CASE UNCHANGED inbox
    BY <2>1 DEF Quiet, After, Wanted
  <2>2. CASE inbox # <<>> /\ inbox' = Tail(inbox)
    BY <2>2, Rest DEF Quiet
  <2>. QED BY <2>1, <2>2
<1>. QED BY <1>2, <1>3, <1>4, Settles DEF In

LEMMA TurnsMirror ==
  ASSUME Typed, Typed', FramesFit, Mirror, Live, HandOver \/ CallbackReturns
  PROVE  Agree'
<1>1. stack # <<>> /\ Top.pc \in {"loop", "callback"}
  BY DEF HandOver, CallbackReturns, LoopReads, In
<1>2. Quiet /\ Top \in Frames
  BY <1>1, TopTypes DEF Mirror, Agree, In
<1>3. CASE HandOver
  <2> DEFINE f == [Top EXCEPT !.pc = "callback", !.cb = Callback]
  <2>1. f.m = Top.m /\ f.pc = "callback"
    BY <1>2 DEF Frames
  <2>2. SetTop(f) /\ UNCHANGED <<subs, wanted>> /\ inbox # <<>> /\ inbox' = Tail(inbox)
    BY <1>3 DEF HandOver, Reads, Arrived, sock
  <2> HIDE DEF f
  <2>. QED BY <1>1, <1>2, <2>1, <2>2, TurnMirror
<1>4. CASE CallbackReturns
  <2> DEFINE f == [Top EXCEPT !.pc = "loop", !.cb = 0]
  <2>1. f.m = Top.m /\ f.pc = "loop"
    BY <1>2 DEF Frames
  <2>2. SetTop(f) /\ UNCHANGED <<subs, wanted, inbox>>
    BY <1>4 DEF CallbackReturns, sock, net, seen
  <2> HIDE DEF f
  <2>. QED BY <1>1, <1>2, <2>1, <2>2, TurnMirror
<1>. QED BY <1>3, <1>4

LEMMA ConnectMirror ==
  ASSUME Connect
  PROVE  Agree'
<1>1. stack = <<>> /\ stack' = <<>> /\ inbox' = <<>> /\ wanted' = NoWants
  BY DEF Connect
<1>2. Agreed'
  BY <1>1 DEF Agreed, Registered, Looping, NoWants
<1>3. After(0)'
  <2>1. 1..Len(inbox') = {}
    BY <1>1
  <2>. QED BY <2>1 DEF After
<1>. QED BY <1>1, <1>2, <1>3, Settles

LEMMA MirrorNext ==
  ASSUME Typed, Typed', FramesFit, Connected, Mirror, [Next]_vars
  PROVE  Mirror'
<1> SUFFICES ASSUME Live' PROVE Agree'
  BY DEF Mirror
<1>1. torn' = {} /\ (server'.alive \/ inbox' # <<>>)
  BY DEF Live
<1>2. CASE Application
  <2>1. CASE CallFails \/ Close
    <3>1. Disconnected
      BY <2>1 DEF CallFails, Close
    <3>2. ~server'.alive /\ inbox' = <<>>
      BY <3>1 DEF Disconnected, Gone
    <3>. QED BY <1>1, <3>2
  <2>2. CASE CallbackCatches
    <3>1. UNCHANGED <<subs, stack, server, inbox, wanted, torn>>
      BY <2>2 DEF CallbackCatches, sock, net, seen
    <3>. QED BY <1>1, <3>1 DEF Mirror, Live, Agree, Quiet, Agreed, Registered, Looping, After, Wanted, Late, Lost, Joining,
              Leaving, Answered, Acks, Coming, In, Top, item
  <2>. QED BY <1>1, <1>2, <2>1, <2>2, SubscribeMirror, UnsubscribeMirror, CommandMirror, ConnectMirror DEF Application
<1>3. CASE Environment
  <2>1. CASE StopsShort \/ ReadTimesOut
    BY <1>1, <2>1 DEF StopsShort, ReadTimesOut, Disconnected, Gone, Torn
  <2>2. CASE ServerCloses
    BY <1>1, <2>2, ClosesMirror DEF ServerCloses, Gone
  <2>. QED BY <1>1, <1>3, <2>1, <2>2, PublishMirror DEF Environment
<1>4. CASE Client
  <2>1. torn = {}
    BY <1>1, <1>4 DEF Client, ReadAck, Subscribed, ReadUnack, Unsubscribed, ReadReply, LoopEnds, HandOver, NoCallback,
          Pending, NotAMessage, ReadSeesEof, CallbackReturns, Swallows, Mixed, Torn
  <2>2. CASE ReadAck \/ ReadUnack \/ ReadReply
    BY <1>1, <2>2, ReadAckMirror, ReadUnackMirror, ReadReplyMirror
  <2>3. CASE Pending \/ ReadSeesEof
    BY <1>1, <2>3 DEF Pending, ReadSeesEof, Disconnected, Gone, Torn
  <2>4. ASSUME Subscribed \/ Unsubscribed \/ LoopEnds \/ HandOver \/ CallbackReturns PROVE Agree'
    <3>1. Live
      <4>1. UNCHANGED <<server, inbox>> \/ inbox # <<>>
        BY <2>4 DEF Subscribed, Unsubscribed, LoopEnds, HandOver, CallbackReturns, Reads, Arrived, net
      <4>. QED BY <1>1, <2>1, <4>1 DEF Live
    <3>. QED BY <1>1, <2>4, <3>1, SubscribedMirror, UnsubscribedMirror, LoopEndsMirror, TurnsMirror
  <2>5. ASSUME NoCallback \/ NotAMessage PROVE FALSE
    <3>1. /\ inbox # <<>> /\ In("loop") /\ subs[Top.m].open
          /\ (NoCallback => IsMessage(item) /\ KindOf(item) = Top.m /\ Callback = 0) /\ (~NoCallback => ~IsMessage(item))
      BY <1>1, <2>5 DEF NoCallback, NotAMessage, LoopReads, Reads, Arrived, Mixed, Torn
    <3>2. Quiet
      BY <2>1, <3>1 DEF Mirror, Live, Agree
    <3>3. Wanted(item)
      BY <3>1, <3>2, ArrivedTypes DEF Quiet, After
    <3>4. NoCallback /\ <<Top.m, item.name>> \in Subscription /\ wanted[<<Top.m, item.name>>] # 0
      BY <3>1, <3>3, KindIs DEF Wanted, Subscription
    <3>. QED BY <3>1, <3>2, <3>4 DEF Quiet, Agreed, Registered, Callback
  <2>. QED BY <1>4, <2>2, <2>3, <2>4, <2>5 DEF Client
<1>5. CASE UNCHANGED vars
  <2>1. UNCHANGED <<subs, stack, server, inbox, wanted, torn>>
    BY <1>5 DEF vars, sock, net, seen
  <2>. QED BY <1>1, <2>1 DEF Mirror, Live, Agree, Quiet, Agreed, Registered, Looping, After, Wanted, Late, Lost, Joining,
              Leaving, Answered, Acks, Coming, In, Top, item
<1>. QED BY <1>2, <1>3, <1>4, <1>5 DEF Next

-----------------------------------------------------------------------------
(* The theorems. *)

LEMMA InitLoops == Init => LoopsInv
<1> SUFFICES ASSUME Init PROVE LoopsInv
  OBVIOUS
<1>1. stack = <<>> /\ inbox = <<>> /\ due = <<>> /\ wanted = NoWants /\ server = Fresh /\ up
  BY DEF Init
<1>2. 1..Len(<<>>) = {}
  OBVIOUS
<1>3. FramesFit /\ Connected
  BY <1>1, <1>2 DEF FramesFit, Connected, Fresh, NoWants
<1>4. Quiet
  BY <1>1, <1>2 DEF Quiet, Agreed, Registered, Looping, NoWants, After
<1>5. Agree
  BY <1>1, <1>4 DEF Agree, In
<1>. QED BY <1>1, <1>3, <1>5, MessagesEmpty DEF LoopsInv, Mirror, DueIsSent

LEMMA NextLoops == Typed /\ Typed' /\ LoopsInv /\ [Next]_vars => LoopsInv'
BY FramesNext, ConnectedNext, MirrorNext, DueNext DEF LoopsInv

LEMMA AlwaysLoops == Spec => [](Typed /\ LoopsInv)
<1>1. Init => Typed /\ LoopsInv
  BY InitTyped, InitLoops
<1>2. Typed /\ LoopsInv /\ [Next]_vars => (Typed /\ LoopsInv)'
  BY NextTyped, NextLoops
<1>. QED BY <1>1, <1>2, PTL DEF Spec

LEMMA LoopsMirrored == Typed /\ LoopsInv => SubscriptionsMirrored
<1> SUFFICES ASSUME Typed, LoopsInv, torn = {}, up, server.alive, stack = <<>> \/ In("loop") \/ In("callback")
             PROVE  /\ server.subs = {s \in Subscription : Looping(s[1]) /\ subs[s[1]].cb[s[2]] # 0}
                    /\ stack = <<>> => inbox = <<>>
  BY DEF SubscriptionsMirrored
<1>1. Quiet /\ server.subs = {s \in Subscription : wanted[s] # 0}
  BY DEF LoopsInv, Connected, Mirror, Live, Agree
<1>2. \A s \in Subscription : wanted[s] # 0 <=> Looping(s[1]) /\ subs[s[1]].cb[s[2]] # 0
  BY <1>1 DEF Quiet, Agreed, Registered
<1>3. ASSUME stack = <<>>, inbox # <<>> PROVE FALSE
  <2>1. Wanted(item)
    BY <1>1, <1>3, ArrivedTypes DEF Quiet, After
  <2>2. <<KindOf(item), item.name>> \in Subscription /\ wanted[<<KindOf(item), item.name>>] # 0
    BY <2>1, KindIs DEF Wanted, Subscription
  <2>. QED BY <1>2, <1>3, <2>2, NoLoops
<1>. QED BY <1>1, <1>2, <1>3

\* However subscribe(), psubscribe() and their opposites are nested in callbacks, the names in the
\* tables of the loops that run are the subscriptions of the server, and a connection without calls
\* under way has nothing to read (redis_subscribe_response, redis_unsubscribe_response).
THEOREM NoneForgotten == Spec => []SubscriptionsMirrored
<1>. QED BY AlwaysLoops, LoopsMirrored, PTL

LEMMA HandsOver ==
  ASSUME Typed, LoopsInv, DueIsSent', [Next]_vars, torn' = {}
  PROVE  /\ due' = Messages(inbox')
         /\ In("loop") /\ Len(stack') = Len(stack) /\ Last(stack').pc = "callback" =>
              Last(stack').cb = wanted[<<KindOf(item), item.name>>]
<1> SUFFICES ASSUME In("loop"), Len(stack') = Len(stack), Last(stack').pc = "callback"
             PROVE  Last(stack').cb = wanted[<<KindOf(item), item.name>>]
  BY DEF DueIsSent
<1>1. /\ stack # <<>> /\ Top.pc = "loop" /\ stack \in Seq(Frames) /\ stack' # stack /\ Front(stack) # stack'
      /\ \A f : stack' # Append(stack, f)
  <2>1. stack # <<>> /\ Top.pc = "loop" /\ stack \in Seq(Frames)
    BY DEF In, Typed, StackType
  <2>2. stack' # stack
    BY <2>1 DEF Top
  <2>3. Len(Front(stack)) = Len(stack) - 1 /\ Len(stack) \in Nat
    BY <2>1, TopTypes
  <2>. QED BY <2>1, <2>2, <2>3
<1>2. HandOver
  <2>1. ~Application
    BY <1>1 DEF Application, Subscribe, Unsubscribe, Command, Written, CallFails, Close, Connect, CallbackCatches
  <2>2. ~Environment /\ ~UNCHANGED vars
    BY <1>1 DEF Environment, ServerCloses, StopsShort, ReadTimesOut, Publish, Throws, vars, sock
  <2>3. ~ReadAck /\ ~Subscribed /\ ~ReadUnack /\ ~Unsubscribed /\ ~ReadReply /\ ~CallbackReturns
    BY <1>1 DEF ReadAck, Subscribed, ReadUnack, Unsubscribed, ReadReply, CallbackReturns, In
  <2>4. ~LoopEnds /\ ~NoCallback /\ ~Pending /\ ~NotAMessage /\ ~ReadSeesEof
    BY <1>1 DEF LoopEnds, NoCallback, Pending, NotAMessage, ReadSeesEof, Returns, Throws
  <2>. QED BY <2>1, <2>2, <2>3, <2>4 DEF Next, Client
<1>3. /\ torn = {} /\ inbox # <<>> /\ IsMessage(item) /\ KindOf(item) = Top.m /\ Callback # 0
      /\ SetTop([Top EXCEPT !.pc = "callback", !.cb = Callback])
  BY <1>2 DEF HandOver, Reads, Arrived, Mixed, Torn
<1>4. Quiet
  BY <1>3 DEF LoopsInv, Mirror, Live, Agree
<1>5. Wanted(item)
  BY <1>3, <1>4, ArrivedTypes DEF Quiet, After
<1>6. Callback = wanted[<<KindOf(item), item.name>>]
  <2>1. <<Top.m, item.name>> \in Subscription /\ wanted[<<Top.m, item.name>>] # 0
    BY <1>3, <1>5, KindIs DEF Wanted, Subscription
  <2>. QED BY <1>3, <1>4, <2>1 DEF Quiet, Agreed, Registered, Callback
<1>7. Last(stack').cb = Callback
  <2> DEFINE f == [Top EXCEPT !.pc = "callback", !.cb = Callback]
  <2>1. f.cb = Callback
    BY <1>1, TopTypes DEF Frames
  <2>2. Front(stack) \in Seq(Frames) /\ stack' = Front(stack) \o <<f>>
    BY <1>1, <1>3, TopTypes DEF SetTop
  <2> HIDE DEF f
  <2> DEFINE p == Front(stack)
  <2>3. p \in Seq(Frames) /\ stack' = p \o <<f>>
    BY <2>2
  <2> HIDE DEF p
  <2>4. Last(stack') = f
    BY <2>3 DEF Last
  <2>. QED BY <2>1, <2>4
<1>. QED BY <1>6, <1>7

\* Until something has torn the two sides apart, each message is handed over once, in order, and to
\* the callback the application last gave for it (redis_subscribe_response).
THEOREM HandedOverOnce == Spec => Delivered
<1>1. Typed /\ LoopsInv /\ (Typed /\ LoopsInv)' /\ [Next]_vars =>
        [torn' = {} =>
           /\ due' = Messages(inbox')
           /\ In("loop") /\ Len(stack') = Len(stack) /\ Last(stack').pc = "callback" =>
                Last(stack').cb = wanted[<<KindOf(item), item.name>>]]_vars
  BY HandsOver DEF LoopsInv
<1>. QED BY <1>1, AlwaysLoops, PTL DEF Spec, Delivered
=============================================================================
