---------------------------- MODULE MCRedisArray ----------------------------
(* Constants for model checking RedisArray: a host is added to a ring of one.  Two   *)
(* keys move to it, a string and a list; a string stays.                             *)
EXTENDS RedisArray

CONSTANTS c1, c2, n1, n2, k1, k2, k3

HashDef  == k1 :> 1 @@ k2 :> 1 @@ k3 :> 8
TypeDef  == k1 :> "string" @@ k2 :> "list" @@ k3 :> "string"
HostsDef == <<n1, n2>>
PrevDef  == <<n1>>
TtlsDef  == {-1, 1}
FirstDef == k1 :> 1 @@ k2 :> 1 @@ k3 :> -1
InputsDef ==
  {"set", "get"} \X {<<k1>>} \cup {"push", "get", "del"} \X {<<k2>>}
  \cup {"mset", "mget", "del"} \X {<<k1, k3>>}
  \cup {"_rehash", "multi", "exec", "discard"} \X {<<>>}

\* Processes are interchangeable: no action or property names one.
Symmetry == Permutations(Clients)
=============================================================================
