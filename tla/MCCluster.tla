------------------------------ MODULE MCCluster ------------------------------
(* Constants for model checking Cluster: two masters with a slot each, a       *)
(* replica of the first, and a master without slots, which the client has never *)
(* heard of.                                                                    *)
EXTENDS Cluster

CONSTANTS n1, n2, n3, r1, a, b

HomeDef    == a :> n1 @@ b :> n2
ReplicaDef == n1 :> None @@ n2 :> None @@ n3 :> None @@ r1 :> n1
==============================================================================
