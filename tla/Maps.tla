-------------------------------- MODULE Maps --------------------------------
(***************************************************************************)
(* Finite maps as functions: the HashMaps of the session manager, of the   *)
(* server registry and of the crypto provider.                             *)
(***************************************************************************)

EmptyMap == [k \in {} |-> k]

\* HashMap::insert
Put(m, k, v) == [x \in DOMAIN m \cup {k} |-> IF x = k THEN v ELSE m[x]]

\* HashMap::remove of every key in K
Without(m, K) == [x \in DOMAIN m \ K |-> m[x]]

\* m maps some of the keys in K to values in V
IsMap(m, K, V) == DOMAIN m \subseteq K /\ m \in [DOMAIN m -> V]
=============================================================================
