-------------------------------- MODULE Maps --------------------------------
(***************************************************************************)
(* Hash maps as functions whose domain is the set of keys present.         *)
(***************************************************************************)

\* f is a map with keys in K and values in V.
IsMap(f, K, V) == DOMAIN f \subseteq K /\ f \in [DOMAIN f -> V]

EmptyMap == [k \in {} |-> k]

\* HashMap::insert: adds the key, or replaces the value it had.
Insert(f, k, v) == [x \in DOMAIN f \cup {k} |-> IF x = k THEN v ELSE f[x]]

\* HashMap::remove: a key that is not there is no error.
Remove(f, k) == [x \in DOMAIN f \ {k} |-> f[x]]
=============================================================================
