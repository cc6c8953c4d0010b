------------------------------- MODULE GoMaps -------------------------------
(***************************************************************************)
(* Go maps as functions with a growing and shrinking domain.               *)
(***************************************************************************)

\* The map make(map[K]V) returns.
EmptyMap == [k \in {} |-> k]

\* The map after  m[key] = value.
Put(m, key, value) ==
    [k \in DOMAIN m \cup {key} |-> IF k = key THEN value ELSE m[k]]

\* The map after  delete(m, key);  deleting an absent key changes nothing.
Del(m, key) == [k \in DOMAIN m \ {key} |-> m[k]]

\* m is a map[K]V.
IsMap(m, K, V) == DOMAIN m \subseteq K /\ m \in [DOMAIN m -> V]

=============================================================================
