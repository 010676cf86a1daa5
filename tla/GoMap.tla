------------------------------- MODULE GoMap -------------------------------
(***************************************************************************)
(* The Go maps of the server (map[K]V, server.go:27-30) as functions whose *)
(* domain is the set of keys present.                                      *)
(***************************************************************************)

\* m is a map whose keys lie in K and whose values lie in V.
IsMap(m, K, V) == /\ DOMAIN m \subseteq K
                  /\ m \in [DOMAIN m -> V]

\* The map without entries: make(map[K]V).
Empty == [k \in {} |-> {}]

\* m[k] = v
Put(m, k, v) == [x \in DOMAIN m \union {k} |-> IF x = k THEN v ELSE m[x]]

\* m[k] = v for every k of K.
PutAll(m, K, v) == [x \in DOMAIN m \union K |-> IF x \in K THEN v ELSE m[x]]

\* delete(m, k) for every k of K; deleting an absent key does nothing.
Del(m, K) == [x \in DOMAIN m \ K |-> m[x]]

=============================================================================
