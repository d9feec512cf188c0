------------------------------- MODULE GoMap -------------------------------
(***************************************************************************)
(* Go's nil, and the two updates of a Go map that the backend's in-memory  *)
(* stores use.  A map is a function whose domain is the set of keys        *)
(* present.                                                                *)
(***************************************************************************)
CONSTANT Nil

\* m is a map with keys in K and values in V.
IsMapOf(m, K, V) == DOMAIN m \subseteq K /\ m \in [DOMAIN m -> V]

EmptyMap == [k \in {} |-> k]

\* m[k] = v
Put(m, k, v) == [x \in DOMAIN m \cup {k} |-> IF x = k THEN v ELSE m[x]]

\* delete(m, k) for every k in K; deleting an absent key does nothing.
Delete(m, K) == [x \in DOMAIN m \ K |-> m[x]]
=============================================================================
