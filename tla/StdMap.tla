------------------------------- MODULE StdMap -------------------------------
(***************************************************************************)
(* The std::map and std::unordered_map operations the proxy's data         *)
(* structures are built from.  A map is a function whose DOMAIN is the set *)
(* of keys that have an entry.                                             *)
(***************************************************************************)

\* A map with no entry.
EmptyMap == [x \in {} |-> x]

\* m[k] = v: inserts the entry or overwrites it.
Assign(m, k, v) == [x \in DOMAIN m \cup {k} |-> IF x = k THEN v ELSE m[x]]

\* m.erase(k): no effect when there is no such entry.
Erase(m, k) == [x \in DOMAIN m \ {k} |-> m[x]]

\* The value an rvalue use of m[k] reads: operator[] makes an entry holding
\* the value-initialised default when there is none.
At(m, k, default) == IF k \in DOMAIN m THEN m[k] ELSE default

\* The map obtained by making every entry of n in m, as MSET does.
Merge(m, n) ==
  [x \in DOMAIN m \cup DOMAIN n |-> IF x \in DOMAIN n THEN n[x] ELSE m[x]]

\* The map without its entries for the keys in S.
EraseAll(m, S) == [x \in DOMAIN m \ S |-> m[x]]

\* m is a map from some keys in K to values in V.
IsMap(m, K, V) == m \in [DOMAIN m -> V] /\ DOMAIN m \subseteq K
=============================================================================
