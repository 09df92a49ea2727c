----------------------------- MODULE PythonData -----------------------------
(***************************************************************************)
(* Python dictionaries, as functions whose domain changes, and tuples of   *)
(* numbers in their order, which is that SNMP walks object identifiers in. *)
(***************************************************************************)
EXTENDS Integers, Sequences

EmptyMap == [x \in {} |-> x]

\* d[k] = v
Put(d, k, v) == [x \in DOMAIN d \cup {k} |-> IF x = k THEN v ELSE d[x]]

\* del d[k] for every k in K
Without(d, K) == [x \in DOMAIN d \ K |-> d[x]]

\* d is a dictionary with keys in K and values in V.
IsMap(d, K, V) == d \in [DOMAIN d -> V] /\ DOMAIN d \subseteq K

----------------------------------------------------------------------------
\* The order of tuples, and of octet strings: a prefix comes before what it begins.
Precedes(a, b) ==
    \/ Len(a) < Len(b) /\ \A i \in DOMAIN a : a[i] = b[i]
    \/ \E i \in DOMAIN a \cap DOMAIN b : a[i] < b[i] /\ \A j \in 1 .. i - 1 : a[j] = b[j]

\* The least and the greatest of a nonempty finite set.
Least(S) == CHOOSE x \in S : \A y \in S \ {x} : Precedes(x, y)
Greatest(S) == CHOOSE x \in S : \A y \in S \ {x} : Precedes(y, x)

Following(S, x) == {y \in S : Precedes(x, y)}
Longest(S) == CHOOSE x \in S : \A y \in S : Len(y) <= Len(x)

Upto(n, S) == UNION {[1 .. k -> S] : k \in 0 .. n}
=============================================================================
