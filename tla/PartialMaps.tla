----------------------------- MODULE PartialMaps -----------------------------
(***************************************************************************)
(* Go maps and cache.Stores: functions on the keys they hold.              *)
(***************************************************************************)
EXTENDS Functions

EmptyMap == [x \in {} |-> {}]

\* m[x] = v
Assign(f, x, v) == [y \in DOMAIN f \cup {x} |-> IF y = x THEN v ELSE f[y]]

\* delete(m, x)
Without(f, x) == Restrict(f, DOMAIN f \ {x})

\* f maps keys in S to values in T.
IsMap(f, S, T) == DOMAIN f \subseteq S /\ f \in [DOMAIN f -> T]
=============================================================================
