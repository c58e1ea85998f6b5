--------------------------- MODULE PartialMapsProofs ---------------------------
(***************************************************************************)
(* Types of maps and of what is assigned to them and deleted from them.    *)
(***************************************************************************)
EXTENDS PartialMaps, TLAPS

\* m[x] = v on a map from S to T.
LEMMA AssignIsMap ==
  ASSUME NEW S, NEW T, NEW f, IsMap(f, S, T), NEW x \in S, NEW v \in T
  PROVE  IsMap(Assign(f, x, v), S, T)
BY DEF IsMap, Assign

\* delete(m, x) on a map from S to T.
LEMMA WithoutIsMap ==
  ASSUME NEW S, NEW T, NEW f, IsMap(f, S, T), NEW x
  PROVE  IsMap(Without(f, x), S, T)
BY DEF IsMap, Without, Restrict

\* The map without entries.
LEMMA EmptyIsMap ==
  ASSUME NEW S, NEW T
  PROVE  IsMap(EmptyMap, S, T) /\ DOMAIN EmptyMap = {}
BY DEF IsMap, EmptyMap
=============================================================================
