---------------------------- MODULE MCCacheReaders ----------------------------
(***************************************************************************)
(* Small instances of CacheReaders for TLC.                                *)
(***************************************************************************)
EXTENDS CacheReaders, TLC

GetRule(names) ==
  [verbs |-> {"get", "watch"}, apiGroups |-> {"cluster"},
   resources |-> {<<"managedclusters", "">>}, resourceNames |-> names]

\* A role may grant every cluster, or be about them and grant nothing.
MCRoleContents == {{GetRule({})}, {[GetRule({}) EXCEPT !.verbs = {"list"}]}}
OneRole == {{GetRule({})}}

OneCluster == {"c1"}
MCUsers == {"root", "u1"}
MCGroups == {"masters", "g1"}
MCCallerGroups == {"g1"}

\* Bindings give access to the caller, or to its group.
MCSubjectSets == {[users |-> {"u1"}, groups |-> {}], [users |-> {}, groups |-> {"g1"}]}

BindingSymmetry == Permutations(Bindings)
=============================================================================
