----------------------------- MODULE MCAuthCache -----------------------------
(***************************************************************************)
(* Small instances of AuthCache for TLC.                                   *)
(***************************************************************************)
EXTENDS AuthCache, TLC

GetRule(names) ==
  [verbs |-> {"get", "watch"}, apiGroups |-> {"cluster"},
   resources |-> {<<"managedclusters", "">>}, resourceNames |-> names]

\* A role that grants every cluster, one that grants c1 only, and one that is
\* about every cluster but does not grant "get".
AllNames == {GetRule({})}
OneName == {GetRule({"c1"})}
ListOnly == {[GetRule({}) EXCEPT !.verbs = {"list"}]}

MCNames == {"c1", "c2"}
MCUsers == {"root", "u1"}
MCGroups == {"masters", "g1"}
MCRoleContents == {AllNames, OneName}
MCLiveRoleContents == {AllNames, OneName, ListOnly}
MCSubjectSets == {[users |-> {"u1"}, groups |-> {"g1"}], [users |-> {}, groups |-> {"g1"}]}

OneCluster == {"c1"}
OneSubjectSet == {[users |-> {"u1"}, groups |-> {"g1"}]}

\* Bindings are interchangeable: no rule looks at a UID.
BindingSymmetry == Permutations(Bindings)
=============================================================================
