---------------------------- MODULE MCWatchedCache ----------------------------
(***************************************************************************)
(* Small instances of WatchedCache for TLC.                                *)
(***************************************************************************)
EXTENDS WatchedCache

GetRule(names) ==
  [verbs |-> {"get", "watch"}, apiGroups |-> {"cluster"},
   resources |-> {<<"managedclusters", "">>}, resourceNames |-> names]

\* A role that names c1, and shows namespaces to the scopes that refer to it.
Viewer ==
  [verbs |-> {"get"}, apiGroups |-> {""}, resources |-> {<<"namespaces", "">>},
   resourceNames |-> {}]
OneRole == {{GetRule({"c1"}), Viewer}}

OneCluster == {"c1"}
MCUsers == {"root", "u1"}
MCGroups == {"masters", "g1"}
MCSubjectSets == {[users |-> {"u1"}, groups |-> {}], [users |-> {}, groups |-> {}]}
OneSubjectSet == {[users |-> {}, groups |-> {"g1"}]}

\* A watcher of the user u1 in group g1: l1 has listed the clusters before, e1
\* asks for the existing ones.
L1 == {"l1"}
E1 == {"e1"}
MCUserOf == [w \in Watchers |-> "u1"]
MCGroupsOf == [w \in Watchers |-> {"g1"}]
MCIncludeExisting == [w \in Watchers |-> w = "e1"]
NamedScopes == [w \in Watchers |-> {RoleScope("r1", "c1", FALSE)}]
=============================================================================
