---------------------------- MODULE MCWatchServer ----------------------------
(***************************************************************************)
(* Small instances of WatchServer for TLC.                                 *)
(***************************************************************************)
EXTENDS WatchServer

MCUsers == {"root", "u1"}
MCGroups == {"masters", "g1"}
OneName == {"c1"}
TwoNames == {"c1", "c2"}

\* Nobody but the masters, u1 by name, and u1 by its group.
ByName == [users |-> {"root", "u1"}, groups |-> {"masters"}]
ByGroup == [users |-> {"root"}, groups |-> {"masters", "g1"}]
MastersOnly == [users |-> {"root"}, groups |-> {"masters"}]
ThreeAnswers == {ByName, ByGroup, MastersOnly}
TwoAnswers == {ByGroup, MastersOnly}

\* Watchers of the user u1, in group g1, that asks for the existing resources
\* (e1, e2) or has listed them (l1); their tokens have scopes for the names, or none.
MCUserOf == [w \in Watchers |-> "u1"]
MCGroupsOf == [w \in Watchers |-> {"g1"}]
MCIncludeExisting == [w \in Watchers |-> w \in {"e1", "e2"}]
NamedScopes == [w \in Watchers |-> {RoleScope("viewer", n, FALSE) : n \in Names}]
NoScopes == [w \in Watchers |-> {}]

\* A role that shows namespaces to the scopes that refer to it.
ViewerRole ==
  [role \in {"viewer"} |->
     {[verbs |-> {"get"}, apiGroups |-> {""}, resources |-> {<<"namespaces", "">>},
       resourceNames |-> {}]}]

E1 == {"e1"}
L1 == {"l1"}
E1L1 == {"e1", "l1"}
=============================================================================
