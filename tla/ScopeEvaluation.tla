---------------------------- MODULE ScopeEvaluation ----------------------------
(***************************************************************************)
(* Scopes of a user's token, pkg/apis/helpers/scope.go: which names a      *)
(* watch request may be told of.                                           *)
(*                                                                         *)
(* A scope string is what the evaluators make of it: a record of kind      *)
(*   "user"      user:<ask>, one of the five that UserEvaluator handles;   *)
(*   "role"      role:<role>:<namespace>, with ":!" if it is escalating;   *)
(*   "malformed" another string that starts with role:                     *)
(*   "other"     a string that no evaluator handles.                       *)
(* The order of the scopes never matters: their names are united.          *)
(***************************************************************************)
EXTENDS RBACRules

AllNamespaces == "*"

\* No object has the empty name.
PolicyRules ==
  [verbs : SUBSET STRING, apiGroups : SUBSET STRING,
   resources : SUBSET (STRING \X STRING), resourceNames : SUBSET (STRING \ {""})]

UserScope(ask) == [kind |-> "user", ask |-> ask]

RoleScope(role, namespace, escalating) ==
  [kind |-> "role", role |-> role, namespace |-> namespace, escalating |-> escalating]

-----------------------------------------------------------------------------
\* Group and resource, of group "" and of the group that has it now.
EscalatingScopeResources ==
  {<<"", <<"secrets", "">>>>, <<"image.openshift.io", <<"imagestreams", "secrets">>>>,
   <<"network.openshift.io", <<"service", "externalips">>>>}
  \cup {"", "oauth.openshift.io"}
         \X {<<"oauthauthorizetokens", "">>, <<"oauthaccesstokens", "">>}
  \cup {"", "authorization.openshift.io"}
         \X {<<"roles", "">>, <<"rolebindings", "">>, <<"clusterroles", "">>,
             <<"clusterrolebindings", "">>}
  \cup {<<"", <<"imagestreams", "secrets">>>>}

\* Group and resource are looked up in the rule as it came in.
RemoveEscalatingResources(rule) ==
  [rule EXCEPT !.resources =
     {resource \in @ : \A group \in rule.apiGroups : <<group, resource>> \notin EscalatingScopeResources}]

\* "rules with unbounded access shouldn't be allowed in scopes"
Unbounded(rule) ==
  \/ Wildcard \in rule.verbs
  \/ <<Wildcard, NoSubresource>> \in rule.resources
  \/ Wildcard \in rule.apiGroups

\* The lister's rules of a role; a role that is not found has none.
RulesOfRole(role, clusterRoles) ==
  IF role \in DOMAIN clusterRoles THEN clusterRoles[role] ELSE {}

ResolveRules(scope, clusterRoles) ==
  LET rules == RulesOfRole(scope.role, clusterRoles)
  IN  IF scope.escalating THEN rules
      ELSE {RemoveEscalatingResources(rule) : rule \in {r \in rules : ~Unbounded(r)}}

\* attributes: get on the resource namespaces of the core group, without a name.
GetNamespaces == GetRequest("", "namespaces", "")

GettableByUserScope(scope) ==
  IF scope.ask \in {"full", "list-projects"} THEN {AllNamespaces} ELSE {}

GettableByRoleScope(scope, clusterRoles) ==
  IF RulesAllow(GetNamespaces, ResolveRules(scope, clusterRoles)) THEN {scope.namespace} ELSE {}

ResolveGettableNamespaces(scope, clusterRoles) ==
  CASE scope.kind = "user" -> GettableByUserScope(scope)
    [] scope.kind = "role" -> GettableByRoleScope(scope, clusterRoles)
    [] OTHER -> {}

\* "returns a list of namespaces that the provided scopes have get access to";
\* no scopes means all.
ScopesToVisibleNamespaces(scopes, clusterRoles) ==
  IF scopes = {} THEN {AllNamespaces}
  ELSE UNION {ResolveGettableNamespaces(scope, clusterRoles) : scope \in scopes}

\* The scopes that make ScopesToVisibleNamespaces return an error besides.
FailingScopes(scopes, ignoreUnhandledScopes) ==
  {scope \in scopes : \/ scope.kind = "malformed"
                      \/ scope.kind = "other" /\ ~ignoreUnhandledScopes}

-----------------------------------------------------------------------------
(***************************************************************************)
(* What a scope is meant to show, said without its evaluation.             *)
(***************************************************************************)
\* A rule that lets its holder get namespaces of any name.
GivesNamespaces(rule) ==
  /\ rule.resourceNames = {}
  /\ {"get", Wildcard} \cap rule.verbs # {}
  /\ {"", Wildcard} \cap rule.apiGroups # {}
  /\ {<<"namespaces", "">>, <<Wildcard, "">>} \cap rule.resources # {}

\* One that says so in so many words, with no wildcard in it.
NamesNamespaces(rule) ==
  GivesNamespaces(rule) /\ Wildcard \notin rule.verbs \cup rule.apiGroups
                        /\ <<Wildcard, "">> \notin rule.resources

Shows(scope, n, clusterRoles) ==
  \/ /\ scope.kind = "user" /\ scope.ask \in {"full", "list-projects"}
     /\ n = AllNamespaces
  \/ /\ scope.kind = "role" /\ scope.role \in DOMAIN clusterRoles /\ n = scope.namespace
     /\ \E rule \in clusterRoles[scope.role] :
          IF scope.escalating THEN GivesNamespaces(rule) ELSE NamesNamespaces(rule)
=============================================================================
