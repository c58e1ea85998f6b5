------------------------- MODULE ScopeEvaluationProofs -------------------------
(***************************************************************************)
(* Theorems about the evaluation of scopes, for all scopes and roles.      *)
(***************************************************************************)
EXTENDS ScopeEvaluation, TLAPS

\* Neither namespaces nor the wildcard is among the escalating resources.
LEMMA NamespacesNotEscalating ==
  ASSUME NEW group
  PROVE  /\ <<group, <<"namespaces", "">>>> \notin EscalatingScopeResources
         /\ <<group, <<Wildcard, NoSubresource>>>> \notin EscalatingScopeResources
BY DEF EscalatingScopeResources, Wildcard, NoSubresource

\* Cleaning a rule of escalating resources never changes what it says about
\* namespaces, however coarse it is (scope.go:232-258): it shrinks what a scope
\* may do, not what it shows.
THEOREM RemovalKeepsNamespaces ==
  ASSUME NEW rule \in PolicyRules
  PROVE  RuleAllows(GetNamespaces, RemoveEscalatingResources(rule))
           <=> RuleAllows(GetNamespaces, rule)
<1> DEFINE cleaned == RemoveEscalatingResources(rule)
<1>1. /\ cleaned.verbs = rule.verbs /\ cleaned.apiGroups = rule.apiGroups
      /\ cleaned.resourceNames = rule.resourceNames
  BY DEF RemoveEscalatingResources, PolicyRules
<1>2. cleaned.resources =
        {r \in rule.resources : \A g \in rule.apiGroups : <<g, r>> \notin EscalatingScopeResources}
  BY DEF RemoveEscalatingResources, PolicyRules
<1>3. ResourceMatches(cleaned, "namespaces", NoSubresource)
        <=> ResourceMatches(rule, "namespaces", NoSubresource)
  BY <1>2, NamespacesNotEscalating DEF ResourceMatches, NoSubresource
<1> HIDE DEF cleaned
<1> QED
  BY <1>1, <1>3
  DEF cleaned, RuleAllows, GetNamespaces, GetRequest, VerbMatches, APIGroupMatches, ResourceNameMatches

\* What GetNamespaces asks of a rule is that it gives namespaces.
LEMMA AllowsIsGives ==
  ASSUME NEW rule \in PolicyRules
  PROVE  RuleAllows(GetNamespaces, rule) <=> GivesNamespaces(rule)
<1>1. {"get", Wildcard} = {Wildcard, "get"} /\ {"", Wildcard} = {Wildcard, ""}
  OBVIOUS
<1>2. ResourceMatches(rule, "namespaces", NoSubresource)
        <=> {<<"namespaces", "">>, <<Wildcard, "">>} \cap rule.resources # {}
  BY DEF ResourceMatches, NoSubresource
<1>3. ResourceNameMatches(rule, "") <=> rule.resourceNames = {}
  BY DEF ResourceNameMatches, PolicyRules
<1> QED
  BY <1>1, <1>2, <1>3
  DEF RuleAllows, GetNamespaces, GetRequest, GivesNamespaces, VerbMatches, APIGroupMatches

\* A rule without its escalating resources is still a rule.
LEMMA CleanedIsRule ==
  ASSUME NEW rule \in PolicyRules
  PROVE  RemoveEscalatingResources(rule) \in PolicyRules
BY DEF RemoveEscalatingResources, PolicyRules

\* A rule that is looked at without being cleaned away names what it gives.
LEMMA BoundedGivesIsNames ==
  ASSUME NEW rule
  PROVE  ~Unbounded(rule) /\ GivesNamespaces(rule) <=> NamesNamespaces(rule)
BY DEF Unbounded, NamesNamespaces, NoSubresource

ListedRoles(clusterRoles) == \A role \in DOMAIN clusterRoles : clusterRoles[role] \subseteq PolicyRules

\* A role scope resolves to its namespace exactly when its role shows it.
LEMMA RoleScopeShows ==
  ASSUME NEW clusterRoles, ListedRoles(clusterRoles), NEW scope, scope.kind = "role", NEW n
  PROVE  n \in GettableByRoleScope(scope, clusterRoles) <=> Shows(scope, n, clusterRoles)
<1> DEFINE rules == RulesOfRole(scope.role, clusterRoles)
<1>1. rules \subseteq PolicyRules
  BY DEF ListedRoles, RulesOfRole
<1>2. RulesAllow(GetNamespaces, ResolveRules(scope, clusterRoles)) <=>
        \E rule \in rules : IF scope.escalating THEN GivesNamespaces(rule) ELSE NamesNamespaces(rule)
  <2>1. CASE scope.escalating
    BY <2>1, <1>1, AllowsIsGives DEF RulesAllow, ResolveRules
  <2>2. CASE ~scope.escalating
    <3>1. RulesAllow(GetNamespaces, ResolveRules(scope, clusterRoles)) <=>
            \E rule \in rules : ~Unbounded(rule) /\ RuleAllows(GetNamespaces, RemoveEscalatingResources(rule))
      BY <2>2 DEF RulesAllow, ResolveRules
    <3>2. \A rule \in rules :
            RuleAllows(GetNamespaces, RemoveEscalatingResources(rule)) <=> GivesNamespaces(rule)
      BY <1>1, AllowsIsGives, RemovalKeepsNamespaces
    <3> QED
      BY <2>2, <3>1, <3>2, BoundedGivesIsNames
  <2> QED
    BY <2>1, <2>2
<1>3. \A rule \in rules : scope.role \in DOMAIN clusterRoles /\ rules = clusterRoles[scope.role]
  BY DEF RulesOfRole
<1>4. scope.role \in DOMAIN clusterRoles => rules = clusterRoles[scope.role]
  BY DEF RulesOfRole
<1> HIDE DEF rules
<1> QED
  BY <1>2, <1>3, <1>4 DEF GettableByRoleScope, Shows

\* ScopesToVisibleNamespaces computes what the scopes are meant to show: with no
\* scopes all, else exactly the names that one of them shows (scope.go:33-66,
\* 115-122, 154-211), where rules with wildcards count for escalating scopes only.
THEOREM EvaluationIsWhatScopesShow ==
  ASSUME NEW clusterRoles, ListedRoles(clusterRoles), NEW scopes, NEW n
  PROVE  n \in ScopesToVisibleNamespaces(scopes, clusterRoles) <=>
           \/ scopes = {} /\ n = AllNamespaces
           \/ \E scope \in scopes : Shows(scope, n, clusterRoles)
<1>1. ASSUME NEW scope
      PROVE  n \in ResolveGettableNamespaces(scope, clusterRoles) <=> Shows(scope, n, clusterRoles)
  <2>1. CASE scope.kind = "user"
    BY <2>1 DEF ResolveGettableNamespaces, GettableByUserScope, Shows
  <2>2. CASE scope.kind = "role"
    BY <2>2, RoleScopeShows DEF ResolveGettableNamespaces
  <2>3. CASE scope.kind \notin {"user", "role"}
    BY <2>3 DEF ResolveGettableNamespaces, Shows
  <2> QED
    BY <2>1, <2>2, <2>3
<1> QED
  BY <1>1 DEF ScopesToVisibleNamespaces

\* Among users with scopes, more scopes and more rules never show less
\* (scope.go:40-66): a watch is never narrowed by what its token allows besides.
THEOREM MoreScopesShowMore ==
  ASSUME NEW before, ListedRoles(before), NEW after, ListedRoles(after),
         \A role : RulesOfRole(role, before) \subseteq RulesOfRole(role, after),
         NEW more, NEW scopes \in SUBSET more, scopes # {}
  PROVE  ScopesToVisibleNamespaces(scopes, before) \subseteq ScopesToVisibleNamespaces(more, after)
<1>1. ASSUME NEW scope, NEW n, Shows(scope, n, before)
      PROVE  Shows(scope, n, after)
  <2>1. ASSUME NEW rule \in before[scope.role], scope.role \in DOMAIN before
        PROVE  scope.role \in DOMAIN after /\ rule \in after[scope.role]
    BY <2>1 DEF RulesOfRole
  <2> QED
    BY <1>1, <2>1 DEF Shows
<1> QED
  BY <1>1, EvaluationIsWhatScopesShow
=============================================================================
