------------------------------- MODULE RBACRules -------------------------------
(***************************************************************************)
(* The rule evaluation of pkg/cache/rbac/allow.go, and the extraction of   *)
(* resource names from a cluster role (pkg/cache/common.go).               *)
(*                                                                         *)
(* A PolicyRule is a record of sets.  The order of a rule's lists, and of  *)
(* the rules of a role, never matters: every loop of allow.go returns TRUE *)
(* at the first match.  A resource is a pair <<resource, subresource>>, so *)
(* "pods" is <<"pods", "">>, "pods/log" is <<"pods", "log">> and the       *)
(* format "*/log" is <<"*", "log">>.                                       *)
(***************************************************************************)

\* VerbAll, APIGroupAll, ResourceAll of k8s.io/api/rbac/v1 are all "*".
Wildcard == "*"

\* The subresource of a request that names none.
NoSubresource == ""

\* for _, ruleVerb := range rule.Verbs
VerbMatches(rule, requestedVerb) ==
  rule.verbs \cap {Wildcard, requestedVerb} # {}

APIGroupMatches(rule, requestedGroup) ==
  rule.apiGroups \cap {Wildcard, requestedGroup} # {}

\* A rule resource matches when it is "*", the requested resource with its
\* subresource, or "*/<subresource>" for a request that has one.
ResourceMatches(rule, resource, subresource) ==
  LET anyOf == IF subresource = NoSubresource THEN {}
               ELSE {<<Wildcard, subresource>>}
  IN  rule.resources \cap
        ({<<Wildcard, NoSubresource>>, <<resource, subresource>>} \cup anyOf) # {}

\* A rule without names is about every name.
ResourceNameMatches(rule, requestedName) ==
  rule.resourceNames = {} \/ requestedName \in rule.resourceNames

\* The resource branch of RuleAllows: both callers in this program set
\* ResourceRequest to true.
RuleAllows(attributes, rule) ==
  /\ VerbMatches(rule, attributes.verb)
  /\ APIGroupMatches(rule, attributes.apiGroup)
  /\ ResourceMatches(rule, attributes.resource, attributes.subresource)
  /\ ResourceNameMatches(rule, attributes.name)

RulesAllow(attributes, rules) == \E rule \in rules : RuleAllows(attributes, rule)

\* The attributes that reviewer.Review asks about: "get" on one named object.
GetRequest(group, resource, name) ==
  [verb |-> "get", apiGroup |-> group, resource |-> resource,
   subresource |-> NoSubresource, name |-> name]

\* The rules of a cluster role that getResoureNamesFromClusterRole looks at.
\* It does not look at the verbs.
RulesAbout(rules, group, resource) ==
  {rule \in rules : /\ APIGroupMatches(rule, group)
                    /\ ResourceMatches(rule, resource, NoSubresource)}

\* names, all := getResoureNamesFromClusterRole(clusterrole, group, resource)
NamesFromClusterRole(rules, group, resource) ==
  UNION {rule.resourceNames : rule \in RulesAbout(rules, group, resource)}

AllFromClusterRole(rules, group, resource) ==
  \E rule \in RulesAbout(rules, group, resource) : rule.resourceNames = {}
=============================================================================
