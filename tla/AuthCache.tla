------------------------------- MODULE AuthCache -------------------------------
(***************************************************************************)
(* The authorization cache of pkg/cache/common.go, for one resource type.  *)
(*                                                                         *)
(* One goroutine repeats synchronize() for ever.  It reads three informer  *)
(* stores (the listed resources, the cluster roles and the cluster role    *)
(* bindings), which change under it at any moment, reviews who may "get"   *)
(* each resource, and keeps three stores: a review record per resource and *)
(* an inverted index of resource names per user and per group.  Request    *)
(* handlers read the two indexes at any moment.                            *)
(*                                                                         *)
(* Every read of an informer store and every pass over an index is a step  *)
(* of its own; what a step leaves half done is visible to the others.      *)
(***************************************************************************)
EXTENDS Integers, PartialMaps, RBACRules

CONSTANTS
  Names,        \* names that resources of the cached type may have
  Users,        \* user names that bindings may mention
  Groups,       \* group names that bindings may mention
  Roles,        \* names of cluster roles
  Bindings,     \* cluster role bindings (UIDs)
  SuperUser,    \* the user that AllowedSubjects always returns
  MastersGroup, \* user.SystemPrivilegedGroup, always returned as well
  APIGroup,     \* ac.group
  Resource,     \* ac.resource
  RoleContents, \* rule sets that a cluster role may have
  SubjectSets,  \* subjects, as [users, groups], that a binding may have
  MaxVersion,   \* bound on the resource versions that the API server gives
  None          \* nil

ASSUME AuthCacheAssumption ==
  /\ SuperUser \in Users
  /\ MastersGroup \in Groups
  /\ MaxVersion \in Nat
  /\ \A rules \in RoleContents : NamesFromClusterRole(rules, APIGroup, Resource) \subseteq Names
  /\ \A s \in SubjectSets : s.users \subseteq Users /\ s.groups \subseteq Groups
  /\ None \notin [name : Names, users : SUBSET Users, groups : SUBSET Groups]

VARIABLES
  \* the informer stores
  clusters,   \* name -> resource version of the listed resources
  roles,      \* role name -> [version, rules]
  bindings,   \* binding UID -> [version, role, users, groups]
  clock,      \* the last resource version given
  \* the stores of the cache
  reviewRecordStore,       \* name -> review record
  userSubjectRecordStore,  \* user -> names
  groupSubjectRecordStore, \* group -> names
  allKnownNames,
  \* local state of synchronize()
  phase,         \* the loop it is in
  step,          \* where in syncRequest (or in a purge) it is
  newKnownNames,
  roleBindings,  \* bindings listed and not yet looked at
  requests,      \* review requests not yet looked at
  request,       \* the request in hand, or None
  review,        \* its review: [users, groups, unread bindings], or None
  gone           \* deleted names the watchers are still to be told of

informers == <<clusters, roles, bindings, clock>>
stores == <<reviewRecordStore, userSubjectRecordStore, groupSubjectRecordStore>>
locals == <<newKnownNames, roleBindings, requests, request, review, gone>>
vars == <<informers, stores, allKnownNames, phase, step, locals>>

-----------------------------------------------------------------------------
(***************************************************************************)
(* The informer stores.  The API server gives every write of an object a   *)
(* fresh resource version; a binding or role that is deleted and created   *)
(* again has a new UID and a new version, of which the version is enough   *)
(* for the comparisons that skipReview makes.                              *)
(***************************************************************************)
CanWrite == clock < MaxVersion

PutCluster(n) ==
  /\ CanWrite
  /\ clock' = clock + 1
  /\ clusters' = Assign(clusters, n, clock + 1)
  /\ UNCHANGED <<roles, bindings>>

RemoveCluster(n) ==
  /\ n \in DOMAIN clusters
  /\ clusters' = Without(clusters, n)
  /\ UNCHANGED <<roles, bindings, clock>>

PutRole(r, rules) ==
  /\ CanWrite
  /\ clock' = clock + 1
  /\ roles' = Assign(roles, r, [version |-> clock + 1, rules |-> rules])
  /\ UNCHANGED <<clusters, bindings>>

RemoveRole(r) ==
  /\ r \in DOMAIN roles
  /\ roles' = Without(roles, r)
  /\ UNCHANGED <<clusters, bindings, clock>>

\* The role reference of an existing binding is immutable.
PutBinding(b, r, subjects) ==
  /\ CanWrite
  /\ b \in DOMAIN bindings => bindings[b].role = r
  /\ clock' = clock + 1
  /\ bindings' = Assign(bindings, b, [version |-> clock + 1, role |-> r,
                                      users |-> subjects.users, groups |-> subjects.groups])
  /\ UNCHANGED <<clusters, roles>>

RemoveBinding(b) ==
  /\ b \in DOMAIN bindings
  /\ bindings' = Without(bindings, b)
  /\ UNCHANGED <<clusters, roles, clock>>

InformerEvent ==
  /\ \/ \E n \in Names : PutCluster(n) \/ RemoveCluster(n)
     \/ \E r \in Roles : RemoveRole(r) \/ \E rules \in RoleContents : PutRole(r, rules)
     \/ \E b \in Bindings : \/ RemoveBinding(b)
                            \/ \E r \in Roles, s \in SubjectSets : PutBinding(b, r, s)
  /\ UNCHANGED <<stores, allKnownNames, phase, step, locals>>

-----------------------------------------------------------------------------
(***************************************************************************)
(* Subject records.  A store maps a subject to the names it may get.       *)
(***************************************************************************)
NamesOf(store, subject) == IF subject \in DOMAIN store THEN store[subject] ELSE {}

\* deleteResourceFromSubjects: a record that becomes empty is deleted too.
DeleteResourceFromSubjects(store, subjects, name) ==
  LET left(s) == IF s \in subjects THEN store[s] \ {name} ELSE store[s]
  IN  [s \in {t \in DOMAIN store : t \in subjects => left(t) # {}} |-> left(s)]

\* addSubjectsToNamespace
AddSubjectsToNamespace(store, subjects, name) ==
  [s \in DOMAIN store \cup subjects |->
     IF s \in subjects THEN NamesOf(store, s) \cup {name} ELSE store[s]]

(***************************************************************************)
(* Review requests and review records.  Version 0 stands for the empty     *)
(* string and for a key that the UID-to-version map does not have.         *)
(***************************************************************************)
Unversioned(keys) == [k \in keys |-> 0]
Versioned(keys, key, version) == [Unversioned(keys) EXCEPT ![key] = version]

Request(n, version, roleVersions, bindingVersions) ==
  [name |-> n, resourceVersion |-> version,
   roleVersions |-> roleVersions, bindingVersions |-> bindingVersions]

\* ListResources: one request per listed resource.
ListResources ==
  {Request(n, clusters[n], Unversioned(Roles), Unversioned(Bindings)) : n \in DOMAIN clusters}

LastKnown(n) == IF n \in DOMAIN reviewRecordStore THEN reviewRecordStore[n] ELSE None

SameVersions(asked, seen) ==
  \A k \in DOMAIN asked : asked[k] # 0 => seen[k] = asked[k]

\* Mutant of SkipReview: a newer role is not noticed.
SkipReviewIgnoringRoles(req, last) ==
  /\ last # None
  /\ req.resourceVersion # 0 => req.resourceVersion = last.resourceVersion
  /\ SameVersions(req.bindingVersions, last.bindingVersions)

SkipReview(req, last) ==
  /\ last # None
  /\ req.resourceVersion # 0 => req.resourceVersion = last.resourceVersion
  /\ SameVersions(req.bindingVersions, last.bindingVersions)
  /\ SameVersions(req.roleVersions, last.roleVersions)

\* for k, v := range asked { known[k] = v }
Updated(known, asked) == [k \in DOMAIN known |-> IF asked[k] # 0 THEN asked[k] ELSE known[k]]

Known(last) ==
  IF last # None THEN last
  ELSE [resourceVersion |-> 0,
        roleVersions |-> Unversioned(Roles), bindingVersions |-> Unversioned(Bindings)]

\* Mutant of ReviewRecord: role versions looked up when the record is made, not
\* those the request was made with.
ReviewRecordWithVersionsOfNow(req, last, users, groups) ==
  [resourceVersion |-> IF req.resourceVersion # 0 THEN req.resourceVersion
                       ELSE Known(last).resourceVersion,
   roleVersions    |-> [r \in Roles |-> IF r \in DOMAIN roles /\ req.roleVersions[r] # 0
                                        THEN roles[r].version ELSE Known(last).roleVersions[r]],
   bindingVersions |-> Updated(Known(last).bindingVersions, req.bindingVersions),
   users           |-> users,
   groups          |-> groups]

\* cacheReviewRecord: what was known by default, what drove this request on top.
ReviewRecord(req, last, users, groups) ==
  [resourceVersion |-> IF req.resourceVersion # 0 THEN req.resourceVersion
                       ELSE Known(last).resourceVersion,
   roleVersions    |-> Updated(Known(last).roleVersions, req.roleVersions),
   bindingVersions |-> Updated(Known(last).bindingVersions, req.bindingVersions),
   users           |-> users,
   groups          |-> groups]

-----------------------------------------------------------------------------
(***************************************************************************)
(* synchronize(): syncResources, then synchronizeClusterRoleBindings, then *)
(* purgeDeletedResources.  The skip token computed first changes nothing:  *)
(* the return that would use it is commented out.                          *)
(***************************************************************************)
Between == step = "next"

\* Mutant of StartSync: the names of the last cycle are kept.
StartSyncKeepingNames ==
  /\ phase = "idle"
  /\ phase' = "resources"
  /\ requests' = ListResources
  /\ newKnownNames' = allKnownNames \cup {req.name : req \in ListResources}
  /\ UNCHANGED <<informers, stores, allKnownNames, step, roleBindings, request, review, gone>>

\* syncResources: one List of the resources gives the requests and the names.
StartSync ==
  /\ phase = "idle"
  /\ phase' = "resources"
  /\ requests' = ListResources
  /\ newKnownNames' = {req.name : req \in ListResources}
  /\ UNCHANGED <<informers, stores, allKnownNames, step, roleBindings, request, review, gone>>

\* clusterrolebindingLister.List(labels.Everything()): the bindings as they are.
ListBindings ==
  {[uid |-> b, version |-> bindings[b].version, role |-> bindings[b].role,
    users |-> bindings[b].users, groups |-> bindings[b].groups] : b \in DOMAIN bindings}

\* synchronizeClusterRoleBindings: one List of the bindings.
ListRoleBindings ==
  /\ phase = "resources" /\ Between /\ requests = {}
  /\ phase' = "bindings"
  /\ roleBindings' = ListBindings
  /\ UNCHANGED <<informers, stores, allKnownNames, step, newKnownNames, requests, request,
                 review, gone>>

\* The names a role is about; all of them are those of the previous cycle.
NamesFromRole(r) ==
  IF AllFromClusterRole(roles[r].rules, APIGroup, Resource) THEN allKnownNames
  ELSE NamesFromClusterRole(roles[r].rules, APIGroup, Resource)

\* One turn of the loop over the bindings: read the role, if it is there.
ReadRoleBinding(b) ==
  /\ phase = "bindings" /\ Between /\ requests = {} /\ b \in roleBindings
  /\ roleBindings' = roleBindings \ {b}
  /\ requests' = IF b.role \notin DOMAIN roles THEN {}
                 ELSE {Request(n, 0, Versioned(Roles, b.role, roles[b.role].version),
                                  Versioned(Bindings, b.uid, b.version)) :
                         n \in NamesFromRole(b.role)}
  /\ UNCHANGED <<informers, stores, allKnownNames, phase, step, newKnownNames, request,
                 review, gone>>

-----------------------------------------------------------------------------
(***************************************************************************)
(* syncRequest, for the requests of either loop.                           *)
(***************************************************************************)
SkipRequest(req) ==
  /\ phase \in {"resources", "bindings"} /\ Between /\ req \in requests
  /\ SkipReview(req, LastKnown(req.name))
  /\ requests' = requests \ {req}
  /\ UNCHANGED <<informers, stores, allKnownNames, phase, step, newKnownNames, roleBindings,
                 request, review, gone>>

\* reviewer.Review and AllowedSubjects, up to the List of the bindings.
StartReview(req) ==
  /\ phase \in {"resources", "bindings"} /\ Between /\ req \in requests
  /\ ~SkipReview(req, LastKnown(req.name))
  /\ requests' = requests \ {req}
  /\ request' = req
  /\ review' = [users |-> {SuperUser}, groups |-> {MastersGroup}, unread |-> ListBindings]
  /\ step' = "review"
  /\ UNCHANGED <<informers, stores, allKnownNames, phase, newKnownNames, roleBindings, gone>>

\* getRulesFromRoleRef; a missing role is an evaluation error and gives no rules.
RulesFromRoleRef(r) == IF r \in DOMAIN roles THEN roles[r].rules ELSE {}

\* One turn of AllowedSubjects' loop: the role is read now, the binding was before.
EvaluateBinding(b) ==
  /\ step = "review" /\ b \in review.unread
  /\ LET allowed == RulesAllow(GetRequest(APIGroup, Resource, request.name),
                               RulesFromRoleRef(b.role))
     IN  review' = [users  |-> review.users \cup (IF allowed THEN b.users ELSE {}),
                    groups |-> review.groups \cup (IF allowed THEN b.groups ELSE {}),
                    unread |-> review.unread \ {b}]
  /\ UNCHANGED <<informers, stores, allKnownNames, phase, step, newKnownNames, roleBindings,
                 requests, request, gone>>

\* lastKnownValue.users and .groups, of which a name without a record has none.
RecordUsers(n) == IF n \in DOMAIN reviewRecordStore THEN reviewRecordStore[n].users ELSE {}
RecordGroups(n) == IF n \in DOMAIN reviewRecordStore THEN reviewRecordStore[n].groups ELSE {}

\* Mutant of DropUsers: usersToRemove keeps the users of the new review.
DropUsersOfRecord ==
  /\ step = "review" /\ review.unread = {}
  /\ userSubjectRecordStore' = DeleteResourceFromSubjects(
       userSubjectRecordStore, RecordUsers(request.name), request.name)
  /\ step' = "dropGroups"
  /\ UNCHANGED <<informers, reviewRecordStore, groupSubjectRecordStore, allKnownNames, phase,
                 locals>>

DropUsers ==
  /\ step = "review" /\ review.unread = {}
  /\ userSubjectRecordStore' = DeleteResourceFromSubjects(
       userSubjectRecordStore, RecordUsers(request.name) \ review.users, request.name)
  /\ step' = "dropGroups"
  /\ UNCHANGED <<informers, reviewRecordStore, groupSubjectRecordStore, allKnownNames, phase,
                 locals>>

\* Mutant of DropGroups: the difference of the two sets is the wrong way round.
DropGroupsReversed ==
  /\ step = "dropGroups"
  /\ groupSubjectRecordStore' = DeleteResourceFromSubjects(
       groupSubjectRecordStore, review.groups \ RecordGroups(request.name), request.name)
  /\ step' = "addUsers"
  /\ UNCHANGED <<informers, reviewRecordStore, userSubjectRecordStore, allKnownNames, phase,
                 locals>>

DropGroups ==
  /\ step = "dropGroups"
  /\ groupSubjectRecordStore' = DeleteResourceFromSubjects(
       groupSubjectRecordStore, RecordGroups(request.name) \ review.groups, request.name)
  /\ step' = "addUsers"
  /\ UNCHANGED <<informers, reviewRecordStore, userSubjectRecordStore, allKnownNames, phase,
                 locals>>

AddUsers ==
  /\ step = "addUsers"
  /\ userSubjectRecordStore' = AddSubjectsToNamespace(
       userSubjectRecordStore, review.users, request.name)
  /\ step' = "addGroups"
  /\ UNCHANGED <<informers, reviewRecordStore, groupSubjectRecordStore, allKnownNames, phase,
                 locals>>

\* The last pass over an index, and the review record, which no other thread reads.
AddGroups ==
  /\ step = "addGroups"
  /\ groupSubjectRecordStore' = AddSubjectsToNamespace(
       groupSubjectRecordStore, review.groups, request.name)
  /\ reviewRecordStore' = Assign(reviewRecordStore, request.name,
       ReviewRecord(request, LastKnown(request.name), review.users, review.groups))
  /\ step' = "notify"
  /\ UNCHANGED <<informers, userSubjectRecordStore, allKnownNames, phase, locals>>

\* notifyWatchers tells the watchers of review.Users() and review.Groups(), and
\* returns to the loop that called it.
Notify ==
  /\ step = "notify"
  /\ step' = "next"
  /\ request' = None
  /\ review' = None
  /\ UNCHANGED <<informers, stores, allKnownNames, phase, newKnownNames, roleBindings,
                 requests, gone>>

-----------------------------------------------------------------------------
(***************************************************************************)
(* purgeDeletedResources, and the end of the cycle.                        *)
(***************************************************************************)
StartPurge ==
  /\ phase = "bindings" /\ Between /\ requests = {} /\ roleBindings = {}
  /\ phase' = "purge"
  /\ UNCHANGED <<informers, stores, allKnownNames, step, locals>>

PurgeUsers(n) ==
  /\ phase = "purge" /\ Between
  /\ n \in DOMAIN reviewRecordStore \ newKnownNames
  /\ userSubjectRecordStore' = DeleteResourceFromSubjects(
       userSubjectRecordStore, reviewRecordStore[n].users, n)
  /\ request' = Request(n, 0, Unversioned(Roles), Unversioned(Bindings))
  /\ step' = "purgeGroups"
  /\ UNCHANGED <<informers, reviewRecordStore, groupSubjectRecordStore, allKnownNames, phase,
                 newKnownNames, roleBindings, requests, review, gone>>

\* Mutant of PurgeGroups: the record stays in hand.
PurgeGroupsHoldingOn ==
  /\ step = "purgeGroups"
  /\ groupSubjectRecordStore' = DeleteResourceFromSubjects(
       groupSubjectRecordStore, reviewRecordStore[request.name].groups, request.name)
  /\ reviewRecordStore' = Without(reviewRecordStore, request.name)
  /\ step' = "next"
  /\ UNCHANGED <<informers, userSubjectRecordStore, allKnownNames, phase, newKnownNames,
                 roleBindings, requests, request, review, gone>>

PurgeGroups ==
  /\ step = "purgeGroups"
  /\ groupSubjectRecordStore' = DeleteResourceFromSubjects(
       groupSubjectRecordStore, reviewRecordStore[request.name].groups, request.name)
  /\ reviewRecordStore' = Without(reviewRecordStore, request.name)
  /\ request' = None
  /\ step' = "next"
  /\ UNCHANGED <<informers, userSubjectRecordStore, allKnownNames, phase, newKnownNames,
                 roleBindings, requests, review, gone>>

\* Mutant of StartAnnouncing: the difference of the names is the wrong way round.
StartAnnouncingReversed ==
  /\ phase = "purge" /\ Between
  /\ DOMAIN reviewRecordStore \subseteq newKnownNames
  /\ phase' = "announce"
  /\ gone' = newKnownNames \ allKnownNames
  /\ UNCHANGED <<informers, stores, allKnownNames, step, newKnownNames, roleBindings, requests,
                 request, review>>

\* for name := range oldNames.Difference(newNames)
StartAnnouncing ==
  /\ phase = "purge" /\ Between
  /\ DOMAIN reviewRecordStore \subseteq newKnownNames
  /\ phase' = "announce"
  /\ gone' = allKnownNames \ newKnownNames
  /\ UNCHANGED <<informers, stores, allKnownNames, step, newKnownNames, roleBindings, requests,
                 request, review>>

\* notifyWatchers(name, nil, sets.String{}, sets.String{}): nobody has access.
NotifyGone(n) ==
  /\ phase = "announce" /\ Between /\ n \in gone
  /\ gone' = gone \ {n}
  /\ request' = Request(n, 0, Unversioned(Roles), Unversioned(Bindings))
  /\ review' = [users |-> {}, groups |-> {}, unread |-> {}]
  /\ step' = "notify"
  /\ UNCHANGED <<informers, stores, allKnownNames, phase, newKnownNames, roleBindings, requests>>

\* Mutant of FinishSync: names are added to allKnownNames and never taken out.
FinishSyncAccumulating ==
  /\ phase = "announce" /\ Between /\ gone = {}
  /\ allKnownNames' = allKnownNames \cup newKnownNames
  /\ newKnownNames' = {}
  /\ phase' = "idle"
  /\ UNCHANGED <<informers, stores, step, roleBindings, requests, request, review, gone>>

\* ac.allKnownNames = newKnownNames; the goroutine sleeps for the period.
FinishSync ==
  /\ phase = "announce" /\ Between /\ gone = {}
  /\ allKnownNames' = newKnownNames
  /\ newKnownNames' = {}
  /\ phase' = "idle"
  /\ UNCHANGED <<informers, stores, step, roleBindings, requests, request, review, gone>>

-----------------------------------------------------------------------------
Init ==
  /\ clusters = EmptyMap /\ roles = EmptyMap /\ bindings = EmptyMap /\ clock = 0
  /\ reviewRecordStore = EmptyMap
  /\ userSubjectRecordStore = EmptyMap
  /\ groupSubjectRecordStore = EmptyMap
  /\ allKnownNames = {}
  /\ phase = "idle" /\ step = "next"
  /\ newKnownNames = {} /\ roleBindings = {} /\ requests = {}
  /\ request = None /\ review = None /\ gone = {}

Synchronize ==
  \/ StartSync
  \/ ListRoleBindings
  \/ \E b \in roleBindings : ReadRoleBinding(b)
  \/ \E req \in requests : SkipRequest(req) \/ StartReview(req)
  \/ step = "review" /\ \E b \in review.unread : EvaluateBinding(b)
  \/ DropUsers \/ DropGroups \/ AddUsers \/ AddGroups \/ Notify
  \/ StartPurge
  \/ \E n \in Names : PurgeUsers(n)
  \/ PurgeGroups
  \/ StartAnnouncing
  \/ \E n \in gone : NotifyGone(n)
  \/ FinishSync

Next == InformerEvent \/ Synchronize

\* Run starts synchronize() again and again, for as long as the server lives.
Fairness == WF_vars(Synchronize)

Spec == Init /\ [][Next]_vars /\ Fairness

-----------------------------------------------------------------------------
(***************************************************************************)
(* Types.  A store is a partial function; versions are those given so far. *)
(***************************************************************************)
Versions == 1..MaxVersion

ClusterRoles == [version : Versions, rules : RoleContents]

ClusterRoleBindings ==
  [version : Versions, role : Roles, users : SUBSET Users, groups : SUBSET Groups]

ListedBindings ==
  [uid : Bindings, version : Versions, role : Roles, users : SUBSET Users, groups : SUBSET Groups]

ReviewRequests ==
  [name : Names, resourceVersion : 0..MaxVersion,
   roleVersions : [Roles -> 0..MaxVersion], bindingVersions : [Bindings -> 0..MaxVersion]]

Reviews == [users : SUBSET Users, groups : SUBSET Groups, unread : SUBSET ListedBindings]

ReviewRecords ==
  [resourceVersion : 0..MaxVersion,
   roleVersions : [Roles -> 0..MaxVersion], bindingVersions : [Bindings -> 0..MaxVersion],
   users : SUBSET Users, groups : SUBSET Groups]

InformersOK ==
  /\ clock \in 0..MaxVersion
  /\ IsMap(clusters, Names, Versions)
  /\ IsMap(roles, Roles, ClusterRoles)
  /\ IsMap(bindings, Bindings, ClusterRoleBindings)

StoresOK ==
  /\ IsMap(reviewRecordStore, Names, ReviewRecords)
  /\ IsMap(userSubjectRecordStore, Users, SUBSET Names)
  /\ IsMap(groupSubjectRecordStore, Groups, SUBSET Names)
  /\ allKnownNames \subseteq Names

\* syncRequest is past skipReview.
Reviewing == {"review", "dropGroups", "addUsers", "addGroups", "notify"}

LocalsOK ==
  /\ phase \in {"idle", "resources", "bindings", "purge", "announce"}
  /\ step \in {"next", "purgeGroups"} \cup Reviewing
  /\ newKnownNames \subseteq Names
  /\ roleBindings \subseteq ListedBindings
  /\ requests \subseteq ReviewRequests
  /\ IF step = "next" THEN request = None ELSE request \in ReviewRequests
  /\ IF step \in Reviewing THEN review \in Reviews ELSE review = None
  /\ gone \subseteq Names

\* Every store and local variable has the shape its declaration in common.go
\* gives it, and synchronize() holds a request exactly while it works on one.
TypeOK == InformersOK /\ StoresOK /\ LocalsOK

-----------------------------------------------------------------------------
(***************************************************************************)
(* Safety.                                                                 *)
(***************************************************************************)

\* The users, and the groups, that the indexes are to list name n for: those of
\* its record, except for the name whose record syncRequest is replacing or
\* purgeDeletedResources deleting.
InHand(n) == step \notin {"next", "review", "notify"} /\ request.name = n

HoldersAmongUsers(n) ==
  IF ~InHand(n) THEN RecordUsers(n)
  ELSE CASE step \in {"dropGroups", "addUsers"} -> RecordUsers(n) \cap review.users
         [] step = "addGroups"   -> review.users
         [] step = "purgeGroups" -> {}

HoldersAmongGroups(n) ==
  IF ~InHand(n) THEN RecordGroups(n)
  ELSE CASE step \in {"addUsers", "addGroups"} -> RecordGroups(n) \cap review.groups
         [] step \in {"dropGroups", "purgeGroups"} -> RecordGroups(n)

\* store lists every name for exactly its holders, and has no empty record.
Indexes(store, subjects, holders) ==
  /\ \A n \in Names, s \in subjects : n \in NamesOf(store, s) <=> s \in holders[n]
  /\ \A s \in DOMAIN store : store[s] # {}

\* The indexes that listNames reads are the inversion of the review records at
\* all times, up to the one name in hand, whose index entries only ever miss
\* what the review refused or has not added yet; and no subject without a name
\* is kept (common.go:239-243, 313-315, 464-492).  Removal works from the
\* previous record: one record that disagrees with the indexes would leave a
\* subject listed for ever.
SubjectsIndexRecords ==
  /\ Indexes(userSubjectRecordStore, Users, [n \in Names |-> HoldersAmongUsers(n)])
  /\ Indexes(groupSubjectRecordStore, Groups, [n \in Names |-> HoldersAmongGroups(n)])

\* Between two cycles there is a record for each name of the last List, and no
\* other: what the bindings loop recorded under a name that is not listed has
\* been purged (common.go:264-268, 307-317).
IdleKnowsItsRecords ==
  phase = "idle" => DOMAIN reviewRecordStore = allKnownNames

\* Binding b gives its subjects name n now.
Grants(b, n) ==
  RulesAllow(GetRequest(APIGroup, Resource, n), RulesFromRoleRef(bindings[b].role))

\* A record that has seen the current version of a binding and of its role was
\* reviewed with both: what they grant is in the record, so skipReview loses no
\* grant when it takes equal versions for an answer (common.go:446-460,
\* subject_locator.go:44-54), although the binding was listed, the role read
\* and the review made at three different moments.
HasSeen(record, b) ==
  LET r == bindings[b].role
  IN  /\ r \in DOMAIN roles
      /\ record.bindingVersions[b] = bindings[b].version
      /\ record.roleVersions[r] = roles[r].version

CurrentVersionsMeanCurrentGrants ==
  \A n \in DOMAIN reviewRecordStore, b \in DOMAIN bindings :
    LET record == reviewRecordStore[n]
    IN  HasSeen(record, b) /\ Grants(b, n) =>
          bindings[b].users \subseteq record.users /\ bindings[b].groups \subseteq record.groups

\* The subjects a step takes name n away from.
Losers(store, newStore, n) ==
  {s \in DOMAIN store : n \in store[s] /\ n \notin NamesOf(newStore, s)}

\* A subject is dropped from an index only because a finished review of that
\* name leaves it out, or because the name was not in the last List: a subject
\* that keeps its access never disappears from a list meanwhile
\* (common.go:230-242).
OnlyRefusedSubjectsLose ==
  \A n \in Names :
    LET lost == [users  |-> Losers(userSubjectRecordStore, userSubjectRecordStore', n),
                 groups |-> Losers(groupSubjectRecordStore, groupSubjectRecordStore', n)]
    IN  \/ lost.users = {} /\ lost.groups = {}
        \/ phase = "purge" /\ n \notin newKnownNames
        \/ /\ step \in Reviewing /\ request.name = n /\ review.unread = {}
           /\ lost.users \cap review.users = {} /\ lost.groups \cap review.groups = {}

KeptSubjectsStayListed == [][OnlyRefusedSubjectsLose]_vars

-----------------------------------------------------------------------------
(***************************************************************************)
(* The cache as its watchers see it: the records are its mind, made up     *)
(* when a review is recorded; the name it is telling them of is the one in *)
(* hand; names it has announced as gone are known no longer.               *)
(***************************************************************************)
Access ==
  [n \in DOMAIN reviewRecordStore |->
     [users |-> reviewRecordStore[n].users, groups |-> reviewRecordStore[n].groups]]

NamesToAnswerFor ==
  IF phase = "announce" THEN (allKnownNames \cap newKnownNames) \cup gone ELSE allKnownNames

Note ==
  IF step = "notify"
  THEN [name |-> request.name, users |-> review.users, groups |-> review.groups]
  ELSE None

Feed == INSTANCE ReviewFeed WITH access <- Access, known <- NamesToAnswerFor, note <- Note

\* The cache implements the feed its watchers rely on: a review is recorded and
\* told before the next begins, whatever loop asked for it, and every name of
\* the last cycle that is gone is announced before the cycle ends
\* (common.go:213-246, 263-268, 307-322).
ImplementsReviewFeed == Feed!FeedSpec

-----------------------------------------------------------------------------
(***************************************************************************)
(* Liveness.  The API server's writes are bounded by MaxVersion, so every  *)
(* behaviour has a last one; these say what the cache converges to.        *)
(***************************************************************************)
GrantedUsers(n) == {SuperUser} \cup UNION {bindings[b].users : b \in {c \in DOMAIN bindings : Grants(c, n)}}
GrantedGroups(n) == {MastersGroup} \cup UNION {bindings[b].groups : b \in {c \in DOMAIN bindings : Grants(c, n)}}

\* Whoever may get a listed resource is listed with it in the end, however the
\* changes of resources, roles and bindings fell into the cycles.
GrantsEventuallyCached ==
  <>[](\A n \in DOMAIN clusters : /\ GrantedUsers(n) \subseteq RecordUsers(n)
                                  /\ GrantedGroups(n) \subseteq RecordGroups(n))

\* In the end every cycle closes with records of the listed resources only, even
\* when roles name resources that do not exist.
RecordsEventuallyOfListed ==
  <>[](phase = "idle" => DOMAIN reviewRecordStore = DOMAIN clusters)

\* "List returns the list of ManagedClusterr items that the user can access"
\* (managedcluster.go:22): in the end nobody else is cached with them.
RevocationsEventuallyApplied ==
  <>[](\A n \in DOMAIN clusters : /\ RecordUsers(n) \subseteq GrantedUsers(n)
                                  /\ RecordGroups(n) \subseteq GrantedGroups(n))
=============================================================================
