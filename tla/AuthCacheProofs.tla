--------------------------- MODULE AuthCacheProofs ---------------------------
(***************************************************************************)
(* Theorems about AuthCache, for every value of its constants.             *)
(***************************************************************************)
EXTENDS AuthCache, PartialMapsProofs, TLAPS

-----------------------------------------------------------------------------
(***************************************************************************)
(* The subject indexes.                                                    *)
(***************************************************************************)

\* deleteResourceFromSubjects returns a store of subjects and names.
LEMMA DeleteIsMap ==
  ASSUME NEW S, NEW store, IsMap(store, S, SUBSET Names), NEW subjects, NEW name
  PROVE  IsMap(DeleteResourceFromSubjects(store, subjects, name), S, SUBSET Names)
BY DEF IsMap, DeleteResourceFromSubjects

\* addSubjectsToNamespace returns a store of subjects and names.
LEMMA AddIsMap ==
  ASSUME NEW S, NEW store, IsMap(store, S, SUBSET Names),
         NEW subjects \in SUBSET S, NEW name \in Names
  PROVE  IsMap(AddSubjectsToNamespace(store, subjects, name), S, SUBSET Names)
BY DEF IsMap, AddSubjectsToNamespace, NamesOf

\* What deleteResourceFromSubjects leaves of a store.
LEMMA DeleteNames ==
  ASSUME NEW S, NEW store, IsMap(store, S, SUBSET Names), NEW subjects, NEW name,
         NEW s, NEW n
  PROVE  n \in NamesOf(DeleteResourceFromSubjects(store, subjects, name), s)
           <=> n \in NamesOf(store, s) /\ ~(s \in subjects /\ n = name)
BY DEF IsMap, DeleteResourceFromSubjects, NamesOf

\* deleteResourceFromSubjects deletes a subject that it leaves without names.
LEMMA DeleteNonEmpty ==
  ASSUME NEW store, \A s \in DOMAIN store : store[s] # {}, NEW subjects, NEW name
  PROVE  \A s \in DOMAIN DeleteResourceFromSubjects(store, subjects, name) :
           DeleteResourceFromSubjects(store, subjects, name)[s] # {}
BY DEF DeleteResourceFromSubjects

\* What addSubjectsToNamespace makes of a store.
LEMMA AddNames ==
  ASSUME NEW store, NEW subjects, NEW name, NEW s, NEW n
  PROVE  n \in NamesOf(AddSubjectsToNamespace(store, subjects, name), s)
           <=> n \in NamesOf(store, s) \/ (s \in subjects /\ n = name)
BY DEF AddSubjectsToNamespace, NamesOf

\* addSubjectsToNamespace leaves no subject without names either.
LEMMA AddNonEmpty ==
  ASSUME NEW store, \A s \in DOMAIN store : store[s] # {}, NEW subjects, NEW name
  PROVE  \A s \in DOMAIN AddSubjectsToNamespace(store, subjects, name) :
           AddSubjectsToNamespace(store, subjects, name)[s] # {}
BY DEF AddSubjectsToNamespace, NamesOf

\* A Go map of versions with one entry.
LEMMA VersionedType ==
  ASSUME NEW S, NEW x \in S, NEW v \in 0..MaxVersion
  PROVE  Versioned(S, x, v) \in [S -> 0..MaxVersion]
<1>1. Unversioned(S) \in [S -> 0..MaxVersion]
  BY AuthCacheAssumption DEF Unversioned
<1> QED
  BY <1>1 DEF Versioned

\* An empty Go map of versions.
LEMMA UnversionedType == ASSUME NEW S PROVE Unversioned(S) \in [S -> 0..MaxVersion]
BY AuthCacheAssumption DEF Unversioned

-----------------------------------------------------------------------------
(***************************************************************************)
(* Types.                                                                  *)
(***************************************************************************)

\* The requests that ListResources makes are review requests.
LEMMA ListResourcesType ==
  ASSUME InformersOK
  PROVE  ListResources \subseteq ReviewRequests
<1> SUFFICES ASSUME NEW n \in DOMAIN clusters
             PROVE  Request(n, clusters[n], Unversioned(Roles), Unversioned(Bindings))
                      \in ReviewRequests
  BY DEF ListResources
<1>1. n \in Names /\ clusters[n] \in 0..MaxVersion
  BY DEF InformersOK, IsMap, Versions
<1>2. /\ Unversioned(Roles) \in [Roles -> 0..MaxVersion]
      /\ Unversioned(Bindings) \in [Bindings -> 0..MaxVersion]
  BY UnversionedType
<1> QED
  BY <1>1, <1>2 DEF Request, ReviewRequests

\* A List of the bindings is a set of listed bindings.
LEMMA ListBindingsType ==
  ASSUME InformersOK
  PROVE  ListBindings \subseteq ListedBindings
BY DEF ListBindings, InformersOK, IsMap, ClusterRoleBindings, ListedBindings

\* The requests that one role binding leads to are review requests.
LEMMA RoleRequestsType ==
  ASSUME InformersOK, allKnownNames \subseteq Names, NEW b \in ListedBindings,
         b.role \in DOMAIN roles, NEW n \in NamesFromRole(b.role)
  PROVE  Request(n, 0, Versioned(Roles, b.role, roles[b.role].version),
                 Versioned(Bindings, b.uid, b.version)) \in ReviewRequests
<1>1. roles[b.role] \in ClusterRoles /\ b.role \in Roles
  BY DEF InformersOK, IsMap
<1>2. n \in Names
  <2>1. NamesFromClusterRole(roles[b.role].rules, APIGroup, Resource) \subseteq Names
    BY <1>1, AuthCacheAssumption DEF ClusterRoles
  <2> QED
    BY <2>1 DEF NamesFromRole
<1>3. Versioned(Roles, b.role, roles[b.role].version) \in [Roles -> 0..MaxVersion]
  <2>1. roles[b.role].version \in 0..MaxVersion
    BY <1>1 DEF ClusterRoles, Versions
  <2> QED
    BY <1>1, <2>1, VersionedType
<1>4. Versioned(Bindings, b.uid, b.version) \in [Bindings -> 0..MaxVersion]
  <2>1. b.uid \in Bindings /\ b.version \in 0..MaxVersion
    BY DEF ListedBindings, Versions
  <2> QED
    BY <2>1, VersionedType
<1> QED
  BY <1>2, <1>3, <1>4, AuthCacheAssumption DEF Request, ReviewRequests

\* A name in hand that no version goes with.
LEMMA BareRequestType ==
  ASSUME NEW n \in Names
  PROVE  Request(n, 0, Unversioned(Roles), Unversioned(Bindings)) \in ReviewRequests
<1>1. /\ Unversioned(Roles) \in [Roles -> 0..MaxVersion]
      /\ Unversioned(Bindings) \in [Bindings -> 0..MaxVersion]
  BY UnversionedType
<1> QED
  BY <1>1, AuthCacheAssumption DEF Request, ReviewRequests

\* cacheReviewRecord makes a review record.
LEMMA ReviewRecordType ==
  ASSUME NEW req \in ReviewRequests, NEW users \in SUBSET Users, NEW groups \in SUBSET Groups,
         StoresOK
  PROVE  ReviewRecord(req, LastKnown(req.name), users, groups) \in ReviewRecords
<1> DEFINE known == Known(LastKnown(req.name))
<1>1. /\ known.resourceVersion \in 0..MaxVersion
      /\ known.roleVersions \in [Roles -> 0..MaxVersion]
      /\ known.bindingVersions \in [Bindings -> 0..MaxVersion]
  <2>1. CASE LastKnown(req.name) = None
    BY <2>1, UnversionedType, AuthCacheAssumption DEF Known
  <2>2. CASE LastKnown(req.name) # None
    <3>1. LastKnown(req.name) \in ReviewRecords
      BY <2>2 DEF LastKnown, StoresOK, IsMap
    <3> QED
      BY <2>2, <3>1 DEF Known, ReviewRecords
  <2> QED
    BY <2>1, <2>2
<1>2. Updated(known.roleVersions, req.roleVersions) \in [Roles -> 0..MaxVersion]
  BY <1>1 DEF Updated, ReviewRequests
<1>3. Updated(known.bindingVersions, req.bindingVersions) \in [Bindings -> 0..MaxVersion]
  BY <1>1 DEF Updated, ReviewRequests
<1>4. (IF req.resourceVersion # 0 THEN req.resourceVersion ELSE known.resourceVersion)
        \in 0..MaxVersion
  BY <1>1 DEF ReviewRequests
<1> QED
  BY <1>2, <1>3, <1>4 DEF ReviewRecord, ReviewRecords

\* The informers keep their types, and nothing else changes with them.
LEMMA InformerEventType ==
  ASSUME TypeOK, InformerEvent
  PROVE  TypeOK'
<1>1. StoresOK' /\ LocalsOK'
  BY DEF TypeOK, StoresOK, LocalsOK, InformerEvent, stores, locals
<1>2. InformersOK'
  <2> USE AuthCacheAssumption DEF TypeOK, InformersOK
  <2>1. ASSUME CanWrite, clock' = clock + 1
        PROVE  clock' \in 0..MaxVersion /\ clock + 1 \in Versions
    BY <2>1 DEF CanWrite, Versions
  <2>2. ASSUME NEW n \in Names, PutCluster(n)
        PROVE  InformersOK'
    BY <2>1, <2>2, AssignIsMap DEF PutCluster
  <2>3. ASSUME NEW n \in Names, RemoveCluster(n)
        PROVE  InformersOK'
    BY <2>3, WithoutIsMap DEF RemoveCluster
  <2>4. ASSUME NEW r \in Roles, NEW rules \in RoleContents, PutRole(r, rules)
        PROVE  InformersOK'
    <3>1. [version |-> clock + 1, rules |-> rules] \in ClusterRoles
      BY <2>1, <2>4 DEF ClusterRoles, PutRole
    <3> QED
      BY <2>1, <2>4, <3>1, AssignIsMap DEF PutRole
  <2>5. ASSUME NEW r \in Roles, RemoveRole(r)
        PROVE  InformersOK'
    BY <2>5, WithoutIsMap DEF RemoveRole
  <2>6. ASSUME NEW b \in Bindings, NEW r \in Roles, NEW s \in SubjectSets, PutBinding(b, r, s)
        PROVE  InformersOK'
    <3>1. [version |-> clock + 1, role |-> r, users |-> s.users, groups |-> s.groups]
            \in ClusterRoleBindings
      BY <2>1, <2>6 DEF ClusterRoleBindings, PutBinding
    <3> QED
      BY <2>1, <2>6, <3>1, AssignIsMap DEF PutBinding
  <2>7. ASSUME NEW b \in Bindings, RemoveBinding(b)
        PROVE  InformersOK'
    BY <2>7, WithoutIsMap DEF RemoveBinding
  <2> QED
    BY <2>2, <2>3, <2>4, <2>5, <2>6, <2>7 DEF InformerEvent
<1> QED
  BY <1>1, <1>2 DEF TypeOK

\* Every step of synchronize() keeps the types.
LEMMA SynchronizeType ==
  ASSUME TypeOK, Synchronize
  PROVE  TypeOK'
<1> USE DEF TypeOK
<1>i. ASSUME UNCHANGED informers
      PROVE  InformersOK'
  BY <1>i DEF informers, InformersOK
<1>s. ASSUME UNCHANGED stores, allKnownNames' \subseteq Names
      PROVE  StoresOK'
  BY <1>s DEF stores, StoresOK
<1>1. CASE StartSync
  <2>1. ListResources \subseteq ReviewRequests
    BY ListResourcesType
  <2>2. {req.name : req \in ListResources} \subseteq Names
    BY <2>1 DEF ReviewRequests
  <2> QED
    BY <1>1, <1>i, <1>s, <2>1, <2>2 DEF StartSync, StoresOK, LocalsOK
<1>2. CASE ListRoleBindings
  BY <1>2, <1>i, <1>s, ListBindingsType DEF ListRoleBindings, StoresOK, LocalsOK
<1>3. ASSUME NEW b \in roleBindings, ReadRoleBinding(b)
      PROVE  TypeOK'
  <2>1. requests' \subseteq ReviewRequests
    <3>1. b \in ListedBindings
      BY <1>3 DEF LocalsOK
    <3>2. CASE b.role \notin DOMAIN roles
      BY <1>3, <3>2 DEF ReadRoleBinding
    <3>3. CASE b.role \in DOMAIN roles
      BY <1>3, <3>1, <3>3, RoleRequestsType DEF ReadRoleBinding, StoresOK
    <3> QED
      BY <3>2, <3>3
  <2> QED
    BY <1>3, <1>i, <1>s, <2>1 DEF ReadRoleBinding, StoresOK, LocalsOK
<1>4. ASSUME NEW req \in requests, SkipRequest(req)
      PROVE  TypeOK'
  BY <1>4, <1>i, <1>s DEF SkipRequest, StoresOK, LocalsOK
<1>5. ASSUME NEW req \in requests, StartReview(req)
      PROVE  TypeOK'
  <2>1. review' \in Reviews
    BY <1>5, ListBindingsType, AuthCacheAssumption DEF StartReview, Reviews
  <2> QED
    BY <1>5, <1>i, <1>s, <2>1 DEF StartReview, StoresOK, LocalsOK, Reviewing
<1>6. ASSUME NEW b \in review.unread, EvaluateBinding(b)
      PROVE  TypeOK'
  <2>1. review \in Reviews /\ b \in ListedBindings
    BY <1>6 DEF EvaluateBinding, LocalsOK, Reviewing, Reviews
  <2>2. review' \in Reviews
    BY <1>6, <2>1 DEF EvaluateBinding, Reviews, ListedBindings
  <2> QED
    BY <1>6, <1>i, <1>s, <2>2 DEF EvaluateBinding, StoresOK, LocalsOK, Reviewing
<1>7. CASE DropUsers
  <2>1. StoresOK'
    BY <1>7, DeleteIsMap DEF DropUsers, StoresOK
  <2> QED
    BY <1>7, <1>i, <2>1 DEF DropUsers, LocalsOK, locals, Reviewing
<1>8. CASE DropGroups
  <2>1. StoresOK'
    BY <1>8, DeleteIsMap DEF DropGroups, StoresOK
  <2> QED
    BY <1>8, <1>i, <2>1 DEF DropGroups, LocalsOK, locals, Reviewing
<1>9. CASE AddUsers
  <2>1. request.name \in Names /\ review.users \in SUBSET Users
    BY <1>9 DEF AddUsers, LocalsOK, Reviewing, ReviewRequests, Reviews
  <2>2. StoresOK'
    BY <1>9, <2>1, AddIsMap DEF AddUsers, StoresOK
  <2> QED
    BY <1>9, <1>i, <2>2 DEF AddUsers, LocalsOK, locals, Reviewing
<1>10. CASE AddGroups
  <2>1. /\ request \in ReviewRequests /\ request.name \in Names
        /\ review.users \in SUBSET Users /\ review.groups \in SUBSET Groups
    BY <1>10 DEF AddGroups, LocalsOK, Reviewing, ReviewRequests, Reviews
  <2>2. ReviewRecord(request, LastKnown(request.name), review.users, review.groups)
          \in ReviewRecords
    BY <2>1, ReviewRecordType
  <2>3. IsMap(reviewRecordStore', Names, ReviewRecords)
    BY <1>10, <2>1, <2>2, AssignIsMap DEF AddGroups, StoresOK
  <2>4. IsMap(groupSubjectRecordStore', Groups, SUBSET Names)
    BY <1>10, <2>1, AddIsMap DEF AddGroups, StoresOK
  <2> QED
    BY <1>10, <1>i, <2>3, <2>4 DEF AddGroups, StoresOK, LocalsOK, locals, Reviewing
<1>11. CASE Notify
  BY <1>11, <1>i, <1>s DEF Notify, StoresOK, LocalsOK, Reviewing
<1>12. CASE StartPurge
  BY <1>12, <1>i, <1>s DEF StartPurge, StoresOK, LocalsOK, locals
<1>13. ASSUME NEW n \in Names, PurgeUsers(n)
       PROVE  TypeOK'
  <2>1. Request(n, 0, Unversioned(Roles), Unversioned(Bindings)) \in ReviewRequests
    BY BareRequestType
  <2>2. StoresOK'
    BY <1>13, DeleteIsMap DEF PurgeUsers, StoresOK
  <2> QED
    BY <1>13, <1>i, <2>1, <2>2 DEF PurgeUsers, LocalsOK, Reviewing, Between
<1>14. CASE PurgeGroups
  <2>1. StoresOK'
    BY <1>14, DeleteIsMap, WithoutIsMap DEF PurgeGroups, StoresOK
  <2> QED
    BY <1>14, <1>i, <2>1 DEF PurgeGroups, LocalsOK, Reviewing
<1>15. CASE StartAnnouncing
  BY <1>15, <1>i, <1>s DEF StartAnnouncing, StoresOK, LocalsOK
<1>16. ASSUME NEW n \in gone, NotifyGone(n)
       PROVE  TypeOK'
  <2>1. n \in Names
    BY DEF LocalsOK
  <2>2. Request(n, 0, Unversioned(Roles), Unversioned(Bindings)) \in ReviewRequests
    BY <2>1, BareRequestType
  <2>3. review' \in Reviews
    BY <1>16 DEF NotifyGone, Reviews
  <2> QED
    BY <1>16, <1>i, <1>s, <2>2, <2>3 DEF NotifyGone, StoresOK, LocalsOK, Reviewing
<1>17. CASE FinishSync
  BY <1>17, <1>i, <1>s DEF FinishSync, StoresOK, LocalsOK
<1> QED
  BY <1>1, <1>2, <1>3, <1>4, <1>5, <1>6, <1>7, <1>8, <1>9, <1>10, <1>11, <1>12, <1>13, <1>14,
     <1>15, <1>16, <1>17 DEF Synchronize

\* The types hold at first, and every step keeps them.
LEMMA TypeInductive == (Init => TypeOK) /\ (TypeOK /\ [Next]_vars => TypeOK')
<1>1. Init => TypeOK
  BY EmptyIsMap, AuthCacheAssumption
     DEF Init, TypeOK, InformersOK, StoresOK, LocalsOK, Reviewing
<1>2. TypeOK /\ [Next]_vars => TypeOK'
  <2> SUFFICES ASSUME TypeOK, [Next]_vars
               PROVE  TypeOK'
    OBVIOUS
  <2>1. CASE InformerEvent
    BY <2>1, InformerEventType
  <2>2. CASE Synchronize
    BY <2>2, SynchronizeType
  <2>3. CASE UNCHANGED vars
    BY <2>3 DEF vars, informers, stores, locals, TypeOK, InformersOK, StoresOK, LocalsOK
  <2> QED
    BY <2>1, <2>2, <2>3 DEF Next
<1> QED
  BY <1>1, <1>2

\* The stores and locals of the cache have their declared shapes at all times.
THEOREM TypeCorrect == Spec => []TypeOK
BY TypeInductive, PTL DEF Spec

-----------------------------------------------------------------------------
(***************************************************************************)
(* The names of a cycle.  Every name of the List that began the cycle is   *)
(* recorded, or still to be: its request waits, or is in hand.             *)
(***************************************************************************)
Awaited(n) ==
  \/ \E req \in requests : req.name = n
  \/ step \in Reviewing \ {"notify"} /\ request.name = n

CycleNames ==
  /\ step \in Reviewing => phase \in {"resources", "bindings"} \/ (step = "notify" /\ phase = "announce")
  /\ step = "purgeGroups" => /\ phase = "purge"
                             /\ request.name \in DOMAIN reviewRecordStore \ newKnownNames
  /\ phase \notin {"resources", "bindings"} => requests = {}
  /\ phase = "idle" => DOMAIN reviewRecordStore = allKnownNames
  /\ phase = "resources" =>
       \A n \in newKnownNames : n \in DOMAIN reviewRecordStore \/ Awaited(n)
  /\ phase \in {"bindings", "purge"} => newKnownNames \subseteq DOMAIN reviewRecordStore
  /\ phase = "announce" => newKnownNames = DOMAIN reviewRecordStore
  /\ step \in Reviewing \ {"review"} => review.unread = {}
  /\ phase = "announce" => gone \cap newKnownNames = {}
  /\ step \in Reviewing \ {"notify"} => SuperUser \in review.users /\ MastersGroup \in review.groups

\* One step keeps what is known of the names of a cycle.
LEMMA CycleNamesStep ==
  ASSUME TypeOK, CycleNames, Synchronize
  PROVE  CycleNames'
<1> USE DEF CycleNames, Awaited, Reviewing
<1>1. CASE StartSync
  BY <1>1 DEF StartSync, stores, TypeOK, LocalsOK
<1>2. CASE ListRoleBindings
  BY <1>2 DEF ListRoleBindings, stores, Between
<1>3. ASSUME NEW b \in roleBindings, ReadRoleBinding(b)
      PROVE  CycleNames'
  BY <1>3 DEF ReadRoleBinding, stores, Between
<1>4. ASSUME NEW req \in requests, SkipRequest(req)
      PROVE  CycleNames'
  <2>1. req.name \in DOMAIN reviewRecordStore
    BY <1>4 DEF SkipRequest, SkipReview, LastKnown
  <2> QED
    BY <1>4, <2>1 DEF SkipRequest, stores, Between
<1>5. ASSUME NEW req \in requests, StartReview(req)
      PROVE  CycleNames'
  BY <1>5 DEF StartReview, stores, Between
<1>6. ASSUME NEW b \in review.unread, EvaluateBinding(b)
      PROVE  CycleNames'
  BY <1>6 DEF EvaluateBinding, stores
<1>7. CASE DropUsers
  BY <1>7 DEF DropUsers, locals
<1>8. CASE DropGroups
  BY <1>8 DEF DropGroups, locals
<1>9. CASE AddUsers
  BY <1>9 DEF AddUsers, locals
<1>10. CASE AddGroups
  <2>1. DOMAIN reviewRecordStore' = DOMAIN reviewRecordStore \cup {request.name}
    BY <1>10 DEF AddGroups, Assign
  <2> QED
    BY <1>10, <2>1 DEF AddGroups, locals
<1>11. CASE Notify
  BY <1>11 DEF Notify, stores
<1>12. CASE StartPurge
  BY <1>12 DEF StartPurge, stores, locals, Between
<1>13. ASSUME NEW n \in Names, PurgeUsers(n)
       PROVE  CycleNames'
  BY <1>13 DEF PurgeUsers, Request
<1>14. CASE PurgeGroups
  <2>1. DOMAIN reviewRecordStore' = DOMAIN reviewRecordStore \ {request.name}
    BY <1>14 DEF PurgeGroups, Without, Restrict
  <2> QED
    BY <1>14, <2>1 DEF PurgeGroups
<1>15. CASE StartAnnouncing
  BY <1>15 DEF StartAnnouncing, stores, Between
<1>16. ASSUME NEW n \in gone, NotifyGone(n)
       PROVE  CycleNames'
  BY <1>16 DEF NotifyGone, stores, Between
<1>17. CASE FinishSync
  BY <1>17 DEF FinishSync, stores, Between
<1> QED
  BY <1>1, <1>2, <1>3, <1>4, <1>5, <1>6, <1>7, <1>8, <1>9, <1>10, <1>11, <1>12, <1>13, <1>14,
     <1>15, <1>16, <1>17 DEF Synchronize

\* What is known of the names of a cycle holds at first, and every step keeps it.
LEMMA CycleNamesInductive ==
  (Init => CycleNames) /\ (TypeOK /\ CycleNames /\ [Next]_vars => CycleNames')
<1>1. Init => CycleNames
  BY DEF Init, CycleNames, Reviewing, EmptyMap
<1>2. TypeOK /\ CycleNames /\ [Next]_vars => CycleNames'
  <2>1. ASSUME CycleNames, InformerEvent PROVE CycleNames'
    BY <2>1 DEF InformerEvent, stores, locals, CycleNames, Awaited, Reviewing
  <2>2. ASSUME CycleNames, UNCHANGED vars PROVE CycleNames'
    BY <2>2 DEF vars, stores, locals, CycleNames, Awaited, Reviewing
  <2> QED
    BY <2>1, <2>2, CycleNamesStep DEF Next
<1> QED
  BY <1>1, <1>2

\* What is known of the names of a cycle holds at all times.
LEMMA CycleNamesInvariant == Spec => []CycleNames
BY CycleNamesInductive, TypeCorrect, PTL DEF Spec

\* At the end of a cycle the records are those of the names it listed
\* (common.go:264-268): the loop over the bindings leaves no record behind that
\* the next purge would not know of.
THEOREM IdleRecords == Spec => []IdleKnowsItsRecords
<1>1. CycleNames => IdleKnowsItsRecords
  BY DEF CycleNames, IdleKnowsItsRecords
<1> QED
  BY <1>1, CycleNamesInvariant, PTL

-----------------------------------------------------------------------------
(***************************************************************************)
(* The subject indexes invert the review records.                          *)
(***************************************************************************)
Resting == {"next", "review", "notify"}

\* A step between two states at rest that leaves the stores alone.
LEMMA IndexesUndisturbed ==
  ASSUME SubjectsIndexRecords, UNCHANGED stores, step \in Resting, step' \in Resting
  PROVE  SubjectsIndexRecords'
<1>1. ASSUME NEW n
      PROVE  /\ HoldersAmongUsers(n)' = HoldersAmongUsers(n)
             /\ HoldersAmongGroups(n)' = HoldersAmongGroups(n)
  BY DEF HoldersAmongUsers, HoldersAmongGroups, InHand, RecordUsers, RecordGroups, stores, Resting
<1> QED
  BY <1>1 DEF SubjectsIndexRecords, Indexes, NamesOf, stores

\* Taking name away from the subjects in dropped, in an index of holders.
LEMMA DeleteIndexes ==
  ASSUME NEW subjects, NEW store, IsMap(store, subjects, SUBSET Names), NEW dropped, NEW name,
         NEW holders, Indexes(store, subjects, holders), NEW newHolders,
         \A n \in Names : newHolders[n] = IF n = name THEN holders[n] \ dropped ELSE holders[n]
  PROVE  Indexes(DeleteResourceFromSubjects(store, dropped, name), subjects, newHolders)
<1>1. \A n \in Names, s \in subjects :
        n \in NamesOf(DeleteResourceFromSubjects(store, dropped, name), s) <=> s \in newHolders[n]
  <2> TAKE n \in Names, s \in subjects
  <2>1. n \in NamesOf(DeleteResourceFromSubjects(store, dropped, name), s)
          <=> n \in NamesOf(store, s) /\ ~(s \in dropped /\ n = name)
    BY DeleteNames
  <2>2. n \in NamesOf(store, s) <=> s \in holders[n]
    BY DEF Indexes
  <2> QED
    BY <2>1, <2>2
<1> QED
  BY <1>1, DeleteNonEmpty DEF Indexes

\* Giving name to the subjects in added, in an index of holders.
LEMMA AddIndexes ==
  ASSUME NEW subjects, NEW store, NEW added, NEW name,
         NEW holders, Indexes(store, subjects, holders), NEW newHolders,
         \A n \in Names : newHolders[n] = IF n = name THEN holders[n] \cup added ELSE holders[n]
  PROVE  Indexes(AddSubjectsToNamespace(store, added, name), subjects, newHolders)
<1>1. \A n \in Names, s \in subjects :
        n \in NamesOf(AddSubjectsToNamespace(store, added, name), s) <=> s \in newHolders[n]
  <2> TAKE n \in Names, s \in subjects
  <2>1. n \in NamesOf(AddSubjectsToNamespace(store, added, name), s)
          <=> n \in NamesOf(store, s) \/ (s \in added /\ n = name)
    BY AddNames
  <2>2. n \in NamesOf(store, s) <=> s \in holders[n]
    BY DEF Indexes
  <2> QED
    BY <2>1, <2>2
<1> QED
  BY <1>1, AddNonEmpty DEF Indexes

UserHolders == [n \in Names |-> HoldersAmongUsers(n)]
GroupHolders == [n \in Names |-> HoldersAmongGroups(n)]

\* One step keeps the indexes in agreement with the records.
LEMMA IndexesStep ==
  ASSUME TypeOK, CycleNames, SubjectsIndexRecords, Synchronize
  PROVE  SubjectsIndexRecords'
<1> USE DEF TypeOK, LocalsOK, Reviewing
<1> DEFINE U == Indexes(userSubjectRecordStore, Users, UserHolders)
           G == Indexes(groupSubjectRecordStore, Groups, GroupHolders)
<1>u. (U <=> Indexes(userSubjectRecordStore, Users, [n \in Names |-> HoldersAmongUsers(n)]))
      /\ (G <=> Indexes(groupSubjectRecordStore, Groups, [n \in Names |-> HoldersAmongGroups(n)]))
  BY DEF UserHolders, GroupHolders
<1>ug. U /\ G
  BY <1>u DEF SubjectsIndexRecords
<1>ugp. U' /\ G' => SubjectsIndexRecords'
  BY DEF SubjectsIndexRecords, UserHolders, GroupHolders
<1>m. /\ IsMap(userSubjectRecordStore, Users, SUBSET Names)
      /\ IsMap(groupSubjectRecordStore, Groups, SUBSET Names)
  BY DEF StoresOK
<1>k. ASSUME UserHolders' = UserHolders, userSubjectRecordStore' = userSubjectRecordStore
      PROVE  U'
  BY <1>k, <1>ug DEF Indexes, NamesOf
<1>l. ASSUME GroupHolders' = GroupHolders, groupSubjectRecordStore' = groupSubjectRecordStore
      PROVE  G'
  BY <1>l, <1>ug DEF Indexes, NamesOf
<1>1. CASE \/ StartSync \/ ListRoleBindings \/ \E b \in roleBindings : ReadRoleBinding(b)
           \/ \E req \in requests : SkipRequest(req) \/ StartReview(req)
           \/ step = "review" /\ \E b \in review.unread : EvaluateBinding(b)
           \/ Notify \/ StartPurge \/ StartAnnouncing \/ \E n \in gone : NotifyGone(n)
           \/ FinishSync
  <2>1. UNCHANGED stores
    BY <1>1 DEF StartSync, ListRoleBindings, ReadRoleBinding, SkipRequest, StartReview,
                EvaluateBinding, Notify, StartPurge, StartAnnouncing, NotifyGone, FinishSync
  <2>2. step \in Resting /\ step' \in Resting
    BY <1>1 DEF StartSync, ListRoleBindings, ReadRoleBinding, SkipRequest, StartReview,
                EvaluateBinding, Notify, StartPurge, StartAnnouncing, NotifyGone, FinishSync,
                CycleNames, Between, Resting
  <2> QED
    BY <2>1, <2>2, IndexesUndisturbed
<1>2. CASE DropUsers
  <2> DEFINE dropped == RecordUsers(request.name) \ review.users
  <2>1. ASSUME NEW n \in Names
        PROVE  UserHolders'[n] = IF n = request.name THEN UserHolders[n] \ dropped
                                 ELSE UserHolders[n]
    BY <1>2 DEF DropUsers, UserHolders, HoldersAmongUsers, InHand, RecordUsers, locals
  <2>2. GroupHolders' = GroupHolders
    BY <1>2 DEF DropUsers, GroupHolders, HoldersAmongGroups, InHand, RecordGroups, locals
  <2>3. U'
    BY <1>2, <1>ug, <1>m, <2>1, DeleteIndexes DEF DropUsers
  <2> QED
    BY <1>2, <1>l, <1>ugp, <2>2, <2>3 DEF DropUsers
<1>3. CASE DropGroups
  <2> DEFINE dropped == RecordGroups(request.name) \ review.groups
  <2>1. ASSUME NEW n \in Names
        PROVE  GroupHolders'[n] = IF n = request.name THEN GroupHolders[n] \ dropped
                                  ELSE GroupHolders[n]
    BY <1>3 DEF DropGroups, GroupHolders, HoldersAmongGroups, InHand, RecordGroups, locals
  <2>2. UserHolders' = UserHolders
    BY <1>3 DEF DropGroups, UserHolders, HoldersAmongUsers, InHand, RecordUsers, locals
  <2>3. G'
    BY <1>3, <1>ug, <1>m, <2>1, DeleteIndexes DEF DropGroups
  <2> QED
    BY <1>3, <1>k, <1>ugp, <2>2, <2>3 DEF DropGroups
<1>4. CASE AddUsers
  <2>1. ASSUME NEW n \in Names
        PROVE  UserHolders'[n] = IF n = request.name THEN UserHolders[n] \cup review.users
                                 ELSE UserHolders[n]
    BY <1>4 DEF AddUsers, UserHolders, HoldersAmongUsers, InHand, RecordUsers, locals
  <2>2. GroupHolders' = GroupHolders
    BY <1>4 DEF AddUsers, GroupHolders, HoldersAmongGroups, InHand, RecordGroups, locals
  <2>3. U'
    BY <1>4, <1>ug, <2>1, AddIndexes DEF AddUsers
  <2> QED
    BY <1>4, <1>l, <1>ugp, <2>2, <2>3 DEF AddUsers
<1>5. CASE AddGroups
  <2>1. ASSUME NEW n \in Names
        PROVE  /\ RecordUsers(n)' = IF n = request.name THEN review.users ELSE RecordUsers(n)
               /\ RecordGroups(n)' = IF n = request.name THEN review.groups ELSE RecordGroups(n)
    BY <1>5 DEF AddGroups, Assign, ReviewRecord, RecordUsers, RecordGroups
  <2>2. ASSUME NEW n \in Names
        PROVE  GroupHolders'[n] = IF n = request.name THEN GroupHolders[n] \cup review.groups
                                  ELSE GroupHolders[n]
    BY <1>5, <2>1 DEF AddGroups, GroupHolders, HoldersAmongGroups, InHand
  <2>3. UserHolders' = UserHolders
    BY <1>5, <2>1 DEF AddGroups, UserHolders, HoldersAmongUsers, InHand
  <2>4. G'
    BY <1>5, <1>ug, <2>2, AddIndexes DEF AddGroups
  <2> QED
    BY <1>5, <1>k, <1>ugp, <2>3, <2>4 DEF AddGroups
<1>6. ASSUME NEW n0 \in Names, PurgeUsers(n0)
      PROVE  SubjectsIndexRecords'
  <2>1. /\ n0 \in DOMAIN reviewRecordStore /\ request'.name = n0
        /\ step = "next" /\ step' = "purgeGroups"
    BY <1>6 DEF PurgeUsers, Request, Between
  <2>2. ASSUME NEW n \in Names
        PROVE  UserHolders'[n] = IF n = n0 THEN UserHolders[n] \ reviewRecordStore[n0].users
                                 ELSE UserHolders[n]
    BY <1>6, <2>1 DEF PurgeUsers, UserHolders, HoldersAmongUsers, InHand, RecordUsers
  <2>3. GroupHolders' = GroupHolders
    BY <1>6, <2>1 DEF PurgeUsers, GroupHolders, HoldersAmongGroups, InHand, RecordGroups
  <2>4. U'
    BY <1>6, <1>ug, <1>m, <2>2, DeleteIndexes DEF PurgeUsers
  <2> QED
    BY <1>6, <1>l, <1>ugp, <2>3, <2>4 DEF PurgeUsers
<1>7. CASE PurgeGroups
  <2>1. /\ request.name \in DOMAIN reviewRecordStore
        /\ step = "purgeGroups" /\ step' = "next"
    BY <1>7 DEF PurgeGroups, CycleNames
  <2>2. ASSUME NEW n \in Names
        PROVE  /\ RecordUsers(n)' = IF n = request.name THEN {} ELSE RecordUsers(n)
               /\ RecordGroups(n)' = IF n = request.name THEN {} ELSE RecordGroups(n)
    BY <1>7 DEF PurgeGroups, Without, Restrict, RecordUsers, RecordGroups
  <2>3. ASSUME NEW n \in Names
        PROVE  GroupHolders'[n] = IF n = request.name
                                  THEN GroupHolders[n] \ reviewRecordStore[request.name].groups
                                  ELSE GroupHolders[n]
    BY <2>1, <2>2 DEF GroupHolders, HoldersAmongGroups, InHand, RecordGroups
  <2>4. UserHolders' = UserHolders
    BY <2>1, <2>2 DEF UserHolders, HoldersAmongUsers, InHand
  <2>5. G'
    BY <1>7, <1>ug, <1>m, <2>3, DeleteIndexes DEF PurgeGroups
  <2> QED
    BY <1>7, <1>k, <1>ugp, <2>4, <2>5 DEF PurgeGroups
<1> QED
  BY <1>1, <1>2, <1>3, <1>4, <1>5, <1>6, <1>7 DEF Synchronize

\* The indexes invert the records at first, and after every step.
LEMMA IndexesInductive ==
  /\ Init => SubjectsIndexRecords
  /\ TypeOK /\ CycleNames /\ SubjectsIndexRecords /\ [Next]_vars => SubjectsIndexRecords'
<1>1. Init => SubjectsIndexRecords
  BY DEF Init, SubjectsIndexRecords, Indexes, NamesOf, HoldersAmongUsers, HoldersAmongGroups,
         InHand, RecordUsers, RecordGroups, EmptyMap
<1>2. TypeOK /\ CycleNames /\ SubjectsIndexRecords /\ [Next]_vars => SubjectsIndexRecords'
  <2>1. ASSUME SubjectsIndexRecords, UNCHANGED <<stores, step, request, review>>
        PROVE  SubjectsIndexRecords'
    BY <2>1 DEF SubjectsIndexRecords, Indexes, NamesOf, HoldersAmongUsers, HoldersAmongGroups,
                InHand, RecordUsers, RecordGroups, stores
  <2>2. ASSUME InformerEvent \/ UNCHANGED vars
        PROVE  UNCHANGED <<stores, step, request, review>>
    BY <2>2 DEF InformerEvent, vars, locals
  <2> QED
    BY <2>1, <2>2, IndexesStep DEF Next
<1> QED
  BY <1>1, <1>2

\* The indexes that the list handlers read hold a name for exactly the subjects
\* of its review record, in every state but for the name in hand
\* (common.go:239-243, 313-315): no subject is left listed without a record.
THEOREM IndexesFollowRecords == Spec => []SubjectsIndexRecords
BY IndexesInductive, TypeCorrect, CycleNamesInvariant, PTL DEF Spec

-----------------------------------------------------------------------------
(***************************************************************************)
(* Who loses a name.                                                       *)
(***************************************************************************)
\* Only subjects that a name is to be taken from lose it.
LEMMA LosersOfDelete ==
  ASSUME NEW S, NEW store, IsMap(store, S, SUBSET Names), NEW dropped, NEW name, NEW n
  PROVE  LET newStore == DeleteResourceFromSubjects(store, dropped, name)
         IN  /\ n # name => Losers(store, newStore, n) = {}
             /\ Losers(store, newStore, n) \subseteq dropped
<1> DEFINE newStore == DeleteResourceFromSubjects(store, dropped, name)
<1>1. ASSUME NEW s \in Losers(store, newStore, n)
      PROVE  s \in dropped /\ n = name
  <2>1. n \in NamesOf(store, s) /\ n \notin NamesOf(newStore, s)
    BY DEF Losers, NamesOf
  <2> QED
    BY <2>1, DeleteNames
<1> QED
  BY <1>1

\* Nobody loses a name by being given one.
LEMMA LosersOfAdd ==
  ASSUME NEW store, NEW added, NEW name, NEW n
  PROVE  Losers(store, AddSubjectsToNamespace(store, added, name), n) = {}
BY AddNames DEF Losers, NamesOf

\* Nobody loses a name in a step that leaves the index alone.
LEMMA LosersOfNone ==
  ASSUME NEW store, NEW n
  PROVE  Losers(store, store, n) = {}
BY DEF Losers, NamesOf

\* Only a finished review of a name, or a purge of it, takes it from a subject
\* (common.go:230-242, 312-315).
THEOREM KeptSubjects == Spec => KeptSubjectsStayListed
<1>1. TypeOK /\ CycleNames /\ [Next]_vars => [OnlyRefusedSubjectsLose]_vars
  <2> SUFFICES ASSUME TypeOK, CycleNames, Next
               PROVE  OnlyRefusedSubjectsLose
    BY DEF OnlyRefusedSubjectsLose
  <2> USE DEF OnlyRefusedSubjectsLose, Reviewing
  <2>m. /\ IsMap(userSubjectRecordStore, Users, SUBSET Names)
        /\ IsMap(groupSubjectRecordStore, Groups, SUBSET Names)
    BY DEF TypeOK, StoresOK
  <2>0. CASE UNCHANGED <<userSubjectRecordStore, groupSubjectRecordStore>>
    BY <2>0, LosersOfNone
  <2>1. CASE DropUsers
    <3>1. ASSUME NEW n \in Names
          PROVE  /\ n # request.name =>
                      Losers(userSubjectRecordStore, userSubjectRecordStore', n) = {}
                 /\ Losers(userSubjectRecordStore, userSubjectRecordStore', n)
                      \subseteq RecordUsers(request.name) \ review.users
                 /\ Losers(groupSubjectRecordStore, groupSubjectRecordStore', n) = {}
      <4>1. userSubjectRecordStore' = DeleteResourceFromSubjects(
               userSubjectRecordStore, RecordUsers(request.name) \ review.users, request.name)
            /\ groupSubjectRecordStore' = groupSubjectRecordStore
        BY <2>1 DEF DropUsers
      <4> QED
        BY <4>1, <2>m, LosersOfDelete, LosersOfNone
    <3> QED
      BY <2>1, <3>1 DEF DropUsers
  <2>2. CASE DropGroups
    <3>1. ASSUME NEW n \in Names
          PROVE  /\ n # request.name =>
                      Losers(groupSubjectRecordStore, groupSubjectRecordStore', n) = {}
                 /\ Losers(groupSubjectRecordStore, groupSubjectRecordStore', n)
                      \subseteq RecordGroups(request.name) \ review.groups
                 /\ Losers(userSubjectRecordStore, userSubjectRecordStore', n) = {}
      <4>1. groupSubjectRecordStore' = DeleteResourceFromSubjects(
               groupSubjectRecordStore, RecordGroups(request.name) \ review.groups, request.name)
            /\ userSubjectRecordStore' = userSubjectRecordStore
        BY <2>2 DEF DropGroups
      <4> QED
        BY <4>1, <2>m, LosersOfDelete, LosersOfNone
    <3> QED
      BY <2>2, <3>1 DEF DropGroups, CycleNames
  <2>3. CASE AddUsers
    BY <2>3, LosersOfAdd, LosersOfNone DEF AddUsers
  <2>4. CASE AddGroups
    BY <2>4, LosersOfAdd, LosersOfNone DEF AddGroups
  <2>5. ASSUME NEW n0 \in Names, PurgeUsers(n0)
        PROVE  OnlyRefusedSubjectsLose
    <3>1. ASSUME NEW n \in Names, n # n0
          PROVE  /\ Losers(userSubjectRecordStore, userSubjectRecordStore', n) = {}
                 /\ Losers(groupSubjectRecordStore, groupSubjectRecordStore', n) = {}
      <4>1. userSubjectRecordStore' = DeleteResourceFromSubjects(
               userSubjectRecordStore, reviewRecordStore[n0].users, n0)
            /\ groupSubjectRecordStore' = groupSubjectRecordStore
        BY <2>5 DEF PurgeUsers
      <4> QED
        BY <3>1, <4>1, <2>m, LosersOfDelete, LosersOfNone
    <3> QED
      BY <2>5, <3>1 DEF PurgeUsers
  <2>6. CASE PurgeGroups
    <3>1. ASSUME NEW n \in Names, n # request.name
          PROVE  /\ Losers(userSubjectRecordStore, userSubjectRecordStore', n) = {}
                 /\ Losers(groupSubjectRecordStore, groupSubjectRecordStore', n) = {}
      <4>1. groupSubjectRecordStore' = DeleteResourceFromSubjects(
               groupSubjectRecordStore, reviewRecordStore[request.name].groups, request.name)
            /\ userSubjectRecordStore' = userSubjectRecordStore
        BY <2>6 DEF PurgeGroups
      <4> QED
        BY <3>1, <4>1, <2>m, LosersOfDelete, LosersOfNone
    <3> QED
      BY <2>6, <3>1 DEF PurgeGroups, CycleNames
  <2>7. CASE InformerEvent
    BY <2>0, <2>7 DEF InformerEvent, stores
  <2>8. CASE Synchronize
    <3>1. CASE \/ StartSync \/ ListRoleBindings \/ \E b \in roleBindings : ReadRoleBinding(b)
               \/ \E req \in requests : SkipRequest(req) \/ StartReview(req)
               \/ step = "review" /\ \E b \in review.unread : EvaluateBinding(b)
               \/ Notify \/ StartPurge \/ StartAnnouncing \/ \E n \in gone : NotifyGone(n)
               \/ FinishSync
      BY <2>0, <3>1 DEF stores, StartSync, ListRoleBindings, ReadRoleBinding, SkipRequest,
                        StartReview, EvaluateBinding, Notify, StartPurge, StartAnnouncing,
                        NotifyGone, FinishSync
    <3> QED
      BY <2>1, <2>2, <2>3, <2>4, <2>5, <2>6, <2>8, <3>1 DEF Synchronize
  <2> QED
    BY <2>7, <2>8 DEF Next
<1> QED
  BY <1>1, TypeCorrect, CycleNamesInvariant, PTL DEF Spec, KeptSubjectsStayListed

-----------------------------------------------------------------------------
(***************************************************************************)
(* What equal versions are worth.  A version in a record, or in a request, *)
(* was given before the review that the record holds, or will hold, began: *)
(* an object that still has it has been reviewed as it is.                 *)
(***************************************************************************)
VersionsUpToNow(versions) == \A k \in DOMAIN versions : versions[k] <= clock

VersionsAreOld ==
  /\ \A b \in DOMAIN bindings : bindings[b].version \in 1..clock
  /\ \A r \in DOMAIN roles : roles[r].version \in 1..clock
  /\ \A b \in roleBindings : b.version <= clock
  /\ \A req \in requests : VersionsUpToNow(req.roleVersions) /\ VersionsUpToNow(req.bindingVersions)
  /\ step \in Reviewing =>
       VersionsUpToNow(request.roleVersions) /\ VersionsUpToNow(request.bindingVersions)
  /\ \A n \in DOMAIN reviewRecordStore :
       /\ VersionsUpToNow(reviewRecordStore[n].roleVersions)
       /\ VersionsUpToNow(reviewRecordStore[n].bindingVersions)

\* Versions given so far stay so.
LEMMA VersionsGrowOld ==
  ASSUME TypeOK, NEW S, NEW versions \in [S -> 0..MaxVersion], VersionsUpToNow(versions),
         clock' \in {clock, clock + 1}
  PROVE  VersionsUpToNow(versions)'
<1>1. clock \in Nat /\ \A k \in S : versions[k] \in Nat
  BY AuthCacheAssumption DEF TypeOK, InformersOK
<1> QED
  BY <1>1 DEF VersionsUpToNow

\* A write gives its object the next version and leaves the others as they are.
LEMMA SeenIsUnchanged ==
  ASSUME TypeOK, InformerEvent, NEW b \in DOMAIN bindings', bindings'[b].version <= clock,
         bindings'[b].role \in DOMAIN roles', roles'[bindings'[b].role].version <= clock
  PROVE  /\ b \in DOMAIN bindings /\ bindings'[b] = bindings[b]
         /\ bindings[b].role \in DOMAIN roles
         /\ roles'[bindings[b].role] = roles[bindings[b].role]
<1>c. clock \in Nat
  BY AuthCacheAssumption DEF TypeOK, InformersOK
<1>1. ASSUME NEW n \in Names, PutCluster(n) \/ RemoveCluster(n)
      PROVE  UNCHANGED <<roles, bindings>>
  BY <1>1 DEF PutCluster, RemoveCluster
<1>2. ASSUME NEW r \in Roles, RemoveRole(r) \/ \E rules \in RoleContents : PutRole(r, rules)
      PROVE  /\ UNCHANGED bindings
             /\ \A q \in DOMAIN roles' : \/ q \in DOMAIN roles /\ roles'[q] = roles[q]
                                        \/ roles'[q].version = clock + 1
  BY <1>2 DEF RemoveRole, PutRole, Assign, Without, Restrict
<1>3. ASSUME NEW c \in Bindings, \/ RemoveBinding(c)
                                 \/ \E r \in Roles, s \in SubjectSets : PutBinding(c, r, s)
      PROVE  /\ UNCHANGED roles
             /\ \A d \in DOMAIN bindings' : \/ d \in DOMAIN bindings /\ bindings'[d] = bindings[d]
                                           \/ bindings'[d].version = clock + 1
  BY <1>3 DEF RemoveBinding, PutBinding, Assign, Without, Restrict
<1> QED
  BY <1>c, <1>1, <1>2, <1>3 DEF InformerEvent

\* A write to an informer store makes no version in the cache unheard of.
LEMMA OldVersionsAfterEvent ==
  ASSUME TypeOK, VersionsAreOld, InformerEvent
  PROVE  VersionsAreOld'
<1>c. clock \in Nat
  BY AuthCacheAssumption DEF TypeOK, InformersOK
<1>k. clock' \in {clock, clock + 1}
  BY DEF InformerEvent, PutCluster, RemoveCluster, PutRole, RemoveRole, PutBinding, RemoveBinding
<1>u. UNCHANGED <<reviewRecordStore, roleBindings, requests, request, step>>
  BY DEF InformerEvent, stores, locals
<1>1. \A b \in DOMAIN bindings' : bindings'[b].version \in 1..clock'
  <2>1. ASSUME NEW c \in Bindings, \/ RemoveBinding(c)
                                   \/ \E r \in Roles, s \in SubjectSets : PutBinding(c, r, s)
        PROVE  \A b \in DOMAIN bindings' : bindings'[b].version \in 1..clock'
    BY <2>1, <1>c DEF RemoveBinding, PutBinding, Assign, Without, Restrict, VersionsAreOld
  <2>2. CASE UNCHANGED bindings
    BY <2>2, <1>c, <1>k DEF VersionsAreOld
  <2> QED
    BY <2>1, <2>2 DEF InformerEvent, PutCluster, RemoveCluster, PutRole, RemoveRole
<1>2. \A r \in DOMAIN roles' : roles'[r].version \in 1..clock'
  <2>1. ASSUME NEW r \in Roles, RemoveRole(r) \/ \E rules \in RoleContents : PutRole(r, rules)
        PROVE  \A q \in DOMAIN roles' : roles'[q].version \in 1..clock'
    BY <2>1, <1>c DEF RemoveRole, PutRole, Assign, Without, Restrict, VersionsAreOld
  <2>2. CASE UNCHANGED roles
    BY <2>2, <1>c, <1>k DEF VersionsAreOld
  <2> QED
    BY <2>1, <2>2 DEF InformerEvent, PutCluster, RemoveCluster, PutBinding, RemoveBinding
<1>3. \A b \in roleBindings' : b.version <= clock'
  BY <1>c, <1>k, <1>u DEF VersionsAreOld, TypeOK, LocalsOK, ListedBindings, Versions
<1>4. ASSUME NEW req \in ReviewRequests,
             VersionsUpToNow(req.roleVersions), VersionsUpToNow(req.bindingVersions)
      PROVE  VersionsUpToNow(req.roleVersions)' /\ VersionsUpToNow(req.bindingVersions)'
  BY <1>4, <1>k, VersionsGrowOld DEF ReviewRequests
<1>5. ASSUME NEW n \in DOMAIN reviewRecordStore
      PROVE  /\ VersionsUpToNow(reviewRecordStore[n].roleVersions)'
             /\ VersionsUpToNow(reviewRecordStore[n].bindingVersions)'
  <2>1. reviewRecordStore[n] \in ReviewRecords
    BY DEF TypeOK, StoresOK, IsMap
  <2>2. /\ VersionsUpToNow(reviewRecordStore[n].roleVersions)
        /\ VersionsUpToNow(reviewRecordStore[n].bindingVersions)
    BY DEF VersionsAreOld
  <2> QED
    BY <1>c, <1>k, <1>u, <2>1, <2>2 DEF ReviewRecords, VersionsUpToNow
<1>6. ASSUME NEW req \in requests'
      PROVE  VersionsUpToNow(req.roleVersions)' /\ VersionsUpToNow(req.bindingVersions)'
  BY <1>4, <1>u DEF VersionsAreOld, TypeOK, LocalsOK
<1>7. ASSUME step' \in Reviewing
      PROVE  VersionsUpToNow(request.roleVersions)' /\ VersionsUpToNow(request.bindingVersions)'
  <2>1. /\ request \in ReviewRequests
        /\ VersionsUpToNow(request.roleVersions) /\ VersionsUpToNow(request.bindingVersions)
    BY <1>7, <1>u DEF VersionsAreOld, TypeOK, LocalsOK, Reviewing
  <2> QED
    BY <1>c, <1>k, <1>u, <2>1 DEF ReviewRequests, VersionsUpToNow
<1> QED
  BY <1>1, <1>2, <1>3, <1>5, <1>6, <1>7, <1>u DEF VersionsAreOld

\* A map with one version that has been given, and one with none.
LEMMA VersionedUpToNow ==
  ASSUME TypeOK, NEW S, NEW x \in S, NEW v \in 0..MaxVersion, v <= clock
  PROVE  VersionsUpToNow(Versioned(S, x, v)) /\ VersionsUpToNow(Unversioned(S))
<1>1. clock \in Nat /\ v \in Nat
  BY AuthCacheAssumption DEF TypeOK, InformersOK
<1>2. DOMAIN Unversioned(S) = S /\ \A k \in S : Unversioned(S)[k] = 0
  BY DEF Unversioned
<1>3. DOMAIN Versioned(S, x, v) = S /\ \A k \in S : Versioned(S, x, v)[k] \in {0, v}
  BY <1>2 DEF Versioned
<1> QED
  BY <1>1, <1>2, <1>3 DEF VersionsUpToNow

\* A record of versions given so far, updated with versions given so far.
LEMMA ReviewRecordUpToNow ==
  ASSUME TypeOK, VersionsAreOld, step \in Reviewing, NEW users, NEW groups
  PROVE  LET record == ReviewRecord(request, LastKnown(request.name), users, groups)
         IN  VersionsUpToNow(record.roleVersions) /\ VersionsUpToNow(record.bindingVersions)
<1> DEFINE known == Known(LastKnown(request.name))
<1>c. clock \in Nat
  BY AuthCacheAssumption DEF TypeOK, InformersOK
<1>1. VersionsUpToNow(known.roleVersions) /\ VersionsUpToNow(known.bindingVersions)
  <2>1. CASE LastKnown(request.name) = None
    BY <1>c, <2>1 DEF Known, Unversioned, VersionsUpToNow
  <2>2. CASE LastKnown(request.name) # None
    BY <2>2 DEF Known, LastKnown, VersionsAreOld
  <2> QED
    BY <2>1, <2>2
<1>2. /\ request \in ReviewRequests
      /\ VersionsUpToNow(request.roleVersions) /\ VersionsUpToNow(request.bindingVersions)
  BY DEF VersionsAreOld, TypeOK, LocalsOK, Reviewing
<1>3. /\ known.roleVersions \in [Roles -> 0..MaxVersion]
      /\ known.bindingVersions \in [Bindings -> 0..MaxVersion]
  <2>1. CASE LastKnown(request.name) = None
    BY <2>1, UnversionedType DEF Known
  <2>2. CASE LastKnown(request.name) # None
    BY <2>2 DEF Known, LastKnown, TypeOK, StoresOK, IsMap, ReviewRecords
  <2> QED
    BY <2>1, <2>2
<1> QED
  BY <1>1, <1>2, <1>3 DEF ReviewRecord, Updated, VersionsUpToNow, ReviewRequests

\* A step of synchronize() takes its versions from the informers or from the cache.
LEMMA OldVersionsAfterStep ==
  ASSUME TypeOK, VersionsAreOld, Synchronize
  PROVE  VersionsAreOld'
<1> USE DEF VersionsAreOld, VersionsUpToNow
<1>c. clock \in Nat
  BY AuthCacheAssumption DEF TypeOK, InformersOK
<1>1. CASE StartSync
  BY <1>1, <1>c DEF StartSync, informers, stores, ListResources, Request, Unversioned
<1>2. CASE ListRoleBindings
  BY <1>2, <1>c DEF ListRoleBindings, informers, stores, ListBindings
<1>3. ASSUME NEW b \in roleBindings, ReadRoleBinding(b)
      PROVE  VersionsAreOld'
  <2>1. ASSUME b.role \in DOMAIN roles
        PROVE  /\ VersionsUpToNow(Versioned(Roles, b.role, roles[b.role].version))
               /\ VersionsUpToNow(Versioned(Bindings, b.uid, b.version))
    <3>1. b \in ListedBindings /\ roles[b.role].version \in 0..MaxVersion
      BY <2>1 DEF TypeOK, LocalsOK, InformersOK, IsMap, ClusterRoles, Versions
    <3>2. b.uid \in Bindings /\ b.role \in Roles /\ b.version \in 0..MaxVersion
      BY <3>1 DEF ListedBindings, Versions
    <3>3. b.version <= clock /\ roles[b.role].version <= clock
      BY <1>c, <2>1
    <3> QED
      BY <3>1, <3>2, <3>3, VersionedUpToNow
  <2>2. \A req \in requests' :
          VersionsUpToNow(req.roleVersions) /\ VersionsUpToNow(req.bindingVersions)
    BY <1>3, <2>1 DEF ReadRoleBinding, Request
  <2> QED
    BY <1>3, <2>2 DEF ReadRoleBinding, informers, stores, Between, Reviewing
<1>4. ASSUME NEW req \in requests, SkipRequest(req) \/ StartReview(req)
      PROVE  VersionsAreOld'
  BY <1>4 DEF SkipRequest, StartReview, informers, stores, Reviewing
<1>5. ASSUME NEW b \in review.unread, EvaluateBinding(b)
      PROVE  VersionsAreOld'
  BY <1>5 DEF EvaluateBinding, informers, stores
<1>6. CASE DropUsers \/ DropGroups \/ AddUsers
  BY <1>6 DEF DropUsers, DropGroups, AddUsers, informers, locals, Reviewing
<1>7. CASE AddGroups
  <2> DEFINE record == ReviewRecord(request, LastKnown(request.name), review.users, review.groups)
  <2>1. VersionsUpToNow(record.roleVersions) /\ VersionsUpToNow(record.bindingVersions)
    BY <1>7, ReviewRecordUpToNow DEF AddGroups, Reviewing
  <2> HIDE DEF record
  <2>2. reviewRecordStore' = Assign(reviewRecordStore, request.name, record)
    BY <1>7 DEF AddGroups, record
  <2> QED
    BY <1>7, <2>1, <2>2 DEF AddGroups, Assign, informers, locals, Reviewing
<1>8. CASE Notify \/ StartPurge \/ StartAnnouncing \/ FinishSync
  BY <1>8 DEF Notify, StartPurge, StartAnnouncing, FinishSync, informers, stores, locals, Reviewing
<1>9. ASSUME NEW n \in Names, PurgeUsers(n) \/ NotifyGone(n)
      PROVE  VersionsAreOld'
  BY <1>9, <1>c DEF PurgeUsers, NotifyGone, informers, stores, Reviewing, Request, Unversioned
<1>10. CASE PurgeGroups
  BY <1>10 DEF PurgeGroups, Without, Restrict, informers, Reviewing
<1> QED
  BY <1>1, <1>2, <1>3, <1>4, <1>5, <1>6, <1>7, <1>8, <1>9, <1>10
     DEF Synchronize, TypeOK, LocalsOK

\* The cache holds no version that has not been given at first, nor after a step.
LEMMA OldVersionsInductive ==
  (Init => VersionsAreOld) /\ (TypeOK /\ VersionsAreOld /\ [Next]_vars => VersionsAreOld')
<1>1. Init => VersionsAreOld
  BY DEF Init, VersionsAreOld, EmptyMap, Reviewing
<1>2. TypeOK /\ VersionsAreOld /\ [Next]_vars => VersionsAreOld'
  <2>1. ASSUME VersionsAreOld, UNCHANGED vars PROVE VersionsAreOld'
    BY <2>1 DEF vars, informers, stores, locals, VersionsAreOld, VersionsUpToNow
  <2> QED
    BY <2>1, OldVersionsAfterEvent, OldVersionsAfterStep DEF Next
<1> QED
  BY <1>1, <1>2

\* The cache never holds a version that has not been given yet.
LEMMA OldVersionsInvariant == Spec => []VersionsAreOld
BY OldVersionsInductive, TypeCorrect, PTL DEF Spec

\* The record that the review in hand will leave.
RecordInHand == ReviewRecord(request, LastKnown(request.name), review.users, review.groups)

\* A record that has seen b and its role as they are has what they grant.
Covers(record, n, b) ==
  HasSeen(record, b) /\ Grants(b, n) =>
    bindings[b].users \subseteq record.users /\ bindings[b].groups \subseteq record.groups

ListedBinding(b) ==
  [uid |-> b, version |-> bindings[b].version, role |-> bindings[b].role,
   users |-> bindings[b].users, groups |-> bindings[b].groups]

\* A review in progress has evaluated each binding it will claim to have seen,
\* or is still to.
ReviewCovers ==
  step \in Reviewing \ {"notify"} =>
    \A b \in DOMAIN bindings :
      ListedBinding(b) \in review.unread \/ Covers(RecordInHand, request.name, b)

\* A change of an informer store makes no record claim more than it covers.
LEMMA CoversAfterEvent ==
  ASSUME TypeOK, InformerEvent, NEW record \in ReviewRecords,
         VersionsUpToNow(record.roleVersions), VersionsUpToNow(record.bindingVersions),
         NEW n, NEW b \in DOMAIN bindings', HasSeen(record, b)', Grants(b, n)'
  PROVE  /\ b \in DOMAIN bindings /\ bindings'[b] = bindings[b]
         /\ HasSeen(record, b) /\ Grants(b, n)
<1>1. /\ bindings'[b].role \in DOMAIN roles'
      /\ record.roleVersions[bindings'[b].role] = roles'[bindings'[b].role].version
      /\ record.bindingVersions[b] = bindings'[b].version
  BY DEF HasSeen
<1>2. b \in Bindings /\ bindings'[b].role \in Roles
  <2>1. InformersOK'
    BY InformerEventType DEF TypeOK
  <2> QED
    BY <1>1, <2>1 DEF InformersOK, IsMap
<1>3. bindings'[b].version <= clock /\ roles'[bindings'[b].role].version <= clock
  BY <1>1, <1>2 DEF VersionsUpToNow, ReviewRecords
<1>4. /\ b \in DOMAIN bindings /\ bindings'[b] = bindings[b]
      /\ bindings[b].role \in DOMAIN roles
      /\ roles'[bindings[b].role] = roles[bindings[b].role]
  BY <1>1, <1>3, SeenIsUnchanged
<1> QED
  BY <1>1, <1>4 DEF HasSeen, Grants, RulesFromRoleRef

\* The invariant, over the records and the review in progress.
SeenIsGranted == CurrentVersionsMeanCurrentGrants /\ ReviewCovers

\* Versions that a write makes current are in no record, so none is found wanting.
LEMMA SeenIsGrantedAfterEvent ==
  ASSUME TypeOK, VersionsAreOld, SeenIsGranted, InformerEvent
  PROVE  SeenIsGranted'
<1>u. UNCHANGED <<reviewRecordStore, request, review, step>>
  BY DEF InformerEvent, stores, locals
<1>1. CurrentVersionsMeanCurrentGrants'
  <2> SUFFICES ASSUME NEW n \in DOMAIN reviewRecordStore', NEW b \in DOMAIN bindings',
                      HasSeen(reviewRecordStore[n], b)', Grants(b, n)'
               PROVE  /\ bindings'[b].users \subseteq reviewRecordStore'[n].users
                      /\ bindings'[b].groups \subseteq reviewRecordStore'[n].groups
    BY DEF CurrentVersionsMeanCurrentGrants
  <2>1. PICK record : record = reviewRecordStore[n]
    OBVIOUS
  <2>2. /\ record \in ReviewRecords
        /\ VersionsUpToNow(record.roleVersions) /\ VersionsUpToNow(record.bindingVersions)
    BY <1>u, <2>1 DEF TypeOK, StoresOK, IsMap, VersionsAreOld
  <2>3. HasSeen(record, b)'
    BY <1>u, <2>1 DEF HasSeen
  <2>4. /\ b \in DOMAIN bindings /\ bindings'[b] = bindings[b]
        /\ HasSeen(record, b) /\ Grants(b, n)
    BY <2>2, <2>3, CoversAfterEvent
  <2> QED
    BY <1>u, <2>1, <2>4 DEF SeenIsGranted, CurrentVersionsMeanCurrentGrants
<1>2. ReviewCovers'
  <2> SUFFICES ASSUME step \in Reviewing \ {"notify"}, NEW b \in DOMAIN bindings',
                      HasSeen(RecordInHand, b)', Grants(b, request.name)',
                      ListedBinding(b)' \notin review.unread
               PROVE  /\ bindings'[b].users \subseteq RecordInHand.users
                      /\ bindings'[b].groups \subseteq RecordInHand.groups
    <3>1. RecordInHand' = RecordInHand
      BY <1>u DEF RecordInHand, ReviewRecord, Known, LastKnown
    <3> QED
      BY <1>u, <3>1 DEF ReviewCovers, Covers
  <2>1. PICK record, n : record = RecordInHand /\ n = request.name
    OBVIOUS
  <2>2. record \in ReviewRecords
    <3>1. /\ request \in ReviewRequests /\ StoresOK
          /\ review.users \in SUBSET Users /\ review.groups \in SUBSET Groups
      BY DEF TypeOK, LocalsOK, Reviewing, Reviews
    <3> QED
      BY <2>1, <3>1, ReviewRecordType DEF RecordInHand
  <2>3. VersionsUpToNow(record.roleVersions) /\ VersionsUpToNow(record.bindingVersions)
    BY <2>1, ReviewRecordUpToNow DEF RecordInHand
  <2>4. HasSeen(record, b)' /\ Grants(b, n)'
    <3>1. RecordInHand' = record
      BY <1>u, <2>1 DEF RecordInHand, ReviewRecord, Known, LastKnown
    <3> QED
      BY <1>u, <2>1, <3>1 DEF HasSeen, Grants
  <2>5. /\ b \in DOMAIN bindings /\ bindings'[b] = bindings[b]
        /\ HasSeen(record, b) /\ Grants(b, n)
    BY <2>2, <2>3, <2>4, CoversAfterEvent
  <2>6. ListedBinding(b)' = ListedBinding(b)
    BY <2>5 DEF ListedBinding
  <2> QED
    BY <2>1, <2>5, <2>6 DEF SeenIsGranted, ReviewCovers, Covers
<1> QED
  BY <1>1, <1>2 DEF SeenIsGranted

\* A step that leaves the informers and the records alone, and no review in hand.
LEMMA SeenIsGrantedUndisturbed ==
  ASSUME SeenIsGranted, UNCHANGED <<informers, reviewRecordStore>>,
         step' \notin Reviewing \ {"notify"}
  PROVE  SeenIsGranted'
BY DEF SeenIsGranted, CurrentVersionsMeanCurrentGrants, ReviewCovers, HasSeen, Grants,
       RulesFromRoleRef, informers

\* A step of synchronize() records a version only with what it grants.
LEMMA SeenIsGrantedAfterStep ==
  ASSUME TypeOK, CycleNames, SeenIsGranted, Synchronize
  PROVE  SeenIsGranted'
<1> USE DEF Reviewing
<1>1. ASSUME \/ StartSync \/ ListRoleBindings \/ \E b \in roleBindings : ReadRoleBinding(b)
             \/ \E req \in requests : SkipRequest(req)
             \/ Notify \/ StartPurge \/ \E n \in Names : PurgeUsers(n)
             \/ StartAnnouncing \/ FinishSync \/ \E n \in gone : NotifyGone(n)
      PROVE  SeenIsGranted'
  <2>1. UNCHANGED <<informers, reviewRecordStore>> /\ step' \notin Reviewing \ {"notify"}
    BY <1>1 DEF StartSync, ListRoleBindings, ReadRoleBinding, SkipRequest, Notify, StartPurge,
                PurgeUsers, StartAnnouncing, NotifyGone, FinishSync, CycleNames, Between,
                stores, locals
  <2> QED
    BY <2>1, SeenIsGrantedUndisturbed
<1>2. ASSUME UNCHANGED <<informers, reviewRecordStore>>
      PROVE  CurrentVersionsMeanCurrentGrants'
  BY <1>2 DEF SeenIsGranted, CurrentVersionsMeanCurrentGrants, HasSeen, Grants,
              RulesFromRoleRef, informers
<1>3. ASSUME NEW req \in requests, StartReview(req)
      PROVE  SeenIsGranted'
  <2>1. ReviewCovers'
    BY <1>3 DEF StartReview, ReviewCovers, ListBindings, ListedBinding, informers
  <2> QED
    BY <1>2, <1>3, <2>1 DEF SeenIsGranted, StartReview, stores
<1>4. ASSUME NEW x \in review.unread, EvaluateBinding(x)
      PROVE  SeenIsGranted'
  <2>1. /\ UNCHANGED <<informers, reviewRecordStore, request>> /\ step' = "review"
        /\ review'.unread = review.unread \ {x}
        /\ review.users \subseteq review'.users /\ review.groups \subseteq review'.groups
        /\ RulesAllow(GetRequest(APIGroup, Resource, request.name), RulesFromRoleRef(x.role))
             => x.users \subseteq review'.users /\ x.groups \subseteq review'.groups
    BY <1>4 DEF EvaluateBinding, stores
  <2>2. /\ RecordInHand.users = review.users /\ RecordInHand.groups = review.groups
        /\ RecordInHand'.users = review'.users /\ RecordInHand'.groups = review'.groups
        /\ RecordInHand'.roleVersions = RecordInHand.roleVersions
        /\ RecordInHand'.bindingVersions = RecordInHand.bindingVersions
    BY <2>1 DEF RecordInHand, ReviewRecord, Known, LastKnown
  <2>3. ASSUME NEW b \in DOMAIN bindings, HasSeen(RecordInHand, b)', Grants(b, request.name)'
        PROVE  HasSeen(RecordInHand, b) /\ Grants(b, request.name)
    BY <2>1, <2>2, <2>3 DEF HasSeen, Grants, RulesFromRoleRef, informers
  <2>4. ASSUME NEW b \in DOMAIN bindings, HasSeen(RecordInHand, b), Grants(b, request.name),
               ListedBinding(b) \notin review'.unread
        PROVE  bindings[b].users \subseteq review'.users /\ bindings[b].groups \subseteq review'.groups
    <3>1. CASE ListedBinding(b) = x
      BY <2>1, <2>4, <3>1 DEF ListedBinding, Grants
    <3>2. CASE ListedBinding(b) # x
      BY <1>4, <2>1, <2>2, <2>4, <3>2 DEF SeenIsGranted, ReviewCovers, Covers, EvaluateBinding
    <3> QED
      BY <3>1, <3>2
  <2>5. bindings' = bindings /\ \A b \in DOMAIN bindings : ListedBinding(b)' = ListedBinding(b)
    BY <2>1 DEF informers, ListedBinding
  <2>6. ReviewCovers'
    BY <2>2, <2>3, <2>4, <2>5 DEF ReviewCovers, Covers
  <2> QED
    BY <1>2, <2>1, <2>6 DEF SeenIsGranted
<1>5. CASE DropUsers \/ DropGroups \/ AddUsers
  <2>1. UNCHANGED <<informers, reviewRecordStore, request, review>>
        /\ step \in Reviewing \ {"notify"}
    BY <1>5 DEF DropUsers, DropGroups, AddUsers, locals
  <2>2. ReviewCovers'
    BY <2>1 DEF SeenIsGranted, ReviewCovers, Covers, RecordInHand, ReviewRecord, Known, LastKnown,
                ListedBinding, HasSeen, Grants, RulesFromRoleRef, informers
  <2> QED
    BY <1>2, <2>1, <2>2 DEF SeenIsGranted
<1>6. CASE AddGroups
  <2>1. /\ UNCHANGED informers /\ step = "addGroups" /\ step' = "notify"
        /\ reviewRecordStore' = Assign(reviewRecordStore, request.name, RecordInHand)
    BY <1>6 DEF AddGroups, RecordInHand
  <2>2. ASSUME NEW b \in DOMAIN bindings, HasSeen(RecordInHand, b), Grants(b, request.name)
        PROVE  /\ bindings[b].users \subseteq RecordInHand.users
               /\ bindings[b].groups \subseteq RecordInHand.groups
    BY <2>1, <2>2 DEF SeenIsGranted, ReviewCovers, Covers, CycleNames
  <2>3. ASSUME NEW n \in DOMAIN reviewRecordStore', NEW b \in DOMAIN bindings,
               HasSeen(reviewRecordStore'[n], b), Grants(b, n)
        PROVE  /\ bindings[b].users \subseteq reviewRecordStore'[n].users
               /\ bindings[b].groups \subseteq reviewRecordStore'[n].groups
    <3>1. CASE n = request.name
      BY <2>1, <2>2, <2>3, <3>1 DEF Assign
    <3>2. CASE n # request.name
      BY <2>1, <2>3, <3>2 DEF Assign, SeenIsGranted, CurrentVersionsMeanCurrentGrants
    <3> QED
      BY <3>1, <3>2
  <2>4. CurrentVersionsMeanCurrentGrants'
    BY <2>1, <2>3 DEF CurrentVersionsMeanCurrentGrants, HasSeen, Grants, RulesFromRoleRef, informers
  <2> QED
    BY <2>1, <2>4 DEF SeenIsGranted, ReviewCovers
<1>7. CASE PurgeGroups
  <2>1. /\ UNCHANGED informers /\ step' = "next"
        /\ reviewRecordStore' = Without(reviewRecordStore, request.name)
    BY <1>7 DEF PurgeGroups
  <2>2. CurrentVersionsMeanCurrentGrants'
    BY <2>1 DEF SeenIsGranted, CurrentVersionsMeanCurrentGrants, HasSeen, Grants,
                RulesFromRoleRef, informers, Without, Restrict
  <2> QED
    BY <2>1, <2>2 DEF SeenIsGranted, ReviewCovers
<1>8. CASE \E req \in requests : SkipRequest(req) \/ StartReview(req)
  BY <1>1, <1>3, <1>8
<1>9. CASE step = "review" /\ \E b \in review.unread : EvaluateBinding(b)
  BY <1>4, <1>9
<1> QED
  BY <1>1, <1>5, <1>6, <1>7, <1>8, <1>9 DEF Synchronize

\* Records and reviews cover the versions they have seen at first, and after every step.
LEMMA SeenIsGrantedInductive ==
  /\ Init => SeenIsGranted
  /\ TypeOK /\ CycleNames /\ VersionsAreOld /\ SeenIsGranted /\ [Next]_vars => SeenIsGranted'
<1>1. Init => SeenIsGranted
  BY DEF Init, SeenIsGranted, CurrentVersionsMeanCurrentGrants, ReviewCovers, EmptyMap, Reviewing
<1>2. TypeOK /\ CycleNames /\ VersionsAreOld /\ SeenIsGranted /\ [Next]_vars => SeenIsGranted'
  <2>1. ASSUME SeenIsGranted, UNCHANGED vars PROVE SeenIsGranted'
    BY <2>1 DEF vars, informers, stores, locals, SeenIsGranted, CurrentVersionsMeanCurrentGrants,
                ReviewCovers, Covers, RecordInHand, ReviewRecord, Known, LastKnown, ListedBinding,
                HasSeen, Grants, RulesFromRoleRef
  <2> QED
    BY <2>1, SeenIsGrantedAfterEvent, SeenIsGrantedAfterStep DEF Next
<1> QED
  BY <1>1, <1>2

\* skipReview may take equal versions for an answer (common.go:446-460): a
\* record that has the current version of a binding and of its role holds the
\* subjects that they grant its name to.
THEOREM SkipReviewIsSound == Spec => []CurrentVersionsMeanCurrentGrants
<1>1. SeenIsGranted => CurrentVersionsMeanCurrentGrants
  BY DEF SeenIsGranted
<1> QED
  BY <1>1, SeenIsGrantedInductive, TypeCorrect, CycleNamesInvariant, OldVersionsInvariant, PTL
     DEF Spec

-----------------------------------------------------------------------------
(***************************************************************************)
(* All of it together, for the compositions that AuthCache is a part of:   *)
(* their steps are steps of the cache or leave it alone, whatever their    *)
(* fairness.                                                               *)
(***************************************************************************)
CacheInv == TypeOK /\ CycleNames /\ SubjectsIndexRecords /\ VersionsAreOld /\ SeenIsGranted

\* The invariant of the cache holds at first, and every step keeps it.
LEMMA CacheInductive == (Init => CacheInv) /\ (CacheInv /\ [Next]_vars => CacheInv')
BY TypeInductive, CycleNamesInductive, IndexesInductive, OldVersionsInductive,
   SeenIsGrantedInductive DEF CacheInv

-----------------------------------------------------------------------------
(***************************************************************************)
(* The cache implements the review feed.                                   *)
(***************************************************************************)
FeedUnchanged == UNCHANGED <<Access, NamesToAnswerFor, Note>>

\* A change of an informer store is none of the watchers' business.
LEMMA EventIsSilent ==
  ASSUME InformerEvent \/ UNCHANGED vars
  PROVE  FeedUnchanged
BY DEF FeedUnchanged, InformerEvent, vars, stores, locals, Access, NamesToAnswerFor, Note

\* Every step of synchronize() is a step of the feed or none.
LEMMA StepImplementsFeed ==
  ASSUME TypeOK, CycleNames, Synchronize
  PROVE  Feed!FeedNext \/ FeedUnchanged
<1> USE DEF Reviewing
<1>1. CASE \/ StartSync \/ ListRoleBindings \/ \E b \in roleBindings : ReadRoleBinding(b)
           \/ \E req \in requests : SkipRequest(req) \/ StartReview(req)
           \/ step = "review" /\ \E b \in review.unread : EvaluateBinding(b)
           \/ DropUsers \/ DropGroups \/ AddUsers
           \/ StartPurge \/ \E n \in Names : PurgeUsers(n)
  <2>1. UNCHANGED <<reviewRecordStore, allKnownNames>>
    BY <1>1 DEF StartSync, ListRoleBindings, ReadRoleBinding, SkipRequest, StartReview,
                EvaluateBinding, DropUsers, DropGroups, AddUsers, StartPurge, PurgeUsers, stores
  <2>2. /\ phase # "announce" /\ phase' # "announce"
        /\ step # "notify" /\ step' # "notify"
    BY <1>1 DEF StartSync, ListRoleBindings, ReadRoleBinding, SkipRequest, StartReview,
                EvaluateBinding, DropUsers, DropGroups, AddUsers, StartPurge, PurgeUsers,
                Between, CycleNames, locals
  <2> QED
    BY <2>1, <2>2 DEF FeedUnchanged, Access, NamesToAnswerFor, Note
<1>2. CASE StartAnnouncing
  <2>1. /\ UNCHANGED <<reviewRecordStore, allKnownNames, newKnownNames, step>>
        /\ phase = "purge" /\ phase' = "announce" /\ step = "next"
        /\ gone' = allKnownNames \ newKnownNames
    BY <1>2 DEF StartAnnouncing, stores, Between
  <2>2. NamesToAnswerFor' = NamesToAnswerFor
    BY <2>1 DEF NamesToAnswerFor
  <2> QED
    BY <2>1, <2>2 DEF FeedUnchanged, Access, Note
<1>3. CASE AddGroups
  <2>1. /\ request.name \in Names
        /\ review.users \in SUBSET Users /\ review.groups \in SUBSET Groups
        /\ SuperUser \in review.users /\ MastersGroup \in review.groups
        /\ step = "addGroups" /\ step' = "notify" /\ phase # "announce"
    BY <1>3 DEF AddGroups, TypeOK, LocalsOK, ReviewRequests, Reviews, CycleNames
  <2>2. Access' = Assign(Access, request.name, [users |-> review.users, groups |-> review.groups])
    BY <1>3 DEF AddGroups, Access, Assign, ReviewRecord
  <2>3. Note = None /\ Note' = [name |-> request.name, users |-> review.users,
                               groups |-> review.groups]
    BY <1>3, <2>1 DEF AddGroups, Note, locals
  <2>4. NamesToAnswerFor' = NamesToAnswerFor
    BY <1>3, <2>1 DEF AddGroups, NamesToAnswerFor, locals
  <2>5. Feed!Review(request.name, review.users, review.groups)
    BY <2>1, <2>2, <2>3, <2>4 DEF Feed!Review, Feed!Assign, Assign
  <2> QED
    BY <2>1, <2>5 DEF Feed!FeedNext
<1>4. CASE Notify
  <2>1. Note # None
    BY <1>4, AuthCacheAssumption DEF Notify, Note, TypeOK, LocalsOK, ReviewRequests, Reviews
  <2>2. Note' = None
    BY <1>4 DEF Notify, Note
  <2>3. Access' = Access /\ NamesToAnswerFor' = NamesToAnswerFor
    BY <1>4 DEF Notify, Access, NamesToAnswerFor, stores
  <2> QED
    BY <2>1, <2>2, <2>3 DEF Feed!FeedNext, Feed!Deliver
<1>5. CASE PurgeGroups
  <2>1. /\ request.name \in Names /\ request.name \in DOMAIN reviewRecordStore
        /\ step = "purgeGroups" /\ step' = "next" /\ phase = "purge" /\ phase' = "purge"
        /\ reviewRecordStore' = Without(reviewRecordStore, request.name)
    BY <1>5 DEF PurgeGroups, CycleNames, TypeOK, LocalsOK, ReviewRequests
  <2>2. Access' = Without(Access, request.name) /\ request.name \in DOMAIN Access
    BY <2>1 DEF Access, Without, Restrict
  <2>3. Note = None /\ Note' = None /\ NamesToAnswerFor' = NamesToAnswerFor
    BY <1>5, <2>1 DEF PurgeGroups, Note, NamesToAnswerFor
  <2>4. Feed!Forget(request.name)
    BY <2>2, <2>3 DEF Feed!Forget, Feed!Without, Feed!Restrict, Without, Restrict
  <2> QED
    BY <2>1, <2>4 DEF Feed!FeedNext
<1>6. ASSUME NEW n \in gone, NotifyGone(n)
      PROVE  Feed!FeedNext
  <2>1. /\ n \in Names /\ phase = "announce" /\ phase' = "announce"
        /\ step = "next" /\ step' = "notify" /\ n \notin newKnownNames
        /\ newKnownNames = DOMAIN reviewRecordStore
        /\ UNCHANGED <<reviewRecordStore, allKnownNames, newKnownNames>>
        /\ gone' = gone \ {n}
    BY <1>6 DEF NotifyGone, CycleNames, Between, TypeOK, LocalsOK, stores
  <2>2. n \in NamesToAnswerFor \ DOMAIN Access
    BY <2>1 DEF NamesToAnswerFor, Access
  <2>3. NamesToAnswerFor' = NamesToAnswerFor \ {n} /\ Access' = Access
    BY <2>1 DEF NamesToAnswerFor, Access
  <2>4. Note = None /\ Note' = [name |-> n, users |-> {}, groups |-> {}]
    BY <1>6, <2>1 DEF NotifyGone, Note, Request
  <2>5. Feed!AnnounceGone(n)
    BY <2>2, <2>3, <2>4 DEF Feed!AnnounceGone
  <2> QED
    BY <2>1, <2>5 DEF Feed!FeedNext
<1>7. CASE FinishSync
  <2>1. /\ phase = "announce" /\ phase' = "idle" /\ step = "next" /\ step' = "next"
        /\ gone = {} /\ newKnownNames = DOMAIN reviewRecordStore
        /\ allKnownNames' = newKnownNames /\ UNCHANGED reviewRecordStore
    BY <1>7 DEF FinishSync, CycleNames, Between, stores
  <2>2. NamesToAnswerFor \subseteq DOMAIN Access
    BY <2>1 DEF NamesToAnswerFor, Access
  <2>3. NamesToAnswerFor' = DOMAIN Access /\ Access' = Access
    BY <2>1 DEF NamesToAnswerFor, Access
  <2>4. Note = None /\ Note' = None
    BY <2>1 DEF Note
  <2> QED
    BY <2>2, <2>3, <2>4 DEF Feed!FeedNext, Feed!Learn
<1> QED
  BY <1>1, <1>2, <1>3, <1>4, <1>5, <1>6, <1>7 DEF Synchronize

\* Whatever the informers do, synchronize() records and tells of one review at a
\* time, and announces each name of the last cycle that is gone before the cycle
\* ends (common.go:213-246, 263-268, 307-322).
THEOREM CacheImplementsFeed == Spec => ImplementsReviewFeed
<1>1. Init => Feed!FeedInit
  BY DEF Init, Feed!FeedInit, Access, NamesToAnswerFor, Note, EmptyMap, Feed!EmptyMap
<1>2. TypeOK /\ CycleNames /\ [Next]_vars => [Feed!FeedNext]_(Feed!feed)
  BY EventIsSilent, StepImplementsFeed DEF Next, Feed!feed, FeedUnchanged
<1> QED
  BY <1>1, <1>2, TypeCorrect, CycleNamesInvariant, PTL
     DEF Spec, ImplementsReviewFeed, Feed!FeedSpec
=============================================================================
