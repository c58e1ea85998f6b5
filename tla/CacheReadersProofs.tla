-------------------------- MODULE CacheReadersProofs --------------------------
(***************************************************************************)
(* Theorems about CacheReaders, for every value of its constants: what a   *)
(* list request finds of the grants that hold.                             *)
(*                                                                         *)
(* The argument follows a grant through one cycle.  In the loop over the   *)
(* resources its name is reviewed, or has a record already; in the loop    *)
(* over the bindings its own binding is still to be looked at unless the   *)
(* record has it; and no purge takes a name that the cycle listed.         *)
(***************************************************************************)
EXTENDS CacheReaders, AuthCacheProofs

-----------------------------------------------------------------------------
(***************************************************************************)
(* The steps of the composition.                                           *)
(***************************************************************************)

\* The cache beside its readers is the cache.
LEMMA ReadersRunTheCache == ReadersSpec => Init /\ [][Next]_vars
<1>1. ReadersInit => Init
  BY DEF ReadersInit
<1>2. [ReadersNext]_readerVars => [Next]_vars
  BY DEF ReadersNext, readerVars, Meanwhile, Reader, Next
<1> QED
  BY <1>1, <1>2, PTL DEF ReadersSpec

\* What is known of the cache by itself holds beside its readers.
LEMMA CacheInvBesideReaders == ReadersSpec => []CacheInv
BY ReadersRunTheCache, CacheInductive, PTL

\* The phases and names of a cycle, as far as grants depend on them.
LEMMA PhaseSteps ==
  ASSUME InformerEvent \/ Synchronize
  PROVE  \/ StartSync
         \/ FinishSync
         \/ /\ newKnownNames' = newKnownNames
            /\ phase' = "idle" <=> phase = "idle"
            /\ phase' = "resources" => phase = "resources"
BY DEF InformerEvent, Synchronize, StartSync, FinishSync, ListRoleBindings, ReadRoleBinding,
       SkipRequest, StartReview, EvaluateBinding, DropUsers, DropGroups, AddUsers, AddGroups,
       Notify, StartPurge, PurgeUsers, PurgeGroups, StartAnnouncing, NotifyGone, locals

-----------------------------------------------------------------------------
(***************************************************************************)
(* Grants.                                                                 *)
(***************************************************************************)
Direct(grants) == {g \in grants : g.by # None}

\* The binding, review or record x has the subject s.
Has(x, s) == IF s.kind = "user" THEN s.of \in x.users ELSE s.of \in x.groups

\* A grant that holds is of a listed resource.
LEMMA HeldName ==
  ASSUME NEW g \in Holding
  PROVE  g.name \in DOMAIN clusters
BY DEF Holding, AnyGrant, GrantsNow, GrantsOf

\* A grant by one binding, to one subject that the caller is.
LEMMA DirectGrant ==
  ASSUME InformersOK, NEW g \in Holding, g.by # None
  PROVE  /\ g.by \in DOMAIN bindings /\ g.by \in Bindings
         /\ g.name \in DOMAIN clusters /\ g.name \in Names
         /\ Grants(g.by, g.name)
         /\ bindings[g.by].role \in DOMAIN roles
         /\ Has(bindings[g.by], g.as)
         /\ \/ g.as.kind = "user" /\ g.as.of = Caller
            \/ g.as.kind = "group" /\ g.as.of \in CallerGroups
<1>1. g \in GrantsNow
  BY DEF Holding, AnyGrant
<1>2. PICK b \in DOMAIN bindings, n \in DOMAIN clusters : g \in GrantsOf(b, n)
  BY <1>1 DEF GrantsNow
<1>3. /\ Grants(b, n)
      /\ \E s \in CallerIn(b) : g = [name |-> n, by |-> b, as |-> s]
  BY <1>2 DEF GrantsOf
<1>4. g.name = n /\ g.by = b /\ g.as \in CallerIn(b)
  BY <1>3
<1>5. /\ Has(bindings[b], g.as)
      /\ \/ g.as.kind = "user" /\ g.as.of = Caller
         \/ g.as.kind = "group" /\ g.as.of \in CallerGroups
  BY <1>4 DEF CallerIn, Has
<1>6. bindings[b].role \in DOMAIN roles
  BY <1>3 DEF Grants, RulesFromRoleRef, RulesAllow
<1> QED
  BY <1>2, <1>3, <1>4, <1>5, <1>6 DEF InformersOK, IsMap

DirectGrantsHold ==
  InformersOK =>
    \A g \in Direct(Holding) :
      /\ g.by \in DOMAIN bindings /\ g.by \in Bindings
      /\ g.name \in DOMAIN clusters /\ g.name \in Names
      /\ bindings[g.by].role \in DOMAIN roles

\* What holds of grants in every state holds of them in the next one.
LEMMA DirectGrantsHoldNext == DirectGrantsHold'
<1>1. DirectGrantsHold
  BY DirectGrant DEF DirectGrantsHold, Direct
<1> QED
  BY <1>1, PTL

\* A grant that holds after a step is by a binding, and of a resource, that are there.
LEMMA DirectGrantNext ==
  ASSUME InformersOK', NEW g, g \in Holding', g.by # None
  PROVE  /\ g.by \in DOMAIN bindings' /\ g.by \in Bindings
         /\ g.name \in DOMAIN clusters' /\ g.name \in Names
         /\ bindings'[g.by].role \in DOMAIN roles'
BY DirectGrantsHoldNext DEF DirectGrantsHold, Direct

\* The role of a binding does not change while the binding exists.
LEMMA RoleOfBindingStays ==
  ASSUME InformerEvent \/ Synchronize, NEW b \in DOMAIN bindings, b \in DOMAIN bindings'
  PROVE  bindings'[b].role = bindings[b].role
<1>1. CASE InformerEvent
  <2>1. ASSUME NEW c \in Bindings, RemoveBinding(c)
        PROVE  bindings'[b].role = bindings[b].role
    BY <2>1 DEF RemoveBinding, Without, Restrict
  <2>2. ASSUME NEW c \in Bindings, NEW r \in Roles, NEW s \in SubjectSets, PutBinding(c, r, s)
        PROVE  bindings'[b].role = bindings[b].role
    BY <2>2 DEF PutBinding, Assign
  <2>3. CASE UNCHANGED bindings
    BY <2>3
  <2> QED
    BY <1>1, <2>1, <2>2, <2>3
       DEF InformerEvent, PutCluster, RemoveCluster, PutRole, RemoveRole
<1>2. CASE Synchronize
  BY <1>2 DEF informers, Synchronize, StartSync, FinishSync, ListRoleBindings, ReadRoleBinding,
       SkipRequest, StartReview, EvaluateBinding, DropUsers, DropGroups, AddUsers, AddGroups,
       Notify, StartPurge, PurgeUsers, PurgeGroups, StartAnnouncing, NotifyGone
<1> QED
  BY <1>1, <1>2

-----------------------------------------------------------------------------
(***************************************************************************)
(* The history.                                                            *)
(***************************************************************************)
HistoryOK ==
  /\ lasting \subseteq Holding /\ established \subseteq Holding
  /\ phase = "idle" => lasting \subseteq established
  /\ phase # "idle" => established \subseteq lasting
  /\ phase # "idle" => \A g \in lasting : g.name \in newKnownNames

\* Grants that have lasted a cycle are established, and are of names it listed.
LEMMA HistoryStep ==
  ASSUME HistoryOK, InformerEvent \/ Synchronize, Remember
  PROVE  HistoryOK'
<1> USE DEF HistoryOK, Remember
<1>1. lasting' \subseteq Holding' /\ established' \subseteq Holding'
  OBVIOUS
<1>2. \A g \in lasting' : g.name \in DOMAIN clusters'
  <2>1. \A g \in Holding' : g.name \in DOMAIN clusters'
    BY DEF Holding, AnyGrant, GrantsNow, GrantsOf
  <2> QED
    BY <1>1, <2>1
<1>3. CASE StartSync
  <2>1. /\ phase = "idle" /\ phase' = "resources" /\ clusters' = clusters
        /\ newKnownNames' = {req.name : req \in ListResources}
    BY <1>3 DEF StartSync, informers
  <2>2. ASSUME NEW n \in DOMAIN clusters
        PROVE  n \in newKnownNames'
    <3> DEFINE req == Request(n, clusters[n], Unversioned(Roles), Unversioned(Bindings))
    <3>1. req \in ListResources
      BY DEF ListResources
    <3>2. req.name = n
      BY DEF Request
    <3> QED
      BY <2>1, <3>1, <3>2
  <2> QED
    BY <1>1, <1>2, <2>1, <2>2
<1>4. CASE FinishSync
  BY <1>1, <1>4 DEF FinishSync
<1>5. CASE /\ newKnownNames' = newKnownNames
           /\ phase' = "idle" <=> phase = "idle"
           /\ phase' = "resources" => phase = "resources"
  BY <1>1, <1>5
<1> QED
  BY <1>3, <1>4, <1>5, PhaseSteps

\* A grant in the history was in it before, unless a cycle begins.
LEMMA LastingBefore ==
  ASSUME HistoryOK, InformerEvent \/ Synchronize, Remember, ~StartSync, NEW g \in lasting'
  PROVE  g \in lasting /\ g \in Holding /\ g \in Holding'
BY PhaseSteps DEF HistoryOK, Remember, FinishSync

-----------------------------------------------------------------------------
(***************************************************************************)
(* Reviews.  A review under way has found each lasting grant of its name,  *)
(* or still has the binding to evaluate: it was listed when the review     *)
(* began, and the grant held then and holds when the role is read.         *)
(***************************************************************************)
UnderReview(n) == step \in Reviewing \ {"notify"} /\ request.name = n

\* The binding of g as some List returned it, with the role it still has.
Lists(l, g) == l.uid = g.by /\ l.role = bindings[g.by].role

ReviewHas(g) == Has(review, g.as) \/ \E l \in review.unread : Lists(l, g) /\ Has(l, g.as)

LastingReviewed == \A g \in Direct(lasting) : UnderReview(g.name) => ReviewHas(g)

\* A List of the bindings has the binding of a grant that holds.
LEMMA BindingListed ==
  ASSUME InformersOK, NEW g \in Holding, g.by # None
  PROVE  /\ ListedBinding(g.by) \in ListBindings
         /\ Lists(ListedBinding(g.by), g) /\ Has(ListedBinding(g.by), g.as)
         /\ ListedBinding(g.by).version = bindings[g.by].version
<1>1. g.by \in DOMAIN bindings /\ Has(bindings[g.by], g.as)
  BY DirectGrant
<1>2. ListedBinding(g.by) \in ListBindings
  BY <1>1 DEF ListBindings, ListedBinding
<1> QED
  BY <1>1, <1>2 DEF ListedBinding, Lists, Has

\* Whatever happens beside a review, or in it, it has the lasting grants.
LEMMA LastingReviewedStep ==
  ASSUME CacheInv, CacheInv', HistoryOK, LastingReviewed,
         InformerEvent \/ Synchronize, Remember
  PROVE  LastingReviewed'
<1> SUFFICES ASSUME NEW g \in Direct(lasting'), UnderReview(g.name)'
             PROVE  ReviewHas(g)'
  BY DEF LastingReviewed, Direct
<1> USE DEF Reviewing
<1>t. InformersOK /\ InformersOK'
  BY DEF CacheInv, TypeOK
<1>0. ~StartSync
  BY DEF UnderReview, StartSync, CacheInv, CycleNames
<1>1. /\ g \in Direct(lasting) /\ g \in Holding /\ g \in Holding' /\ g.by # None
  BY <1>0, LastingBefore DEF Direct
<1>2. /\ g.by \in DOMAIN bindings /\ g.by \in DOMAIN bindings'
      /\ Grants(g.by, g.name)
  <2>1. g.by \in DOMAIN bindings /\ Grants(g.by, g.name)
    BY <1>1, <1>t, DirectGrant
  <2>2. g.by \in DOMAIN bindings'
    BY <1>1, <1>t, DirectGrantNext
  <2> QED
    BY <2>1, <2>2
<1>3. \A l : Lists(l, g)' <=> Lists(l, g)
  BY <1>2, RoleOfBindingStays DEF Lists
<1>4. ASSUME UNCHANGED <<step, request, review>>
      PROVE  ReviewHas(g)'
  BY <1>1, <1>3, <1>4 DEF LastingReviewed, UnderReview, ReviewHas
<1>5. ASSUME UNCHANGED <<request, review>>, step \in Reviewing \ {"notify"}
      PROVE  ReviewHas(g)'
  BY <1>1, <1>3, <1>5 DEF LastingReviewed, UnderReview, ReviewHas
<1>6. ASSUME NEW req \in requests, StartReview(req)
      PROVE  ReviewHas(g)'
  <2>1. review'.unread = ListBindings
    BY <1>6 DEF StartReview
  <2> QED
    BY <1>1, <1>t, <1>3, <2>1, BindingListed DEF ReviewHas
<1>7. ASSUME step = "review", NEW b \in review.unread, EvaluateBinding(b)
      PROVE  ReviewHas(g)'
  <2>1. /\ review'.unread = review.unread \ {b}
        /\ review.users \subseteq review'.users /\ review.groups \subseteq review'.groups
        /\ RulesAllow(GetRequest(APIGroup, Resource, request.name), RulesFromRoleRef(b.role))
             => b.users \subseteq review'.users /\ b.groups \subseteq review'.groups
        /\ request' = request
    BY <1>7 DEF EvaluateBinding
  <2>2. request.name = g.name /\ UnderReview(g.name)
    BY <1>7, <2>1 DEF UnderReview
  <2>3. Has(review, g.as) => Has(review', g.as)
    BY <2>1 DEF Has
  <2>4. ASSUME Lists(b, g), Has(b, g.as)
        PROVE  Has(review', g.as)
    BY <1>2, <2>1, <2>2, <2>4 DEF Lists, Grants, Has
  <2>5. ReviewHas(g)
    BY <1>1, <2>2 DEF LastingReviewed
  <2> QED
    BY <1>3, <2>1, <2>3, <2>4, <2>5 DEF ReviewHas
<1>8. CASE InformerEvent
  BY <1>4, <1>8 DEF InformerEvent, locals
<1>9. CASE Synchronize
  <2>1. CASE DropUsers \/ DropGroups \/ AddUsers
    BY <1>5, <2>1 DEF DropUsers, DropGroups, AddUsers, locals
  <2>2. CASE \/ ListRoleBindings \/ \E b \in roleBindings : ReadRoleBinding(b)
             \/ \E req \in requests : SkipRequest(req)
             \/ StartPurge \/ StartAnnouncing \/ FinishSync
    BY <1>4, <2>2 DEF ListRoleBindings, ReadRoleBinding, SkipRequest, StartPurge, StartAnnouncing,
                      FinishSync, locals
  <2>3. CASE \/ AddGroups \/ Notify \/ \E n \in Names : PurgeUsers(n)
             \/ PurgeGroups \/ \E n \in gone : NotifyGone(n)
    BY <2>3 DEF AddGroups, Notify, PurgeUsers, PurgeGroups, NotifyGone, UnderReview
  <2> QED
    BY <1>0, <1>6, <1>7, <1>9, <2>1, <2>2, <2>3 DEF Synchronize
<1> QED
  BY <1>8, <1>9

-----------------------------------------------------------------------------
(***************************************************************************)
(* Records.  What a cycle has still to do about a lasting grant that no    *)
(* record has: in the first loop its name is new, or one of the previous   *)
(* cycle, which a role without resource names is about; in the second loop *)
(* its binding will be found newer than the record, or its role will.      *)
(***************************************************************************)
RecordHas(g) ==
  IF g.as.kind = "user" THEN g.as.of \in RecordUsers(g.name) ELSE g.as.of \in RecordGroups(g.name)

\* The record was made from other versions of the listed binding or its role.
Outdated(record, l) ==
  \/ record.bindingVersions[l.uid] # l.version
  \/ record.roleVersions[l.role] # roles[l.role].version

\* The bindings loop reviews the name of g, or will.
Pending(g) ==
  \/ UnderReview(g.name)
  \/ \E l \in roleBindings : Lists(l, g) /\ Outdated(reviewRecordStore[g.name], l)
  \/ \E req \in requests : req.name = g.name /\ ~SkipReview(req, LastKnown(g.name))

EstablishedRecorded == \A g \in Direct(established) : RecordHas(g)

\* What there is of a lasting grant in each phase.
InResources(g) ==
  RecordHas(g) \/ g.name \notin DOMAIN reviewRecordStore \/ g.name \in allKnownNames

InBindings(g) == RecordHas(g) \/ (g.name \in allKnownNames /\ Pending(g))

LastingRecorded ==
  \A g \in Direct(lasting) :
    /\ phase = "resources" => InResources(g)
    /\ phase = "bindings" => InBindings(g)
    /\ phase \in {"purge", "announce"} => RecordHas(g)

\* A recorded review of the name of a lasting grant has the grant.
LEMMA GrantRecorded ==
  ASSUME CacheInv, HistoryOK, LastingReviewed, AddGroups,
         NEW g \in Direct(lasting), g.name = request.name
  PROVE  RecordHas(g)'
<1>1. step = "addGroups" /\ review.unread = {}
  BY DEF AddGroups, CacheInv, CycleNames, Reviewing
<1>2. Has(review, g.as)
  BY <1>1 DEF LastingReviewed, UnderReview, ReviewHas, Reviewing
<1>3. RecordUsers(g.name)' = review.users /\ RecordGroups(g.name)' = review.groups
  BY DEF AddGroups, Assign, ReviewRecord, RecordUsers, RecordGroups
<1> QED
  BY <1>2, <1>3 DEF Has, RecordHas

\* The record of a name changes only when its review is recorded, or with a purge.
LEMMA RecordOfOthersStays ==
  ASSUME InformerEvent \/ Synchronize, NEW n, AddGroups \/ PurgeGroups => n # request.name
  PROVE  /\ n \in DOMAIN reviewRecordStore' <=> n \in DOMAIN reviewRecordStore
         /\ n \in DOMAIN reviewRecordStore => reviewRecordStore'[n] = reviewRecordStore[n]
         /\ LastKnown(n)' = LastKnown(n)
         /\ RecordUsers(n)' = RecordUsers(n) /\ RecordGroups(n)' = RecordGroups(n)
<1>1. /\ n \in DOMAIN reviewRecordStore' <=> n \in DOMAIN reviewRecordStore
      /\ n \in DOMAIN reviewRecordStore => reviewRecordStore'[n] = reviewRecordStore[n]
  <2>1. CASE AddGroups
    BY <2>1 DEF AddGroups, Assign
  <2>2. CASE PurgeGroups
    BY <2>2 DEF PurgeGroups, Without, Restrict
  <2>3. CASE UNCHANGED reviewRecordStore
    BY <2>3
  <2> QED
    BY <2>1, <2>2, <2>3
       DEF InformerEvent, Synchronize, StartSync, FinishSync, ListRoleBindings, ReadRoleBinding,
           SkipRequest, StartReview, EvaluateBinding, DropUsers, DropGroups, AddUsers,
           Notify, StartPurge, PurgeUsers, StartAnnouncing, NotifyGone, stores
<1> QED
  BY <1>1 DEF LastKnown, RecordUsers, RecordGroups

\* The name of a lasting grant was listed, so no purge is of it.
LEMMA NotPurged ==
  ASSUME CacheInv, HistoryOK, NEW g \in lasting, PurgeGroups
  PROVE  g.name # request.name
BY DEF PurgeGroups, CacheInv, CycleNames, HistoryOK

\* A record that has a lasting grant keeps it.
LEMMA RecordedStays ==
  ASSUME CacheInv, HistoryOK, LastingReviewed, InformerEvent \/ Synchronize,
         NEW g \in Direct(lasting), RecordHas(g)
  PROVE  RecordHas(g)'
<1>1. CASE AddGroups /\ g.name = request.name
  BY <1>1, GrantRecorded
<1>2. CASE AddGroups \/ PurgeGroups => g.name # request.name
  BY <1>2, RecordOfOthersStays DEF RecordHas
<1> QED
  BY <1>1, <1>2, NotPurged DEF Direct

\* The records keep the established grants, and take in those of a whole cycle.
LEMMA EstablishedRecordedStep ==
  ASSUME CacheInv, HistoryOK, LastingReviewed, EstablishedRecorded, LastingRecorded,
         InformerEvent \/ Synchronize, Remember
  PROVE  EstablishedRecorded'
<1> SUFFICES ASSUME NEW g \in Direct(established')
             PROVE  RecordHas(g)'
  BY DEF EstablishedRecorded, Direct
<1>1. g.by # None /\ (g \in established \/ (g \in lasting /\ phase' = "idle"))
  BY DEF Direct, Remember
<1>2. RecordHas(g)
  <2>1. CASE phase = "idle"
    BY <1>1, <2>1 DEF HistoryOK, EstablishedRecorded, Direct
  <2>2. CASE FinishSync
    BY <1>1, <2>2 DEF FinishSync, LastingRecorded, EstablishedRecorded, Direct
  <2>3. CASE g \in established
    BY <1>1, <2>3 DEF EstablishedRecorded, Direct
  <2> QED
    BY <1>1, <2>1, <2>2, <2>3, PhaseSteps DEF StartSync
<1>3. CASE g \in lasting
  BY <1>1, <1>2, <1>3, RecordedStays DEF Direct
<1>4. CASE phase = "idle"
  <2>1. ~AddGroups /\ ~PurgeGroups
    BY <1>4 DEF AddGroups, PurgeGroups, CacheInv, CycleNames, Reviewing
  <2> QED
    BY <1>2, <2>1, RecordOfOthersStays DEF RecordHas
<1> QED
  BY <1>1, <1>3, <1>4 DEF HistoryOK

\* A role that grants a name is about it: it names it, or names nothing.
LEMMA RoleIsAboutName ==
  ASSUME NEW r \in DOMAIN roles, NEW n \in allKnownNames,
         RulesAllow(GetRequest(APIGroup, Resource, n), roles[r].rules)
  PROVE  n \in NamesFromRole(r)
<1>1. PICK rule \in roles[r].rules : RuleAllows(GetRequest(APIGroup, Resource, n), rule)
  BY DEF RulesAllow
<1>2. rule \in RulesAbout(roles[r].rules, APIGroup, Resource)
  BY <1>1 DEF RuleAllows, GetRequest, RulesAbout
<1>3. rule.resourceNames = {} \/ n \in rule.resourceNames
  BY <1>1 DEF RuleAllows, GetRequest, ResourceNameMatches
<1> QED
  BY <1>2, <1>3 DEF NamesFromRole, AllFromClusterRole, NamesFromClusterRole

\* A record that lacks a grant is outdated by the bindings listed now: else it
\* would have seen the binding and its role, and have what they grant.
LEMMA LackingIsOutdated ==
  ASSUME CacheInv, NEW g \in Direct(Holding), g.name \in DOMAIN reviewRecordStore, ~RecordHas(g)
  PROVE  Outdated(reviewRecordStore[g.name], ListedBinding(g.by))
<1> DEFINE record == reviewRecordStore[g.name]
<1>1. /\ g.by \in DOMAIN bindings /\ Grants(g.by, g.name)
      /\ bindings[g.by].role \in DOMAIN roles /\ Has(bindings[g.by], g.as)
  BY DirectGrant DEF CacheInv, TypeOK, Direct
<1>2. ~(bindings[g.by].users \subseteq record.users /\ bindings[g.by].groups \subseteq record.groups)
  BY <1>1 DEF Has, RecordHas, RecordUsers, RecordGroups
<1>3. ~HasSeen(record, g.by)
  BY <1>1, <1>2 DEF CacheInv, SeenIsGranted, CurrentVersionsMeanCurrentGrants
<1> QED
  BY <1>1, <1>3 DEF HasSeen, Outdated, ListedBinding

\* The request that an outdated record's binding leads to is not skipped.
LEMMA OutdatedIsReviewed ==
  ASSUME CacheInv, NEW n \in DOMAIN reviewRecordStore, NEW l \in roleBindings,
         l.role \in DOMAIN roles, Outdated(reviewRecordStore[n], l)
  PROVE  ~SkipReview(Request(n, 0, Versioned(Roles, l.role, roles[l.role].version),
                             Versioned(Bindings, l.uid, l.version)), LastKnown(n))
<1> DEFINE record == reviewRecordStore[n]
           rv == Versioned(Roles, l.role, roles[l.role].version)
           bv == Versioned(Bindings, l.uid, l.version)
<1>1. /\ l.uid \in Bindings /\ l.role \in Roles
      /\ l.version # 0 /\ roles[l.role].version # 0
  BY AuthCacheAssumption
     DEF CacheInv, TypeOK, LocalsOK, ListedBindings, InformersOK, IsMap, ClusterRoles, Versions
<1>2. /\ l.role \in DOMAIN rv /\ rv[l.role] = roles[l.role].version
      /\ l.uid \in DOMAIN bv /\ bv[l.uid] = l.version
  BY <1>1 DEF Versioned, Unversioned
<1> HIDE DEF rv, bv
<1>3. LastKnown(n) = record
  BY DEF LastKnown
<1>4. ~(SameVersions(bv, record.bindingVersions) /\ SameVersions(rv, record.roleVersions))
  BY <1>1, <1>2 DEF SameVersions, Outdated
<1>5. ~SkipReview(Request(n, 0, rv, bv), LastKnown(n))
  BY <1>3, <1>4 DEF SkipReview, Request
<1> QED
  BY <1>5 DEF rv, bv

\* A change of an informer store leaves a lasting grant pending: a new version
\* of its role is one that no record has.
LEMMA PendingAfterEvent ==
  ASSUME CacheInv, CacheInv', InformerEvent, NEW g \in Direct(Holding), g \in Holding',
         g.name \in DOMAIN reviewRecordStore, Pending(g)
  PROVE  Pending(g)'
<1>u. UNCHANGED <<reviewRecordStore, roleBindings, requests, request, step>>
  BY DEF InformerEvent, stores, locals
<1>1. CASE UnderReview(g.name)
  BY <1>1, <1>u DEF Pending, UnderReview
<1>2. ASSUME NEW req \in requests, req.name = g.name, ~SkipReview(req, LastKnown(g.name))
      PROVE  Pending(g)'
  BY <1>2, <1>u DEF Pending, LastKnown, SkipReview, SameVersions
<1>3. ASSUME NEW l \in roleBindings, Lists(l, g), Outdated(reviewRecordStore[g.name], l)
      PROVE  Pending(g)'
  <2>1. /\ g.by \in DOMAIN bindings /\ g.by \in DOMAIN bindings'
        /\ bindings[g.by].role \in DOMAIN roles
        /\ bindings'[g.by].role \in DOMAIN roles'
    BY DirectGrant, DirectGrantNext DEF CacheInv, TypeOK, Direct
  <2>2. Lists(l, g)'
    BY <1>3, <2>1, RoleOfBindingStays DEF Lists
  <2>3. l.role \in DOMAIN roles /\ l.role \in DOMAIN roles' /\ l.role \in Roles
    BY <1>3, <2>1, <2>2 DEF Lists, CacheInv, TypeOK, InformersOK, IsMap
  <2>4. Outdated(reviewRecordStore[g.name], l)'
    <3>1. CASE roles'[l.role] = roles[l.role]
      BY <1>3, <1>u, <3>1 DEF Outdated
    <3>2. CASE roles'[l.role].version = clock + 1
      <4>1. reviewRecordStore[g.name] \in ReviewRecords /\ clock \in Nat
        BY AuthCacheAssumption DEF CacheInv, TypeOK, StoresOK, InformersOK, IsMap
      <4>2. reviewRecordStore[g.name].roleVersions[l.role] <= clock
        BY <2>3, <4>1 DEF CacheInv, VersionsAreOld, VersionsUpToNow, ReviewRecords
      <4> QED
        BY <1>u, <2>3, <3>2, <4>1, <4>2 DEF Outdated, ReviewRecords
    <3>3. ASSUME NEW r \in Roles, RemoveRole(r)
          PROVE  roles'[l.role] = roles[l.role]
      BY <2>3, <3>3 DEF RemoveRole, Without, Restrict
    <3>4. ASSUME NEW r \in Roles, NEW rules \in RoleContents, PutRole(r, rules)
          PROVE  roles'[l.role] = roles[l.role] \/ roles'[l.role].version = clock + 1
      BY <2>3, <3>4 DEF PutRole, Assign
    <3>5. CASE UNCHANGED roles
      BY <3>1, <3>5
    <3> QED
      BY <3>1, <3>2, <3>3, <3>4, <3>5
         DEF InformerEvent, PutCluster, RemoveCluster, PutBinding, RemoveBinding
  <2> QED
    BY <1>3, <1>u, <2>2, <2>4 DEF Pending
<1> QED
  BY <1>1, <1>2, <1>3 DEF Pending

\* A step of synchronize() that leaves the records alone, in the bindings loop,
\* leaves a lasting grant without a record pending.
LEMMA PendingAfterStep ==
  ASSUME CacheInv, Synchronize, phase = "bindings", phase' = "bindings",
         NEW g \in Direct(Holding), g.name \in DOMAIN reviewRecordStore,
         g.name \in allKnownNames, Pending(g), ~(AddGroups /\ request.name = g.name)
  PROVE  Pending(g)'
<1> USE DEF Reviewing
<1>g. /\ g.by \in DOMAIN bindings /\ Grants(g.by, g.name)
      /\ bindings[g.by].role \in DOMAIN roles
  BY DirectGrant DEF CacheInv, TypeOK, Direct
<1>p. step = "purgeGroups" => phase = "purge"
  BY DEF CacheInv, CycleNames
<1>r. reviewRecordStore'[g.name] = reviewRecordStore[g.name] /\ LastKnown(g.name)' = LastKnown(g.name)
  BY <1>p, RecordOfOthersStays DEF PurgeGroups
<1>i. UNCHANGED informers => \A l : Outdated(reviewRecordStore[g.name], l)'
                                     <=> Outdated(reviewRecordStore[g.name], l)
  BY <1>r DEF informers, Outdated
<1>j. UNCHANGED informers => \A l : Lists(l, g)' <=> Lists(l, g)
  BY DEF informers, Lists
<1>k. \A req : SkipReview(req, LastKnown(g.name))' <=> SkipReview(req, LastKnown(g.name))
  BY <1>r DEF SkipReview, SameVersions
<1>1. ASSUME NEW l \in roleBindings, ReadRoleBinding(l)
      PROVE  Pending(g)'
  <2>1. /\ UNCHANGED informers /\ step = "next" /\ requests = {}
        /\ roleBindings' = roleBindings \ {l}
    BY <1>1 DEF ReadRoleBinding, Between
  <2>2. PICK m \in roleBindings : Lists(m, g) /\ Outdated(reviewRecordStore[g.name], m)
    BY <2>1 DEF Pending, UnderReview
  <2>3. CASE m # l
    BY <1>i, <1>j, <2>1, <2>2, <2>3 DEF Pending
  <2>4. CASE m = l
    <3> DEFINE req == Request(g.name, 0, Versioned(Roles, l.role, roles[l.role].version),
                              Versioned(Bindings, l.uid, l.version))
    <3>1. l.role \in DOMAIN roles /\ g.name \in NamesFromRole(l.role)
      BY <1>g, <2>2, <2>4, RoleIsAboutName DEF Lists, Grants, RulesFromRoleRef
    <3>2. req \in requests'
      BY <1>1, <3>1 DEF ReadRoleBinding
    <3>3. ~SkipReview(req, LastKnown(g.name))
      BY <2>2, <2>4, <3>1, OutdatedIsReviewed
    <3>4. req.name = g.name
      BY DEF Request
    <3> HIDE DEF req
    <3> QED
      BY <1>k, <3>2, <3>3, <3>4 DEF Pending
  <2> QED
    BY <2>3, <2>4
<1>2. ASSUME NEW req \in requests, SkipRequest(req)
      PROVE  Pending(g)'
  <2>1. /\ UNCHANGED <<informers, step, request, roleBindings>> /\ requests' = requests \ {req}
        /\ SkipReview(req, LastKnown(req.name))
    BY <1>2 DEF SkipRequest
  <2> QED
    BY <1>i, <1>j, <1>k, <2>1 DEF Pending, UnderReview
<1>3. ASSUME NEW req \in requests, StartReview(req)
      PROVE  Pending(g)'
  <2>1. /\ UNCHANGED <<informers, roleBindings>> /\ requests' = requests \ {req}
        /\ step = "next" /\ step' = "review" /\ request' = req
    BY <1>3 DEF StartReview, Between
  <2> QED
    BY <1>i, <1>j, <1>k, <2>1 DEF Pending, UnderReview
<1>4. ASSUME UNCHANGED <<informers, request, roleBindings, requests>>,
             step \in Reviewing \ {"notify"} => \/ step' \in Reviewing \ {"notify"}
                                               \/ request.name # g.name
      PROVE  Pending(g)'
  BY <1>i, <1>j, <1>k, <1>4 DEF Pending, UnderReview
<1>5. CASE \/ step = "review" /\ \E b \in review.unread : EvaluateBinding(b)
           \/ DropUsers \/ DropGroups \/ AddUsers
  BY <1>4, <1>5 DEF EvaluateBinding, DropUsers, DropGroups, AddUsers, locals
<1>6. CASE AddGroups
  BY <1>4, <1>6 DEF AddGroups, locals
<1>7. CASE Notify
  <2>1. UNCHANGED <<informers, roleBindings, requests>> /\ step = "notify" /\ step' = "next"
    BY <1>7 DEF Notify
  <2> QED
    BY <1>i, <1>j, <1>k, <2>1 DEF Pending, UnderReview
<1>8. CASE \/ StartSync \/ ListRoleBindings \/ StartPurge \/ \E n \in Names : PurgeUsers(n)
           \/ PurgeGroups \/ StartAnnouncing \/ FinishSync \/ \E n \in gone : NotifyGone(n)
  BY <1>8, <1>p DEF StartSync, ListRoleBindings, StartPurge, PurgeUsers, PurgeGroups,
                    StartAnnouncing, NotifyGone, FinishSync
<1>9. CASE \E req \in requests : SkipRequest(req) \/ StartReview(req)
  BY <1>2, <1>3, <1>9
<1>10. CASE \E l \in roleBindings : ReadRoleBinding(l)
  BY <1>1, <1>10
<1> QED
  BY <1>5, <1>6, <1>7, <1>8, <1>9, <1>10 DEF Synchronize

\* A lasting grant is recorded by the end of the loop over the bindings, or has
\* been in the records all along.
LEMMA LastingRecordedStep ==
  ASSUME CacheInv, CacheInv', HistoryOK, LastingReviewed, EstablishedRecorded, LastingRecorded,
         InformerEvent \/ Synchronize, Remember
  PROVE  LastingRecorded'
<1> USE DEF Direct
<1>1. CASE StartSync
  <2>1. /\ phase = "idle" /\ phase' = "resources" /\ allKnownNames' = allKnownNames
        /\ UNCHANGED stores
    BY <1>1 DEF StartSync
  <2>2. DOMAIN reviewRecordStore' = allKnownNames'
    BY <2>1 DEF CacheInv, CycleNames, stores
  <2> QED
    BY <2>1, <2>2 DEF LastingRecorded, InResources
<1>2. ASSUME ~StartSync, NEW g \in Direct(lasting')
      PROVE  /\ phase' = "resources" => InResources(g)'
             /\ phase' = "bindings" => InBindings(g)'
             /\ phase' \in {"purge", "announce"} => RecordHas(g)'
  <2>1. /\ g \in Direct(lasting)
        /\ g.name \in newKnownNames \/ phase = "idle"
        /\ g \in Direct(Holding) /\ g \in Holding'
    BY <1>2, LastingBefore DEF HistoryOK
  <2>2. CASE RecordHas(g)
    BY <2>1, <2>2, RecordedStays DEF InResources, InBindings
  <2>3. CASE AddGroups /\ request.name = g.name
    BY <2>1, <2>3, GrantRecorded DEF InResources, InBindings
  <2>4. CASE ~RecordHas(g) /\ ~(AddGroups /\ request.name = g.name)
    <3>1. phase # "idle" /\ phase \notin {"purge", "announce"}
      BY <2>1, <2>4 DEF LastingRecorded, HistoryOK, EstablishedRecorded
    <3>2. ~PurgeGroups
      BY <3>1 DEF PurgeGroups, CacheInv, CycleNames
    <3>3. /\ g.name \in DOMAIN reviewRecordStore' <=> g.name \in DOMAIN reviewRecordStore
          /\ RecordHas(g)' = RecordHas(g)
      BY <2>4, <3>2, RecordOfOthersStays DEF RecordHas
    <3>4. CASE phase = "resources"
      <4>1. InResources(g)
        BY <2>1, <3>4 DEF LastingRecorded
      <4>2. CASE ListRoleBindings
        <5>1. /\ requests = {} /\ step = "next" /\ roleBindings' = ListBindings
              /\ UNCHANGED <<informers, stores, allKnownNames>> /\ phase' = "bindings"
          BY <4>2 DEF ListRoleBindings, Between
        <5>2. g.name \in DOMAIN reviewRecordStore
          BY <2>1, <3>4, <5>1 DEF CacheInv, CycleNames, Awaited, Reviewing
        <5>3. g.name \in allKnownNames'
          BY <2>4, <4>1, <5>1, <5>2 DEF InResources
        <5>4. /\ Outdated(reviewRecordStore[g.name], ListedBinding(g.by))
              /\ ListedBinding(g.by) \in ListBindings /\ Lists(ListedBinding(g.by), g)
          BY <2>1, <2>4, <5>2, LackingIsOutdated, BindingListed DEF CacheInv, TypeOK
        <5>5. Pending(g)'
          <6>1. PICK l \in roleBindings' : Lists(l, g) /\ Outdated(reviewRecordStore[g.name], l)
            BY <5>1, <5>4
          <6>2. Lists(l, g)' /\ Outdated(reviewRecordStore[g.name], l)'
            BY <5>1, <6>1 DEF informers, stores, Lists, Outdated
          <6> QED
            BY <6>1, <6>2 DEF Pending
        <5> QED
          BY <5>1, <5>3, <5>5 DEF InBindings
      <4>3. CASE ~ListRoleBindings
        <5>1. phase' = "resources" /\ allKnownNames' = allKnownNames
          BY <3>4, <4>3 DEF InformerEvent, Synchronize, StartSync, FinishSync, ReadRoleBinding,
               SkipRequest, StartReview, EvaluateBinding, DropUsers, DropGroups, AddUsers,
               AddGroups, Notify, StartPurge, PurgeUsers, PurgeGroups, StartAnnouncing, NotifyGone,
               locals
        <5> QED
          BY <3>3, <4>1, <5>1 DEF InResources
      <4> QED
        BY <4>2, <4>3
    <3>5. CASE phase = "bindings"
      <4>1. g.name \in allKnownNames /\ Pending(g) /\ g.name \in DOMAIN reviewRecordStore
        BY <2>1, <2>4, <3>5 DEF LastingRecorded, InBindings, CacheInv, CycleNames
      <4>2. ~StartPurge
        BY <4>1 DEF StartPurge, Between, Pending, UnderReview, Reviewing
      <4>3. phase' = "bindings" /\ allKnownNames' = allKnownNames
        BY <3>5, <4>2 DEF InformerEvent, Synchronize, StartSync, FinishSync, ListRoleBindings,
             ReadRoleBinding, SkipRequest, StartReview, EvaluateBinding, DropUsers, DropGroups,
             AddUsers, AddGroups, Notify, PurgeUsers, PurgeGroups, StartAnnouncing, NotifyGone,
             locals
      <4>4. Pending(g)'
        BY <2>1, <2>4, <3>5, <4>1, <4>3, PendingAfterEvent, PendingAfterStep
      <4> QED
        BY <4>1, <4>3, <4>4 DEF InBindings
    <3> QED
      BY <3>1, <3>4, <3>5 DEF CacheInv, TypeOK, LocalsOK
  <2> QED
    BY <2>2, <2>3, <2>4
<1> QED
  BY <1>1, <1>2 DEF LastingRecorded

-----------------------------------------------------------------------------
(***************************************************************************)
(* The invariant of the grants, and what it means for the indexes.         *)
(***************************************************************************)
GrantsInv == HistoryOK /\ LastingReviewed /\ EstablishedRecorded /\ LastingRecorded

\* The grants keep their invariant beside the cache and its readers.
LEMMA GrantsInvariant == ReadersSpec => []GrantsInv
<1>1. ReadersInit => GrantsInv
  BY DEF ReadersInit, Init, GrantsInv, HistoryOK, LastingReviewed, EstablishedRecorded,
         LastingRecorded, Direct
<1>2. CacheInv /\ CacheInv' /\ GrantsInv /\ [ReadersNext]_readerVars => GrantsInv'
  <2> SUFFICES ASSUME CacheInv, CacheInv', GrantsInv, [ReadersNext]_readerVars
               PROVE  GrantsInv'
    OBVIOUS
  <2>1. CASE Meanwhile
    BY <2>1, HistoryStep, LastingReviewedStep, EstablishedRecordedStep, LastingRecordedStep
       DEF Meanwhile, GrantsInv
  <2>2. CASE UNCHANGED <<vars, history>>
    <3>1. UNCHANGED <<lasting, established, Holding, phase, newKnownNames, allKnownNames, step,
                      request, review, reviewRecordStore, roleBindings, requests, bindings, roles>>
      BY <2>2 DEF vars, history, informers, stores, locals, Holding, AnyGrant, GrantsNow, GrantsOf,
                  Grants, CallerIn, RulesFromRoleRef
    <3>2. \A g : /\ UnderReview(g.name)' <=> UnderReview(g.name)
                 /\ ReviewHas(g)' <=> ReviewHas(g)
                 /\ RecordHas(g)' <=> RecordHas(g)
                 /\ Pending(g)' <=> Pending(g)
      BY <3>1 DEF UnderReview, ReviewHas, RecordHas, Pending, Lists, Outdated, LastKnown,
                  SkipReview, SameVersions, RecordUsers, RecordGroups
    <3> QED
      BY <3>1, <3>2 DEF GrantsInv, HistoryOK, LastingReviewed, EstablishedRecorded,
                        LastingRecorded, InResources, InBindings, Direct
  <2> QED
    BY <2>1, <2>2 DEF ReadersNext, readerVars, Reader
<1> QED
  BY <1>1, <1>2, CacheInvBesideReaders, PTL DEF ReadersSpec

\* What a record has of an established grant is in the index, while its name is
\* in hand as well: the review in hand has the grant, and no purge is of it.
LEMMA RecordedIsIndexed ==
  ASSUME CacheInv, GrantsInv
  PROVE  EstablishedGrantsListed
<1> SUFFICES ASSUME NEW g \in Direct(established)
             PROVE  g.name \in Indexed(g.as)
  BY DEF EstablishedGrantsListed, Direct
<1> USE DEF Reviewing
<1>1. RecordHas(g)
  BY DEF GrantsInv, EstablishedRecorded
<1>2. /\ g.name \in Names
      /\ \/ g.as.kind = "user" /\ g.as.of \in Users
         \/ g.as.kind = "group" /\ g.as.of \in Groups
  BY DirectGrant, CacheReadersAssumption DEF GrantsInv, HistoryOK, Direct, CacheInv, TypeOK
<1>3. CASE ~InHand(g.name)
  BY <1>1, <1>2, <1>3 DEF Indexed, RecordHas, CacheInv, SubjectsIndexRecords, Indexes,
                          HoldersAmongUsers, HoldersAmongGroups
<1>4. CASE InHand(g.name)
  <2>1. step \in {"dropGroups", "addUsers", "addGroups", "purgeGroups"}
    BY <1>4 DEF InHand, CacheInv, TypeOK, LocalsOK
  <2>2. phase # "idle" /\ g \in Direct(lasting) /\ g.name \in newKnownNames
    BY <2>1 DEF CacheInv, CycleNames, GrantsInv, HistoryOK, Direct
  <2>3. step # "purgeGroups"
    BY <1>4, <2>2 DEF InHand, CacheInv, CycleNames
  <2>4. Has(review, g.as)
    BY <1>4, <2>1, <2>2, <2>3
       DEF InHand, CacheInv, CycleNames, GrantsInv, LastingReviewed, UnderReview, ReviewHas
  <2>5. /\ g.as.kind = "user" => g.as.of \in HoldersAmongUsers(g.name)
        /\ g.as.kind # "user" => g.as.of \in HoldersAmongGroups(g.name)
    BY <1>1, <1>4, <2>1, <2>3, <2>4
       DEF RecordHas, Has, HoldersAmongUsers, HoldersAmongGroups
  <2> QED
    BY <1>2, <2>5 DEF Indexed, CacheInv, SubjectsIndexRecords, Indexes
<1> QED
  BY <1>3, <1>4

\* No skipped review, purge or half-done replacement takes a grant that has held
\* for a whole cycle out of the indexes while it holds (common.go:213-246,
\* 264-268, 439-461).
THEOREM EstablishedGrantsAreListed == ReadersSpec => []EstablishedGrantsListed
BY RecordedIsIndexed, CacheInvBesideReaders, GrantsInvariant, PTL

-----------------------------------------------------------------------------
(***************************************************************************)
(* The request.  What it has read has the grants it is judged by, as far   *)
(* as it has got.                                                          *)
(***************************************************************************)
HasRead(g) ==
  /\ reader.pc = "groups"
  /\ g.as.kind = "group" => g.as.of \notin reader.groups

ReaderOK ==
  /\ DOMAIN reader = {"pc", "groups", "names", "items", "sure"}
  /\ reader.groups \subseteq CallerGroups
  /\ reader.pc = "user" => reader.groups = CallerGroups
  /\ reader.sure \subseteq established
  /\ \A g \in Direct(reader.sure) :
       HasRead(g) => g.name \in reader.names \cup DOMAIN reader.items

\* One read of the request.
LEMMA ReaderStep ==
  ASSUME CacheInv, GrantsInv, ReaderOK, Reader
  PROVE  ReaderOK'
<1> USE DEF ReaderOK, HasRead, Direct
<1>u. established' = established
  BY DEF Reader, history
<1>g. \A g \in Direct(reader.sure) :
        /\ g.name \in Indexed(g.as) /\ g.name \in DOMAIN clusters
        /\ \/ g.as.kind = "user" /\ g.as.of = Caller
           \/ g.as.kind = "group" /\ g.as.of \in CallerGroups
  BY RecordedIsIndexed, DirectGrant
     DEF EstablishedGrantsListed, GrantsInv, HistoryOK, CacheInv, TypeOK
<1>1. CASE StartList
  BY <1>1, <1>u DEF StartList, NoRequest
<1>2. CASE ReadUser
  BY <1>2, <1>u, <1>g DEF ReadUser, Indexed
<1>3. ASSUME NEW h \in CallerGroups, ReadGroup(h)
      PROVE  ReaderOK'
  BY <1>3, <1>u, <1>g DEF ReadGroup, Indexed
<1>4. ASSUME NEW n \in Names, ReadItem(n)
      PROVE  ReaderOK'
  <2>1. /\ reader'.names = reader.names \ {n} /\ reader'.pc = reader.pc
        /\ reader'.groups = reader.groups /\ reader'.sure = reader.sure
        /\ DOMAIN reader' = DOMAIN reader
        /\ DOMAIN reader.items \subseteq DOMAIN reader'.items
        /\ n \in DOMAIN clusters => n \in DOMAIN reader'.items
    BY <1>4 DEF ReadItem, Assign
  <2> QED
    BY <1>u, <1>g, <2>1
<1>5. CASE Return
  BY <1>5, <1>u DEF Return, NoRequest
<1> QED
  BY <1>1, <1>2, <1>3, <1>4, <1>5 DEF Reader

\* What the request has read has the grants, at all times.
LEMMA ReaderInvariant == ReadersSpec => []ReaderOK
<1>1. ReadersInit => ReaderOK
  BY DEF ReadersInit, NoRequest, ReaderOK, Direct
<1>2. CacheInv /\ GrantsInv /\ ReaderOK /\ [ReadersNext]_readerVars => ReaderOK'
  <2>1. ASSUME ReaderOK, Meanwhile PROVE ReaderOK'
    BY <2>1 DEF Meanwhile, ReaderOK, HasRead, Direct
  <2>2. ASSUME ReaderOK, UNCHANGED readerVars PROVE ReaderOK'
    BY <2>2 DEF readerVars, history, ReaderOK, HasRead, Direct
  <2> QED
    BY <2>1, <2>2, ReaderStep DEF ReadersNext
<1> QED
  BY <1>1, <1>2, CacheInvBesideReaders, GrantsInvariant, PTL DEF ReadersSpec

\* A request returns every resource that one binding has let the caller get, as
\* one and the same subject, for a cycle before the request and until its end
\* (common.go:324-347, managedcluster.go:67-86): although its reads of the two
\* indexes and of the lister are of different moments, none of them misses it.
THEOREM ListsHaveEstablishedGrants == ReadersSpec => []ListHasEstablishedGrants
<1>1. ReaderOK /\ CacheInv /\ GrantsInv => ListHasEstablishedGrants
  BY DEF ReaderOK, HasRead, Direct, ListHasEstablishedGrants, Finished
<1> QED
  BY <1>1, CacheInvBesideReaders, GrantsInvariant, ReaderInvariant, PTL
=============================================================================
