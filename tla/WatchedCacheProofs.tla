-------------------------- MODULE WatchedCacheProofs --------------------------
(***************************************************************************)
(* Theorems about WatchedCache, for every value of its constants: what the *)
(* cache has on record and what its watchers take their clients to know.   *)
(*                                                                         *)
(* The argument goes watcher by watcher and name by name.  A watcher is    *)
(* made from the indexes, which are the records turned over; the record of *)
(* a name changes at the end of syncRequest or of a purge only, with the   *)
(* name in hand; and before the name is let go every registered watcher is *)
(* told of it, one after the other, under the lock.                        *)
(***************************************************************************)
EXTENDS WatchedCache, AuthCacheProofs, SequenceTheorems

-----------------------------------------------------------------------------
(***************************************************************************)
(* The steps of the composition.                                           *)
(***************************************************************************)

\* The cache beside its watchers is the cache.
LEMMA WatchedRunsTheCache == WatchedSpec => Init /\ [][Next]_vars
<1>1. WatchedInit => Init
  BY DEF WatchedInit
<1>2. [WatchedNext]_everything => [Next]_vars
  BY DEF WatchedNext, everything, CacheStep, BeginTelling, TellWatcher, EndTelling, MakeWatcher,
         WatchStep, Next, Synchronize
<1> QED
  BY <1>1, <1>2, PTL DEF WatchedSpec

\* What is known of the cache by itself holds beside its watchers.
LEMMA CacheInvBesideWatchers == WatchedSpec => []CacheInv
BY WatchedRunsTheCache, CacheInductive, PTL

-----------------------------------------------------------------------------
(***************************************************************************)
(* The versions of the resources: a record's is never one that is still to *)
(* be given, so a resource that is written is newer than its record.       *)
(***************************************************************************)
ResourceVersionsAreOld ==
  /\ \A n \in DOMAIN clusters : clusters[n] <= clock
  /\ \A req \in requests : req.resourceVersion <= clock
  /\ step \in Reviewing => request.resourceVersion <= clock
  /\ \A n \in DOMAIN reviewRecordStore : reviewRecordStore[n].resourceVersion <= clock

\* A write gives its resource the next version and leaves the others as they are.
LEMMA ClustersAfterEvent ==
  ASSUME TypeOK, InformerEvent
  PROVE  /\ clock' \in {clock, clock + 1}
         /\ \A n \in DOMAIN clusters' :
              \/ n \in DOMAIN clusters /\ clusters'[n] = clusters[n]
              \/ clusters'[n] = clock + 1 /\ clock' = clock + 1
<1>1. ASSUME NEW n \in Names, PutCluster(n) \/ RemoveCluster(n)
      PROVE  /\ clock' \in {clock, clock + 1}
             /\ \A k \in DOMAIN clusters' :
                  \/ k \in DOMAIN clusters /\ clusters'[k] = clusters[k]
                  \/ clusters'[k] = clock + 1 /\ clock' = clock + 1
  BY <1>1 DEF PutCluster, RemoveCluster, Assign, Without, Restrict
<1>2. ASSUME NEW r \in Roles, RemoveRole(r) \/ \E rules \in RoleContents : PutRole(r, rules)
      PROVE  clock' \in {clock, clock + 1} /\ UNCHANGED clusters
  BY <1>2 DEF RemoveRole, PutRole
<1>3. ASSUME NEW b \in Bindings, \/ RemoveBinding(b)
                                 \/ \E r \in Roles, s \in SubjectSets : PutBinding(b, r, s)
      PROVE  clock' \in {clock, clock + 1} /\ UNCHANGED clusters
  BY <1>3 DEF RemoveBinding, PutBinding
<1> QED
  BY <1>1, <1>2, <1>3 DEF InformerEvent

\* Versions of resources, old before a write, are old after it.
LEMMA ResourceVersionsAfterEvent ==
  ASSUME TypeOK, ResourceVersionsAreOld, InformerEvent
  PROVE  ResourceVersionsAreOld'
<1>1. /\ clock \in Nat /\ clock' \in {clock, clock + 1}
      /\ \A n \in DOMAIN clusters : clusters[n] \in Nat
      /\ \A req \in requests : req.resourceVersion \in Nat
      /\ step \in Reviewing => request.resourceVersion \in Nat
      /\ \A n \in DOMAIN reviewRecordStore : reviewRecordStore[n].resourceVersion \in Nat
  BY ClustersAfterEvent, AuthCacheAssumption
     DEF TypeOK, InformersOK, StoresOK, LocalsOK, IsMap, Versions, ReviewRequests, ReviewRecords,
         Reviewing
<1>2. UNCHANGED <<reviewRecordStore, step, requests, request>>
  BY DEF InformerEvent, stores, locals
<1> QED
  BY <1>1, <1>2, ClustersAfterEvent DEF ResourceVersionsAreOld

\* Requests ask about the versions of the lister or about none, and records have
\* those of the requests.
LEMMA ResourceVersionsAfterStep ==
  ASSUME TypeOK, ResourceVersionsAreOld, Synchronize
  PROVE  ResourceVersionsAreOld'
<1> USE DEF ResourceVersionsAreOld, Reviewing
<1>1. clock \in Nat /\ 0 <= clock
  BY AuthCacheAssumption DEF TypeOK, InformersOK
<1>2. CASE StartSync
  <2>1. \A req \in ListResources : req.resourceVersion <= clock
    BY DEF ListResources, Request
  <2> QED
    BY <1>2, <2>1 DEF StartSync, informers, stores
<1>3. ASSUME NEW b \in roleBindings, ReadRoleBinding(b)
      PROVE  ResourceVersionsAreOld'
  <2>1. \A req \in requests' : req.resourceVersion = 0
    BY <1>3 DEF ReadRoleBinding, Request
  <2> QED
    BY <1>1, <1>3, <2>1 DEF ReadRoleBinding, informers, stores
<1>4. ASSUME NEW req \in requests, SkipRequest(req) \/ StartReview(req)
      PROVE  ResourceVersionsAreOld'
  BY <1>4 DEF SkipRequest, StartReview, informers, stores
<1>5. CASE AddGroups
  <2>1. /\ reviewRecordStore' = Assign(reviewRecordStore, request.name, RecordInHand)
        /\ UNCHANGED <<clusters, clock, requests, request>> /\ step \in Reviewing
    BY <1>5 DEF AddGroups, RecordInHand, informers, locals
  <2>2. RecordInHand.resourceVersion <= clock
    <3>1. RecordInHand.resourceVersion \in {request.resourceVersion, 0} \/
            (request.name \in DOMAIN reviewRecordStore /\
             RecordInHand.resourceVersion = reviewRecordStore[request.name].resourceVersion)
      BY DEF RecordInHand, ReviewRecord, Known, LastKnown
    <3> QED
      BY <1>1, <2>1, <3>1
  <2> QED
    BY <1>5, <2>1, <2>2 DEF Assign
<1>6. CASE PurgeGroups
  BY <1>6 DEF PurgeGroups, Without, Restrict, informers
<1>7. CASE \/ ListRoleBindings
           \/ step = "review" /\ \E b \in review.unread : EvaluateBinding(b)
           \/ DropUsers \/ DropGroups \/ AddUsers
  BY <1>7 DEF ListRoleBindings, EvaluateBinding, DropUsers, DropGroups, AddUsers, informers, stores,
              locals
<1>8. CASE StartPurge \/ StartAnnouncing \/ FinishSync \/ \E n \in Names : PurgeUsers(n)
  BY <1>8 DEF StartPurge, PurgeUsers, StartAnnouncing, FinishSync, informers, stores, locals
<1>9. CASE Notify \/ \E n \in gone : NotifyGone(n)
  BY <1>1, <1>9 DEF Notify, NotifyGone, Request, informers, stores
<1> QED
  BY <1>2, <1>3, <1>4, <1>5, <1>6, <1>7, <1>8, <1>9 DEF Synchronize

-----------------------------------------------------------------------------
(***************************************************************************)
(* The watchers.                                                           *)
(***************************************************************************)
\* A watcher is appended to the list.
LEMMA RangeOfAppend ==
  ASSUME NEW S, NEW s \in Seq(S), NEW e \in S
  PROVE  Append(s, e) \in Seq(S) /\ W!Range(Append(s, e)) \subseteq W!Range(s) \cup {e}
<1>1. /\ Append(s, e) \in Seq(S) /\ DOMAIN Append(s, e) = 1..Len(s) + 1
      /\ \A i \in 1..Len(s) : Append(s, e)[i] = s[i]
      /\ Append(s, e)[Len(s) + 1] = e
      /\ DOMAIN s = 1..Len(s) /\ Len(s) \in Nat
  BY AppendProperties, LenProperties
<1> QED
  BY <1>1 DEF W!Range

\* The shift that takes one out adds nobody.
LEMMA RangeOfShift ==
  ASSUME NEW S, NEW s \in Seq(S), NEW i \in DOMAIN s
  PROVE  W!RemoveAt(s, i) \in Seq(S) /\ W!Range(W!RemoveAt(s, i)) \subseteq W!Range(s)
<1> DEFINE before == SubSeq(s, 1, i - 1)
           after == SubSeq(s, i + 1, Len(s))
<1>1. /\ Len(s) \in Nat /\ DOMAIN s = 1..Len(s) /\ \A j \in 1..Len(s) : s[j] \in S
      /\ i \in 1..Len(s)
  BY LenProperties, ElementOfSeq
<1>2. before \in Seq(S) /\ Len(before) = i - 1 /\ \A j \in 1..i - 1 : before[j] = s[j]
  BY <1>1, SubSeqProperties
<1>3. /\ after \in Seq(S) /\ Len(after) = Len(s) - i
      /\ \A j \in 1..Len(s) - i : after[j] = s[i + j]
  BY <1>1, SubSeqProperties
<1>4. W!RemoveAt(s, i) = before \o after
  BY DEF W!RemoveAt
<1> HIDE DEF before, after
<1>5. /\ before \o after \in Seq(S) /\ DOMAIN (before \o after) = 1..Len(before) + Len(after)
      /\ \A j \in 1..Len(before) + Len(after) :
           (before \o after)[j] = IF j <= Len(before) THEN before[j] ELSE after[j - Len(before)]
  BY <1>2, <1>3, ConcatProperties, LenProperties
<1>6. ASSUME NEW j \in 1..Len(before) + Len(after)
      PROVE  \E k \in 1..Len(s) : (before \o after)[j] = s[k]
  <2>1. CASE j <= Len(before)
    BY <1>1, <1>2, <1>3, <1>5, <1>6, <2>1
  <2>2. CASE j > Len(before)
    <3>1. j - Len(before) \in 1..Len(s) - i /\ i + (j - Len(before)) \in 1..Len(s)
      BY <1>1, <1>2, <1>3, <1>6, <2>2
    <3>2. (before \o after)[j] = s[i + (j - Len(before))]
      BY <1>1, <1>2, <1>3, <1>5, <1>6, <2>2, <3>1
    <3> QED
      BY <3>1, <3>2
  <2> QED
    BY <1>1, <1>2, <1>3, <1>6, <2>1, <2>2
<1>7. W!Range(before \o after) \subseteq W!Range(s)
  <2>1. \A k \in 1..Len(s) : s[k] \in W!Range(s)
    BY <1>1 DEF W!Range
  <2>2. ASSUME NEW x \in W!Range(before \o after)
        PROVE  \E j \in 1..Len(before) + Len(after) : x = (before \o after)[j]
    BY <1>5 DEF W!Range
  <2> QED
    BY <1>6, <2>1, <2>2
<1> QED
  BY <1>4, <1>5, <1>7

\* Whoever is not left in the list after a turn was not in it before, or had it.
LEMMA RangeOfTail ==
  ASSUME NEW S, NEW s \in Seq(S), s # <<>>
  PROVE  /\ Head(s) \in S /\ Tail(s) \in Seq(S)
         /\ W!Range(s) \subseteq W!Range(Tail(s)) \cup {Head(s)}
<1>1. /\ Head(s) \in S /\ Tail(s) \in Seq(S) /\ Len(s) \in Nat /\ DOMAIN s = 1..Len(s)
      /\ Head(s) = s[1]
      /\ Len(Tail(s)) = Len(s) - 1 /\ DOMAIN Tail(s) = 1..Len(s) - 1
      /\ \A i \in 1..Len(s) - 1 : Tail(s)[i] = s[i + 1]
  BY HeadTailProperties, LenProperties
<1>2. ASSUME NEW i \in 1..Len(s)
      PROVE  s[i] \in W!Range(Tail(s)) \cup {Head(s)}
  <2>1. CASE i # 1
    <3>1. i - 1 \in DOMAIN Tail(s) /\ Tail(s)[i - 1] = s[i]
      BY <1>1, <2>1
    <3> QED
      BY <3>1 DEF W!Range
  <2> QED
    BY <1>1, <2>1
<1>3. \A x \in W!Range(s) : \E i \in 1..Len(s) : x = s[i]
  BY <1>1 DEF W!Range
<1> QED
  BY <1>1, <1>2, <1>3

\* What the records of a watcher have.
Fields ==
  {"pc", "visibleResources", "knownResources", "initialResources", "cacheIncoming",
   "cacheError", "outgoing", "userStop", "view"}

\* The lock is held over a step only to tell the name in hand.
WatchingOK ==
  /\ DOMAIN watcher = Watchers /\ \A w \in Watchers : DOMAIN watcher[w] = Fields
  /\ watchers \in Seq(Watchers) /\ turn \in Seq(Watchers)
  /\ locked => step = "notify"

\* A watcher is made and not yet added, or in the cache's list.
Live(w) == watcher[w].pc = "created" \/ w \in W!Range(watchers)

\* What a watch's goroutine and client do, and its entry in the list, leave what
\* it is taken to know alone, and make no watcher live.
LEMMA WatchStepKeeps ==
  ASSUME WatchingOK, NEW w \in Watchers,
         W!AddWatcher(w) \/ W!Goroutine(w) \/ W!Removal(w) \/ W!Client(w)
  PROVE  /\ DOMAIN watcher' = Watchers /\ watchers' \in Seq(Watchers) /\ UNCHANGED <<locked, turn>>
         /\ \A v \in Watchers :
              /\ DOMAIN watcher'[v] = Fields
              /\ watcher'[v].knownResources = watcher[v].knownResources
              /\ watcher'[v].visibleResources = watcher[v].visibleResources
              /\ Live(v)' => Live(v)
<1> DEFINE Keeps(v) ==
             /\ DOMAIN watcher'[v] = Fields
             /\ watcher'[v].knownResources = watcher[v].knownResources
             /\ watcher'[v].visibleResources = watcher[v].visibleResources
             /\ watcher'[v].pc = "created" => watcher[v].pc = "created"
<1> USE DEF WatchingOK, Fields
<1>1. CASE W!AddWatcher(w)
  <2>1. DOMAIN watcher' = Watchers /\ \A v \in Watchers : Keeps(v)
    BY <1>1 DEF W!AddWatcher
  <2>2. watchers' \in Seq(Watchers) /\ W!Range(watchers') \subseteq W!Range(watchers) \cup {w}
    BY <1>1, RangeOfAppend DEF W!AddWatcher
  <2>3. UNCHANGED <<locked, turn>> /\ Live(w)
    BY <1>1 DEF W!AddWatcher, Live
  <2> QED
    BY <2>1, <2>2, <2>3 DEF Live
<1>2. CASE W!Removal(w)
  <2>1. DOMAIN watcher' = Watchers /\ \A v \in Watchers : Keeps(v)
    <3>1. \/ watcher' = [watcher EXCEPT ![w].cacheError = TRUE]
          \/ watcher' = [watcher EXCEPT ![w].pc = "closed"]
      BY <1>2 DEF W!Removal, W!RemoveWatcher
    <3>2. CASE watcher' = [watcher EXCEPT ![w].cacheError = TRUE]
      BY <3>2
    <3>3. CASE watcher' = [watcher EXCEPT ![w].pc = "closed"]
      BY <3>3
    <3> QED
      BY <3>1, <3>2, <3>3
  <2>2. watchers' \in Seq(Watchers) /\ W!Range(watchers') \subseteq W!Range(watchers)
    BY <1>2, RangeOfShift DEF W!Removal, W!RemoveWatcher
  <2>3. UNCHANGED <<locked, turn>>
    BY <1>2 DEF W!Removal, W!RemoveWatcher
  <2> QED
    BY <2>1, <2>2, <2>3 DEF Live
<1>3. CASE W!Goroutine(w) \/ W!Client(w)
  <2>1. DOMAIN watcher' = Watchers /\ \A v \in Watchers : Keeps(v)
    <3>1. CASE W!EmitInitial(w)
      BY <3>1 DEF W!EmitInitial
    <3>2. CASE W!EmitIncoming(w)
      BY <3>2 DEF W!EmitIncoming
    <3>3. CASE W!Leave(w)
      BY <3>3 DEF W!Leave
    <3>4. CASE W!Drop(w) \/ W!Receive(w) \/ W!Stop(w)
      BY <3>4 DEF W!Drop, W!Receive, W!Stop
    <3> QED
      BY <1>3, <3>1, <3>2, <3>3, <3>4 DEF W!Goroutine, W!Client
  <2>2. UNCHANGED <<watchers, locked, turn>>
    BY <1>3 DEF W!Goroutine, W!EmitInitial, W!EmitIncoming, W!Leave, W!Drop, W!Client, W!Receive,
                W!Stop, W!notifier
  <2> QED
    BY <2>1, <2>2 DEF Live
<1> QED
  BY <1>1, <1>2, <1>3

-----------------------------------------------------------------------------
(***************************************************************************)
(* Agreement.                                                              *)
(***************************************************************************)
\* What is on record about n and what w takes its client to know agree.
Agreed(w, n) ==
  LET record == reviewRecordStore[n]
      granted == W!HasAccess(w, record)
      client == watcher[w].knownResources
  IN  /\ n \in DOMAIN client => granted
      /\ granted /\ n \in DOMAIN clusters /\ clusters[n] = record.resourceVersion =>
           n \in DOMAIN client /\ client[n] = clusters[n]

\* notifyWatchers has got to the name in hand, n, and has not w before it.
HasBeenTold(w, n) == locked /\ request.name = n /\ w \notin W!Range(turn)

\* What is told of a name with a record is what the record says.
NotedIsRecorded ==
  step = "notify" /\ request.name \in DOMAIN reviewRecordStore =>
    /\ reviewRecordStore[request.name].users = review.users
    /\ reviewRecordStore[request.name].groups = review.groups

\* A watcher agrees with the record of every name that the cache is not at work
\* on, from the moment it is made; and with that of the name in hand again as
\* soon as it has been told of it.
WatchersAgree ==
  \A w \in Watchers, n \in DOMAIN reviewRecordStore :
    Live(w) /\ W!Sees(w, n) /\ n \notin missed[w] /\ (AtWorkOn(n) => HasBeenTold(w, n)) =>
      Agreed(w, n)

\* Between the steps of synchronize() that end a name's review or purge, the
\* records stay as they are, and whatever is at work stays at work.
LEMMA RecordsStay ==
  ASSUME TypeOK, NEW n \in DOMAIN reviewRecordStore', step # "notify", Synchronize, ~AtWorkOn(n)'
  PROVE  /\ n \in DOMAIN reviewRecordStore /\ reviewRecordStore'[n] = reviewRecordStore[n]
         /\ ~AtWorkOn(n) /\ UNCHANGED clusters
<1> USE DEF AtWorkOn, Reviewing
<1>1. CASE AddGroups
  BY <1>1 DEF AddGroups, Assign, informers, locals
<1>2. CASE PurgeGroups
  BY <1>2 DEF PurgeGroups, Without, Restrict, informers
<1>3. CASE \/ StartSync \/ ListRoleBindings \/ StartPurge \/ StartAnnouncing \/ FinishSync
           \/ DropUsers \/ DropGroups \/ AddUsers
  BY <1>3 DEF StartSync, ListRoleBindings, StartPurge, StartAnnouncing, FinishSync, DropUsers,
              DropGroups, AddUsers, informers, stores, locals
<1>4. CASE \/ \E b \in roleBindings : ReadRoleBinding(b)
           \/ \E req \in requests : SkipRequest(req) \/ StartReview(req)
  BY <1>4 DEF ReadRoleBinding, SkipRequest, StartReview, Between, informers, stores
<1>5. CASE step = "review" /\ \E b \in review.unread : EvaluateBinding(b)
  BY <1>5 DEF EvaluateBinding, informers, stores
<1>6. CASE \/ \E k \in Names : PurgeUsers(k)
           \/ \E k \in gone : NotifyGone(k)
  BY <1>6 DEF PurgeUsers, NotifyGone, Between, informers, stores
<1>7. ~Notify
  BY DEF Notify
<1> QED
  BY <1>1, <1>2, <1>3, <1>4, <1>5, <1>6, <1>7 DEF Synchronize

\* The informers and synchronize() up to its next call of notifyWatchers.
LEMMA CacheStepAgrees ==
  ASSUME TypeOK, ResourceVersionsAreOld, WatchingOK, WatchersAgree, CacheStep
  PROVE  WatchersAgree'
<1> SUFFICES ASSUME NEW w \in Watchers, NEW n \in DOMAIN reviewRecordStore',
                    Live(w)', W!Sees(w, n)', n \notin missed'[w],
                    AtWorkOn(n)' => HasBeenTold(w, n)'
             PROVE  Agreed(w, n)'
  BY DEF WatchersAgree
<1>1. UNCHANGED <<locked, watchers, turn, removing, watcher>> /\ n \notin missed[w]
  BY DEF CacheStep, Miss, watching
<1>2. Live(w) /\ W!Sees(w, n)
  BY <1>1 DEF Live, W!Sees
<1>3. CASE InformerEvent
  <2>1. UNCHANGED <<reviewRecordStore, step, request>>
    BY <1>3 DEF InformerEvent, stores, locals
  <2>2. AtWorkOn(n) => HasBeenTold(w, n)
    BY <1>1, <2>1 DEF AtWorkOn, HasBeenTold
  <2>3. Agreed(w, n)
    BY <1>1, <1>2, <2>1, <2>2 DEF WatchersAgree
  <2>4. n \in DOMAIN clusters' /\ clusters'[n] = reviewRecordStore[n].resourceVersion =>
          n \in DOMAIN clusters /\ clusters'[n] = clusters[n]
    <3>1. /\ clock \in Nat /\ reviewRecordStore[n].resourceVersion \in Nat
          /\ reviewRecordStore[n].resourceVersion <= clock
      BY <2>1, AuthCacheAssumption
         DEF TypeOK, InformersOK, StoresOK, IsMap, ReviewRecords, ResourceVersionsAreOld
    <3> QED
      BY <1>3, <3>1, ClustersAfterEvent
  <2> QED
    BY <1>1, <2>1, <2>3, <2>4 DEF Agreed, W!HasAccess
<1>4. CASE step # "notify" /\ Synchronize
  <2>1. ~AtWorkOn(n)'
    BY <1>1, <1>4 DEF WatchingOK, HasBeenTold
  <2>2. /\ n \in DOMAIN reviewRecordStore /\ reviewRecordStore'[n] = reviewRecordStore[n]
        /\ ~AtWorkOn(n) /\ UNCHANGED clusters
    BY <1>4, <2>1, RecordsStay
  <2>3. Agreed(w, n)
    BY <1>1, <1>2, <2>2 DEF WatchersAgree
  <2> QED
    BY <1>1, <2>2, <2>3 DEF Agreed, W!HasAccess
<1> QED
  BY <1>3, <1>4 DEF CacheStep

\* notifyWatchers takes the list of those it will tell: whoever is not in it has
\* not been added, and misses the answer.
LEMMA BeginTellingAgrees ==
  ASSUME WatchingOK, WatchersAgree, BeginTelling
  PROVE  WatchersAgree'
<1> SUFFICES ASSUME NEW w \in Watchers, NEW n \in DOMAIN reviewRecordStore',
                    Live(w)', W!Sees(w, n)', n \notin missed'[w],
                    AtWorkOn(n)' => HasBeenTold(w, n)'
             PROVE  Agreed(w, n)'
  BY DEF WatchersAgree
<1>1. /\ UNCHANGED <<reviewRecordStore, clusters, step, request, watchers, watcher>>
      /\ ~locked /\ turn' = watchers
  BY DEF BeginTelling, W!LockForNotify, vars, informers, stores, locals
<1>2. Live(w) /\ W!Sees(w, n)
  BY <1>1 DEF Live, W!Sees
<1>3. step = "notify"
  BY DEF BeginTelling, W!LockForNotify, Note
<1>4. request.name # n
  <2>1. ASSUME request.name = n
        PROVE  FALSE
    <3>1. w \notin W!Range(watchers)
      BY <1>1, <1>3, <2>1 DEF AtWorkOn, HasBeenTold
    <3>2. watcher[w].pc = "created"
      BY <1>2, <3>1 DEF Live
    <3>3. missed'[w] = missed[w] \cup {request.name}
      BY <3>1, <3>2 DEF BeginTelling
    <3> QED
      BY <2>1, <3>3
  <2> QED
    BY <2>1
<1>5. n \notin missed[w]
  BY <1>4 DEF BeginTelling
<1>6. Agreed(w, n)
  BY <1>1, <1>2, <1>4, <1>5 DEF WatchersAgree, AtWorkOn
<1> QED
  BY <1>1, <1>6 DEF Agreed, W!HasAccess

\* Whether the event finds room or not, what the watcher is taken to know changes.
LEMMA SendKeeps ==
  ASSUME WatchingOK, NEW h \in Watchers, NEW newKnown, NEW event, W!Send(h, newKnown, event)
  PROVE  /\ DOMAIN watcher' = Watchers /\ watcher'[h].knownResources = newKnown
         /\ \A v \in Watchers :
              /\ DOMAIN watcher'[v] = Fields
              /\ watcher'[v].visibleResources = watcher[v].visibleResources
              /\ watcher'[v].pc = watcher[v].pc
              /\ v # h => watcher'[v].knownResources = watcher[v].knownResources
<1> USE DEF WatchingOK, Fields
<1>1. CASE watcher' = [watcher EXCEPT ![h].knownResources = newKnown,
                                      ![h].cacheIncoming = Append(@, event)]
  BY <1>1
<1>2. CASE watcher' = [watcher EXCEPT ![h].knownResources = newKnown]
  BY <1>2
<1> QED
  BY <1>1, <1>2 DEF W!Send

\* Whoever's turn it is gets what the record says: what is granted and in the
\* lister is known, what is not granted is not.
LEMMA TellWatcherAgrees ==
  ASSUME WatchingOK, NotedIsRecorded, WatchersAgree, TellWatcher
  PROVE  WatchingOK' /\ WatchersAgree'
<1>1. /\ UNCHANGED <<reviewRecordStore, clusters, step, request, review, missed, watchers, locked>>
      /\ locked /\ step = "notify" /\ turn # <<>> /\ turn' = Tail(turn)
  BY DEF TellWatcher, W!TellNext, vars, informers, stores, locals, WatchingOK
<1>2. PICK h \in Watchers :
        /\ W!GroupMembershipChanged(h) /\ turn' \in Seq(Watchers)
        /\ W!Range(turn) \subseteq W!Range(turn') \cup {h}
  <2>1. /\ Head(turn) \in Watchers /\ turn' \in Seq(Watchers)
        /\ W!Range(turn) \subseteq W!Range(turn') \cup {Head(turn)}
    BY <1>1, RangeOfTail DEF WatchingOK
  <2>2. W!GroupMembershipChanged(Head(turn))
    BY DEF TellWatcher, W!TellNext
  <2> QED
    BY <2>1, <2>2
<1>3. PICK n : n = request.name
  OBVIOUS
<1>4. /\ Note.name = n /\ Note.users = review.users /\ Note.groups = review.groups
  BY <1>1, <1>3 DEF Note
<1> DEFINE client == watcher[h].knownResources
           told == watcher'[h].knownResources
<1>5. /\ W!LoseAccess(h) =>
           told = W!Without(client, n) /\ ~W!HasAccess(h, Note)
      /\ W!HaveAccess(h) =>
           told = W!Assign(client, n, clusters[n]) /\ n \in DOMAIN clusters /\ W!HasAccess(h, Note)
  <2>1. ASSUME W!LoseAccess(h)
        PROVE  told = W!Without(client, n) /\ ~W!HasAccess(h, Note)
    BY <1>4, <2>1, SendKeeps DEF W!LoseAccess
  <2>2. ASSUME W!HaveAccess(h)
        PROVE  told = W!Assign(client, n, clusters[n]) /\ n \in DOMAIN clusters
                 /\ W!HasAccess(h, Note)
    BY <1>4, <2>2, SendKeeps DEF W!HaveAccess, W!IsNews
  <2> QED
    BY <2>1, <2>2
<1>6. W!NothingToTell(h) /\ W!Sees(h, n) =>
        /\ told = client
        /\ \/ ~W!HasAccess(h, Note) /\ n \notin DOMAIN client
           \/ W!HasAccess(h, Note) /\ (n \in DOMAIN clusters =>
                                         n \in DOMAIN client /\ client[n] = clusters[n])
  BY <1>4 DEF W!NothingToTell, W!IsNews, W!Knows
<1>7. /\ DOMAIN watcher' = Watchers
      /\ \A v \in Watchers :
           /\ DOMAIN watcher'[v] = Fields
           /\ watcher'[v].visibleResources = watcher[v].visibleResources
           /\ watcher'[v].pc = watcher[v].pc
           /\ v # h => watcher'[v].knownResources = watcher[v].knownResources
  <2>1. UNCHANGED watcher \/ \E newKnown, event : W!Send(h, newKnown, event)
    BY <1>2 DEF W!GroupMembershipChanged, W!LoseAccess, W!HaveAccess, W!NothingToTell
  <2> QED
    BY <1>2, <2>1, SendKeeps DEF WatchingOK
<1>8. ASSUME NEW k, k # n
      PROVE  /\ k \in DOMAIN told <=> k \in DOMAIN client
             /\ k \in DOMAIN client => told[k] = client[k]
  <2>1. CASE told = W!Without(client, n)
    BY <1>8, <2>1 DEF W!Without, W!Restrict
  <2>2. CASE told = W!Assign(client, n, clusters[n])
    BY <1>8, <2>2 DEF W!Assign
  <2>3. W!NothingToTell(h) => told = client
    BY DEF W!NothingToTell
  <2> QED
    BY <1>2, <1>5, <2>1, <2>2, <2>3 DEF W!GroupMembershipChanged
<1>9. ASSUME n \in DOMAIN reviewRecordStore, W!Sees(h, n)
      PROVE  Agreed(h, n)'
  <2>1. W!HasAccess(h, Note) <=> W!HasAccess(h, reviewRecordStore[n])
    BY <1>1, <1>3, <1>4, <1>9 DEF NotedIsRecorded, W!HasAccess
  <2>2. /\ n \in DOMAIN told => W!HasAccess(h, Note)
        /\ W!HasAccess(h, Note) /\ n \in DOMAIN clusters =>
             n \in DOMAIN told /\ told[n] = clusters[n]
    <3>1. n \notin DOMAIN W!Without(client, n)
      BY DEF W!Without, W!Restrict
    <3>2. n \in DOMAIN W!Assign(client, n, clusters[n])
            /\ W!Assign(client, n, clusters[n])[n] = clusters[n]
      BY DEF W!Assign
    <3> QED
      BY <1>2, <1>5, <1>6, <1>9, <3>1, <3>2 DEF W!GroupMembershipChanged
  <2> QED
    BY <1>1, <2>1, <2>2 DEF Agreed, W!HasAccess
<1>10. ASSUME NEW w \in Watchers, NEW m \in DOMAIN reviewRecordStore',
              Live(w)', W!Sees(w, m)', m \notin missed'[w],
              AtWorkOn(m)' => HasBeenTold(w, m)'
       PROVE  Agreed(w, m)'
  <2>1. m \in DOMAIN reviewRecordStore /\ Live(w) /\ W!Sees(w, m) /\ m \notin missed[w]
    BY <1>1, <1>7, <1>10 DEF Live, W!Sees
  <2>2. (AtWorkOn(m)' <=> AtWorkOn(m)) /\ (HasBeenTold(w, m)' => HasBeenTold(w, m) \/ w = h)
    BY <1>1, <1>2 DEF AtWorkOn, HasBeenTold
  <2>3. CASE w = h /\ m = n
    BY <1>9, <2>1, <2>3
  <2>4. CASE w = h /\ m # n
    <3>1. Agreed(h, m)
      BY <1>1, <1>3, <1>10, <2>1, <2>2, <2>4 DEF WatchersAgree, HasBeenTold
    <3> QED
      BY <1>1, <1>8, <2>4, <3>1 DEF Agreed, W!HasAccess
  <2>5. CASE w # h
    <3>1. Agreed(w, m)
      BY <1>10, <2>1, <2>2, <2>5 DEF WatchersAgree
    <3> QED
      BY <1>1, <1>7, <2>5, <3>1 DEF Agreed, W!HasAccess
  <2> QED
    BY <2>3, <2>4, <2>5
<1> QED
  BY <1>1, <1>2, <1>7, <1>10 DEF WatchersAgree, WatchingOK

\* notifyWatchers returns: everyone in the list has been told.
LEMMA EndTellingAgrees ==
  ASSUME WatchingOK, WatchersAgree, EndTelling
  PROVE  WatchingOK' /\ WatchersAgree'
<1>1. /\ UNCHANGED <<reviewRecordStore, clusters, missed, watchers, turn, watcher>>
      /\ locked /\ ~locked' /\ turn = <<>> /\ step' = "next"
  BY DEF EndTelling, Notify, W!UnlockAfterNotify, W!lister, stores, informers
<1>2. W!Range(turn) = {}
  BY <1>1 DEF W!Range
<1>3. ASSUME NEW w \in Watchers, NEW n \in DOMAIN reviewRecordStore',
             Live(w)', W!Sees(w, n)', n \notin missed'[w]
      PROVE  Agreed(w, n)'
  <2>1. Live(w) /\ W!Sees(w, n) /\ n \in DOMAIN reviewRecordStore /\ n \notin missed[w]
    BY <1>1, <1>3 DEF Live, W!Sees
  <2>2. AtWorkOn(n) => HasBeenTold(w, n)
    BY <1>1, <1>2 DEF AtWorkOn, HasBeenTold
  <2>3. Agreed(w, n)
    BY <2>1, <2>2 DEF WatchersAgree
  <2> QED
    BY <1>1, <2>3 DEF Agreed, W!HasAccess
<1> QED
  BY <1>1, <1>3 DEF WatchersAgree, WatchingOK

\* A name that the cache is not at work on, or is telling of, is indexed for
\* whoever is on its record.
LEMMA IndexIsRecord ==
  ASSUME CacheInv, NEW n \in DOMAIN reviewRecordStore, ~AtWorkOn(n) \/ step = "notify"
  PROVE  /\ n \in Names
         /\ IndexedAccess[n].users = reviewRecordStore[n].users
         /\ IndexedAccess[n].groups = reviewRecordStore[n].groups
<1>1. /\ n \in Names /\ reviewRecordStore[n].users \subseteq Users
      /\ reviewRecordStore[n].groups \subseteq Groups
  BY DEF CacheInv, TypeOK, StoresOK, IsMap, ReviewRecords
<1>2. ~InHand(n)
  BY DEF InHand, AtWorkOn
<1>3. /\ \A u \in Users : n \in NamesOf(userSubjectRecordStore, u) <=> u \in reviewRecordStore[n].users
      /\ \A g \in Groups :
           n \in NamesOf(groupSubjectRecordStore, g) <=> g \in reviewRecordStore[n].groups
  BY <1>1, <1>2 DEF CacheInv, SubjectsIndexRecords, Indexes, HoldersAmongUsers,
                    HoldersAmongGroups, RecordUsers, RecordGroups
<1> QED
  BY <1>1, <1>3 DEF IndexedAccess

\* A new watcher knows what the indexes list for it, in the lister's versions.
LEMMA MakeWatcherAgrees ==
  ASSUME CacheInv, WatchingOK, WatchersAgree, NEW w \in Watchers, MakeWatcher(w)
  PROVE  WatchingOK' /\ WatchersAgree'
<1>1. UNCHANGED <<reviewRecordStore, clusters, step, request, missed, watchers, turn, locked>>
  BY DEF MakeWatcher, W!NewCacheWatcher, W!notifier, vars, stores, informers, locals
<1>2. /\ DOMAIN watcher' = Watchers /\ DOMAIN watcher'[w] = Fields
      /\ watcher'[w].knownResources = W!ListObjects(w)
      /\ \A v \in Watchers \ {w} : watcher'[v] = watcher[v]
  BY DEF MakeWatcher, W!NewCacheWatcher, W!NoWatcher, WatchingOK, Fields
<1>3. ASSUME NEW v \in Watchers, NEW n \in DOMAIN reviewRecordStore',
             Live(v)', W!Sees(v, n)', n \notin missed'[v],
             AtWorkOn(n)' => HasBeenTold(v, n)'
      PROVE  Agreed(v, n)'
  <2>1. n \in DOMAIN reviewRecordStore /\ n \notin missed[v] /\ (AtWorkOn(n) => HasBeenTold(v, n))
    BY <1>1, <1>3 DEF AtWorkOn, HasBeenTold
  <2>2. CASE v = w
    <3>1. /\ n \in Names
          /\ W!HasAccess(w, IndexedAccess[n]) <=> W!HasAccess(w, reviewRecordStore[n])
      BY <2>1, <2>2, IndexIsRecord DEF WatchingOK, HasBeenTold, W!HasAccess
    <3>2. DOMAIN IndexedAccess = Names
      BY DEF IndexedAccess
    <3>3. /\ n \in DOMAIN W!ListObjects(w) <=>
               n \in DOMAIN clusters /\ W!HasAccess(w, reviewRecordStore[n])
          /\ n \in DOMAIN W!ListObjects(w) => W!ListObjects(w)[n] = clusters[n]
      BY <3>1, <3>2 DEF W!ListObjects, W!Restrict
    <3> QED
      BY <1>1, <1>2, <2>2, <3>3 DEF Agreed, W!HasAccess
  <2>3. CASE v # w
    <3>1. Agreed(v, n)
      BY <1>1, <1>2, <1>3, <2>1, <2>3 DEF WatchersAgree, Live, W!Sees
    <3> QED
      BY <1>1, <1>2, <2>3, <3>1 DEF Agreed, W!HasAccess
  <2> QED
    BY <2>2, <2>3
<1> QED
  BY <1>1, <1>2, <1>3 DEF WatchersAgree, WatchingOK

\* A watch's own steps change nothing that agreement is about.
LEMMA WatchStepAgrees ==
  ASSUME WatchingOK, WatchersAgree, NEW w \in Watchers, WatchStep(w)
  PROVE  WatchingOK' /\ WatchersAgree'
<1>1. /\ UNCHANGED <<reviewRecordStore, clusters, step, request, missed>>
      /\ W!AddWatcher(w) \/ W!Goroutine(w) \/ W!Removal(w) \/ W!Client(w)
  BY DEF WatchStep, vars, stores, informers, locals
<1>2. /\ DOMAIN watcher' = Watchers /\ watchers' \in Seq(Watchers) /\ UNCHANGED <<locked, turn>>
      /\ \A v \in Watchers :
           /\ DOMAIN watcher'[v] = Fields
           /\ watcher'[v].knownResources = watcher[v].knownResources
           /\ watcher'[v].visibleResources = watcher[v].visibleResources
           /\ Live(v)' => Live(v)
  BY <1>1, WatchStepKeeps
<1>3. ASSUME NEW v \in Watchers, NEW n \in DOMAIN reviewRecordStore',
             Live(v)', W!Sees(v, n)', n \notin missed'[v],
             AtWorkOn(n)' => HasBeenTold(v, n)'
      PROVE  Agreed(v, n)'
  <2>1. Agreed(v, n)
    BY <1>1, <1>2, <1>3 DEF WatchersAgree, W!Sees, AtWorkOn, HasBeenTold
  <2> QED
    BY <1>1, <1>2, <2>1 DEF Agreed, W!HasAccess
<1> QED
  BY <1>1, <1>2, <1>3 DEF WatchersAgree, WatchingOK

\* The record is made of the review that the watchers are told of; of a name that
\* is gone there is none.
LEMMA NotedStep ==
  ASSUME TypeOK, CycleNames, NotedIsRecorded, [Next]_vars
  PROVE  NotedIsRecorded'
<1>1. CASE InformerEvent \/ UNCHANGED vars
  BY <1>1 DEF InformerEvent, vars, stores, locals, NotedIsRecorded
<1>2. CASE AddGroups
  BY <1>2 DEF AddGroups, Assign, ReviewRecord, locals, NotedIsRecorded
<1>3. ASSUME NEW n \in gone, NotifyGone(n)
      PROVE  NotedIsRecorded'
  BY <1>3 DEF NotifyGone, CycleNames, Request, stores, NotedIsRecorded
<1>4. CASE Synchronize /\ ~AddGroups /\ ~\E n \in gone : NotifyGone(n)
  <2>1. step' # "notify"
    BY <1>4 DEF Synchronize, StartSync, ListRoleBindings, ReadRoleBinding, SkipRequest, StartReview,
                EvaluateBinding, DropUsers, DropGroups, AddUsers, Notify, StartPurge, PurgeUsers,
                PurgeGroups, StartAnnouncing, FinishSync, Between, TypeOK, LocalsOK, CycleNames
  <2> QED
    BY <2>1 DEF NotedIsRecorded
<1> QED
  BY <1>1, <1>2, <1>3, <1>4 DEF Next

\* While the cache reviews, purges and waits, its list and its lock are as they were.
LEMMA CacheStepWatching ==
  ASSUME WatchingOK, CacheStep
  PROVE  WatchingOK'
<1>1. UNCHANGED <<locked, watchers, turn, watcher>> /\ (locked => step' = step)
  BY DEF CacheStep, watching, WatchingOK, InformerEvent
<1> QED
  BY <1>1 DEF WatchingOK

-----------------------------------------------------------------------------
\* What the records, the watchers and the name in hand keep together.
AgreementInv == ResourceVersionsAreOld /\ WatchingOK /\ NotedIsRecorded /\ WatchersAgree

\* Agreement holds at all times.
LEMMA AgreementInvariant == WatchedSpec => []AgreementInv
<1>1. WatchedInit => AgreementInv
  <2> SUFFICES ASSUME WatchedInit PROVE AgreementInv
    OBVIOUS
  <2>1. DOMAIN EmptyMap = {}
    BY EmptyIsMap
  <2>2. ResourceVersionsAreOld /\ NotedIsRecorded /\ WatchersAgree
    BY <2>1 DEF WatchedInit, Init, ResourceVersionsAreOld, NotedIsRecorded, WatchersAgree, Reviewing
  <2>3. WatchingOK
    BY DEF WatchedInit, W!WatchersInit, WatchingOK, W!NoWatcher, Fields
  <2> QED
    BY <2>2, <2>3 DEF AgreementInv
<1>2. CacheInv /\ AgreementInv /\ [WatchedNext]_everything => AgreementInv'
  <2> SUFFICES ASSUME CacheInv, AgreementInv, [WatchedNext]_everything
               PROVE  AgreementInv'
    OBVIOUS
  <2> USE DEF AgreementInv
  <2>1. TypeOK /\ CycleNames
    BY DEF CacheInv
  <2>2. [Next]_vars
    BY DEF WatchedNext, everything, CacheStep, BeginTelling, TellWatcher, EndTelling, MakeWatcher,
           WatchStep, Next, Synchronize
  <2>3. ResourceVersionsAreOld'
    <3>1. CASE UNCHANGED vars
      BY <3>1 DEF vars, informers, stores, locals, ResourceVersionsAreOld
    <3> QED
      BY <2>1, <2>2, <3>1, ResourceVersionsAfterEvent, ResourceVersionsAfterStep DEF Next
  <2>4. NotedIsRecorded'
    BY <2>1, <2>2, NotedStep
  <2>5. WatchingOK' /\ WatchersAgree'
    <3>1. CASE CacheStep
      BY <2>1, <3>1, CacheStepAgrees, CacheStepWatching
    <3>2. CASE BeginTelling
      <4>1. WatchingOK'
        BY <3>2 DEF BeginTelling, W!LockForNotify, WatchingOK, vars, Note
      <4> QED
        BY <3>2, <4>1, BeginTellingAgrees
    <3>3. CASE TellWatcher
      BY <3>3, TellWatcherAgrees
    <3>4. CASE EndTelling
      BY <3>4, EndTellingAgrees
    <3>5. CASE \E w \in Watchers : MakeWatcher(w) \/ WatchStep(w)
      BY <3>5, MakeWatcherAgrees, WatchStepAgrees
    <3>6. CASE UNCHANGED everything
      BY <3>6 DEF everything, vars, informers, stores, locals, watching, WatchingOK, WatchersAgree,
                  Live, W!Sees, AtWorkOn, HasBeenTold, Agreed, W!HasAccess
    <3> QED
      BY <3>1, <3>2, <3>3, <3>4, <3>5, <3>6 DEF WatchedNext
  <2> QED
    BY <2>3, <2>4, <2>5
<1> QED
  BY <1>1, <1>2, CacheInvBesideWatchers, PTL DEF WatchedSpec

\* No order of watch requests, reviews and informer events leaves a client with
\* what it has lost or without what it has got, on its watcher's word, once the
\* cache is through with the name (common.go:239-244, watcher.go:112-171): but
\* for the answers told between NewCacheWatcher and AddWatcher.
THEOREM WatchersSettle == WatchedSpec => []SettledWatchersAgree
<1>1. AgreementInv => SettledWatchersAgree
  <2>1. WatchingOK => \A w \in W!Range(watchers) : w \in Watchers
    BY ElementOfSeq DEF WatchingOK, W!Range
  <2> QED
    BY <2>1 DEF AgreementInv, WatchersAgree, SettledWatchersAgree, Live, Agreed
<1> QED
  BY <1>1, AgreementInvariant, PTL
===============================================================================
