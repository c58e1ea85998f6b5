------------------------------ MODULE WatchServer ------------------------------
(***************************************************************************)
(* Watching a resource type: the REST storage's Watch                      *)
(* (pkg/registry/managedcluster/storage.go, managedclusterset/storage.go)  *)
(* makes a cacheWatcher per request and adds it to a cache, whose answers  *)
(* are those of a ReviewFeed, while the informer's store changes.          *)
(***************************************************************************)
EXTENDS CacheWatcher, ScopeEvaluation

CONSTANTS
  ScopesOf,     \* watcher -> the scopes in the extra information of its user
  ClusterRoles, \* the cluster roles that scopes refer to: name -> rules
  Answers       \* [users, groups] that reviews may give

\* A deleted resource may have no version left to tell.
Events ==
  [type : {"ADDED", "MODIFIED"}, name : Names, version : 1..MaxVersion]
    \cup [type : {"DELETED"}, name : Names, version : 0..MaxVersion]

ASSUME WatchServerAssumption ==
  /\ Answers \subseteq [users : SUBSET Users, groups : SUBSET Groups]
  /\ \A a \in Answers : SuperUser \in a.users /\ MastersGroup \in a.groups
  /\ None \notin Names \cup Watchers \cup Events \cup {ErrorEvent}
  /\ None \notin [name : Names, users : SUBSET Users, groups : SUBSET Groups]

vars == <<feed, lister, notifier, watcher>>

\* The lister, whose objects get ever newer versions.
PutCluster(n) ==
  /\ clock < MaxVersion
  /\ clock' = clock + 1
  /\ clusters' = Assign(clusters, n, clock + 1)
  /\ UNCHANGED <<feed, notifier, watcher>>

RemoveCluster(n) ==
  /\ n \in DOMAIN clusters
  /\ clusters' = Without(clusters, n)
  /\ UNCHANGED <<feed, clock, notifier, watcher>>

\* What the synchronizer does between two notifications.
Synchronizer ==
  /\ \/ \E n \in Names, a \in Answers : Review(n, a.users, a.groups)
     \/ \E n \in Names : Forget(n) \/ AnnounceGone(n)
     \/ Learn
  /\ UNCHANGED <<lister, notifier, watcher>>

\* The listed resources that are by name among what the scopes allow.
AllowedClusters(w) ==
  DOMAIN clusters \cap ScopesToVisibleNamespaces(ScopesOf[w], ClusterRoles)

\* REST.Watch, up to AddWatcher, which waits for watcherLock.  Scopes that nothing
\* handles are ignored, a scope that does not parse fails the request.
Watch(w) ==
  /\ FailingScopes(ScopesOf[w], TRUE) = {}
  /\ NewCacheWatcher(w, AllowedClusters(w))

Init ==
  /\ FeedInit /\ WatchersInit
  /\ clusters = EmptyMap /\ clock = 0

Next ==
  \/ \E n \in Names : PutCluster(n) \/ RemoveCluster(n)
  \/ Synchronizer
  \/ \E w \in Watchers : Watch(w)
  \/ WatchersNext

(***************************************************************************)
(* The goroutines run.  Go's select picks at random among what is ready,   *)
(* and its mutex is handed to whoever has long waited; so a stop that      *)
(* stays ready is taken, and RemoveWatcher gets a lock that is free time   *)
(* and again.  Nothing makes a client receive or stop.                     *)
(***************************************************************************)
Fairness ==
  /\ WF_vars(Notifier)
  /\ \A w \in Watchers : WF_vars(Goroutine(w)) /\ SF_vars(Leave(w)) /\ SF_vars(Removal(w))

Spec == Init /\ [][Next]_vars /\ Fairness

-----------------------------------------------------------------------------
VersionMaps == UNION {[S -> 1..MaxVersion] : S \in SUBSET Names}

CacheWatchers ==
  [pc : {"absent", "created", "watching", "exiting", "closed"},
   visibleResources : SUBSET Names, knownResources : VersionMaps,
   initialResources : VersionMaps, view : VersionMaps,
   cacheIncoming : Seq(Events), outgoing : Events \cup {ErrorEvent, None},
   cacheError : BOOLEAN, userStop : BOOLEAN]

WatcherOK(r) ==
  /\ Len(r.cacheIncoming) <= Capacity
  /\ r.outgoing # None => r.pc \in {"watching", "exiting"}

\* watcherLock is held over a step only to tell an answer, which goes on with
\* what is left of the list.
LockOK ==
  IF locked
  THEN note # None /\ \E i \in 1..Len(watchers) + 1 : turn = SubSeq(watchers, i, Len(watchers))
  ELSE turn = <<>> /\ removing = None

\* Every variable has its type, a queue holds no more than its capacity, nothing
\* is on its way from a goroutine that is not running, and the synchronizer has
\* the lock only to tell an answer (watcher.go:37-67, common.go:373-379).
TypeOK ==
  /\ FeedTypeOK
  /\ clock \in 0..MaxVersion /\ clusters \in VersionMaps
  /\ watchers \in Seq(Watchers) /\ turn \in Seq(Watchers) /\ removing \in Watchers \cup {None}
  /\ locked \in BOOLEAN /\ LockOK
  /\ watcher \in [Watchers -> CacheWatchers] /\ \A w \in Watchers : WatcherOK(watcher[w])

\* A watcher is in the cache's list once from AddWatcher until its goroutine
\* removes it, whatever the order in which watchers leave, and never again after
\* it has closed its channel: "when the watch ends, always remove the watcher
\* from the cache to avoid leaking" (watcher.go:178, common.go:356-371).
RegisteredWhileWatching ==
  /\ \A w \in Watchers :
       w \in Range(watchers) <=>
         watcher[w].pc \in {"watching", "exiting"} /\ ~watcher[w].cacheError
  /\ IsInjective(watchers)

\* What is on its way to w's client, the oldest first.
Underway(w) ==
  (IF watcher[w].outgoing = None THEN <<>> ELSE <<watcher[w].outgoing>>)
    \o watcher[w].cacheIncoming

\* The version of a resource, 0 for none, after an event about it.
VersionAfter(e) == IF e.type = "DELETED" THEN 0 ELSE e.version

\* The events lead from one version of n to another: that of the last about n.
Leads(events, n, from, to) ==
  \/ to = from /\ \A i \in DOMAIN events : events[i].name # n
  \/ \E i \in DOMAIN events :
       /\ events[i].name = n /\ to = VersionAfter(events[i])
       /\ \A j \in DOMAIN events : j > i => events[j].name # n

\* The version of n that w's client has, or will have from the initial resources.
InitialVersion(w, n) ==
  VersionIn(IF n \in DOMAIN watcher[w].initialResources THEN watcher[w].initialResources
            ELSE watcher[w].view, n)

\* Client, queue and synchronizer agree: a client that goes on receiving ends up
\* with exactly the resources, in the versions, that its watcher takes it to
\* know, and on which the choice of the next event rests (watcher.go:119-159).
\* Two ways out: it has stopped, or its queue was full and an event was lost.
ViewFollowsKnown ==
  \A w \in Watchers :
    \/ watcher[w].userStop \/ removing = w
    \/ \A n \in Names :
         Leads(Underway(w), n, InitialVersion(w, n), VersionIn(watcher[w].knownResources, n))

\* No client is told of an addition of what it has, of a change or deletion of
\* what it has not, or of a version older than the one it has (watcher.go:144-159).
Fits(view, e) ==
  CASE e.type = "ADDED" -> e.name \notin DOMAIN view
    [] e.type = "MODIFIED" -> e.name \in DOMAIN view /\ view[e.name] < e.version
    [] e.type = "DELETED" -> e.name \in DOMAIN view
    [] OTHER -> TRUE

ReceivedEventsFit ==
  [][\A w \in Watchers :
       watcher[w].outgoing # None /\ watcher[w].view # watcher'[w].view /\ ~watcher[w].userStop =>
         Fits(watcher[w].view, watcher[w].outgoing)]_vars

\* When notifyWatchers returns, no registered watcher that sees the name has it
\* among its known resources without access (common.go:373-379, watcher.go:122-124):
\* none was left out.
NobodyLeftOut ==
  [][note # None /\ note' = None =>
       \A w \in Range(watchers) :
         Sees(w, note.name) /\ Knows(w, note.name) => HasAccess(w, note)]_vars

\* As long as no queue overflows, a client that stops gets its watcher out of the
\* cache, even with initial resources or a queue that it will never receive
\* (watcher.go:103-108, 175-217, 235-247).
StoppedWatchersLeave ==
  \A w \in Watchers :
    [](removing = None) => (watcher[w].userStop ~> watcher[w].pc = "closed")

\* "If the buffer fills up, then the watcher will be removed and the connection
\* will be broken." (watcher.go:42-43): at least for a client that goes on
\* receiving whatever it is sent.
OverflowedWatchersLeave ==
  \A w \in Watchers :
    []<>(watcher[w].outgoing = None) => (removing = w ~> watcher[w].pc = "closed")

\* "kube has no scopess, see all" (storage.go:104): the watcher of a user
\* without scopes learns of what it is told it may get.
UnscopedWatchersSeeAll ==
  [][\A w \in Watchers :
       /\ ScopesOf[w] = {} /\ turn # <<>> /\ turn' = Tail(turn) /\ w = Head(turn)
       /\ HasAccess(w, note) /\ note.name \in DOMAIN clusters
       => note.name \in DOMAIN watcher'[w].knownResources]_vars
=============================================================================
