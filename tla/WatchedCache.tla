----------------------------- MODULE WatchedCache -----------------------------
(***************************************************************************)
(* An authorization cache and its watchers side by side: the synchronizer  *)
(* of AuthCache with the notifyWatchers, watcher goroutines and clients of *)
(* CacheWatcher.  A watch request reads the indexes when it makes its      *)
(* watcher and registers it some time later; nothing it does in between    *)
(* keeps the synchronizer from reviewing, purging and telling.             *)
(***************************************************************************)
EXTENDS AuthCache, ScopeEvaluation

CONSTANTS
  Watchers,
  UserOf,          \* watcher -> w.user.GetName()
  GroupsOf,        \* watcher -> w.user.GetGroups()
  IncludeExisting, \* watcher -> includeAllExistingProjects
  Capacity,        \* of cacheIncoming
  ScopesOf         \* watcher -> the scopes in the extra information of its user

VARIABLES
  locked, watchers, turn, removing, watcher, \* as in CacheWatcher
  missed  \* history: watcher -> names told or purged before it was added

watching == <<locked, watchers, turn, removing, watcher>>
everything == <<vars, watching, missed>>

\* Who the indexes list a name for.
IndexedAccess ==
  [n \in Names |->
     [users  |-> {u \in Users : n \in NamesOf(userSubjectRecordStore, u)},
      groups |-> {g \in Groups : n \in NamesOf(groupSubjectRecordStore, g)}]]

W == INSTANCE CacheWatcher
       WITH access <- IndexedAccess, known <- NamesToAnswerFor, note <- Note

-----------------------------------------------------------------------------
\* A watcher that is made but not added misses what the cache makes of names
\* meanwhile; one that is added and told has missed nothing about that name.
Miss(names) ==
  missed' = [w \in Watchers |-> IF watcher[w].pc = "created" THEN missed[w] \cup names
                                ELSE missed[w]]

\* The informers, and the synchronizer up to a call of notifyWatchers.
CacheStep ==
  /\ InformerEvent \/ (step # "notify" /\ Synchronize)
  /\ Miss(DOMAIN reviewRecordStore \ DOMAIN reviewRecordStore')
  /\ UNCHANGED watching

BeginTelling ==
  /\ UNCHANGED vars
  /\ W!LockForNotify
  /\ missed' = [w \in Watchers |->
                  CASE watcher[w].pc = "created" -> missed[w] \cup {request.name}
                    [] w \in W!Range(watchers) -> missed[w] \ {request.name}
                    [] OTHER -> missed[w]]

TellWatcher ==
  /\ UNCHANGED <<vars, missed>>
  /\ W!TellNext

EndTelling ==
  /\ Notify
  /\ W!UnlockAfterNotify
  /\ UNCHANGED missed

\* REST.Watch up to NewCacheWatcher; the scopes refer to the roles of the lister.
VisibleNames(w) ==
  ScopesToVisibleNamespaces(ScopesOf[w], [r \in DOMAIN roles |-> roles[r].rules])

MakeWatcher(w) ==
  /\ UNCHANGED <<vars, missed>>
  /\ FailingScopes(ScopesOf[w], TRUE) = {}
  /\ W!NewCacheWatcher(w, DOMAIN clusters \cap VisibleNames(w))

\* The rest of REST.Watch, and what the watch's goroutine and client do.
WatchStep(w) ==
  /\ UNCHANGED <<vars, missed>>
  /\ W!AddWatcher(w) \/ W!Goroutine(w) \/ W!Removal(w) \/ W!Client(w)

WatchedInit ==
  /\ Init /\ W!WatchersInit
  /\ missed = [w \in Watchers |-> {}]

WatchedNext ==
  \/ CacheStep \/ BeginTelling \/ TellWatcher \/ EndTelling
  \/ \E w \in Watchers : MakeWatcher(w) \/ WatchStep(w)

\* The synchronizer and the goroutines run; clients and informers need not.
WatchedFairness ==
  /\ WF_everything(Synchronize /\ CacheStep)
  /\ WF_everything(BeginTelling \/ TellWatcher \/ EndTelling)
  /\ \A w \in Watchers : WF_everything(UNCHANGED <<vars, missed>> /\ W!Goroutine(w))

WatchedSpec == WatchedInit /\ [][WatchedNext]_everything /\ WatchedFairness

-----------------------------------------------------------------------------
\* syncRequest or a purge is at work on n.
AtWorkOn(n) == step \notin {"next", "review"} /\ request.name = n

\* Whenever the cache is not at work on a name, what it has on record about it
\* and what each registered watcher takes its client to know agree: a name that
\* is known is one that the record grants, and a resource that was reviewed in
\* its current version and granted is known, in that version.  So no order of
\* watch requests, reviews and informer events leaves a client with what it has
\* lost or without what it has got, except for the answers told in between
\* NewCacheWatcher and AddWatcher (storage.go:121-122), until the next answer
\* about the name (common.go:239-244, watcher.go:112-171).
SettledWatchersAgree ==
  \A w \in W!Range(watchers), n \in DOMAIN reviewRecordStore :
    ~AtWorkOn(n) /\ W!Sees(w, n) /\ n \notin missed[w] =>
      LET record == reviewRecordStore[n]
          granted == W!HasAccess(w, record)
          client == watcher[w].knownResources
      IN  /\ n \in DOMAIN client => granted
          /\ granted /\ n \in DOMAIN clusters /\ clusters[n] = record.resourceVersion =>
               n \in DOMAIN client /\ client[n] = clusters[n]

\* "allKnownNames we track all the known resource names, so we can detect
\* deletes" (common.go:125): between two cycles, a resource that a watcher takes
\* its client to know, and that is gone, is among the names whose deletion the
\* next cycle will find.
DeletesOfKnownDetected ==
  phase = "idle" =>
    \A w \in W!Range(watchers) : \A n \in DOMAIN watcher[w].knownResources \ DOMAIN clusters :
      W!Sees(w, n) /\ n \notin missed[w] => n \in allKnownNames

\* In the end a client with nothing on its way to it has every cluster that it
\* may get and its watcher sees, in the last version: no grant is lost between
\* roles, reviews, records, queue and client (common.go:248-322,
\* watcher.go:137-169), unless a queue overflows, the client stops, or the
\* answer was told before AddWatcher.
Lacks(w, n) ==
  /\ w \in W!Range(watchers) /\ W!Sees(w, n) /\ n \notin missed[w]
  /\ removing = None /\ ~watcher[w].userStop
  /\ watcher[w].outgoing = None /\ watcher[w].cacheIncoming = <<>>
  /\ W!HasAccess(w, [users |-> GrantedUsers(n), groups |-> GrantedGroups(n)])
  /\ n \notin DOMAIN watcher[w].view \/ watcher[w].view[n] # clusters[n]

ClientsGetWhatIsGranted ==
  <>[](\A w \in Watchers, n \in DOMAIN clusters : ~Lacks(w, n))
=============================================================================
