----------------------------- MODULE CacheWatcher -----------------------------
(***************************************************************************)
(* The watchers of a cache (pkg/cache/watcher.go) and the cache's list of  *)
(* them (watchers, watcherLock of pkg/cache/common.go).                    *)
(*                                                                         *)
(* The synchronizer tells the registered watchers of one answer at a time, *)
(* holding watcherLock.  A watcher turns the answer into an event about    *)
(* its user and queues it; the watcher's own goroutine sends the queue, one*)
(* event at a time, to a client that receives when it likes and may stop.  *)
(*                                                                         *)
(* The answers are those of ReviewFeed, which AuthCache implements.        *)
(***************************************************************************)
EXTENDS Integers, SequencesExt, ReviewFeed

CONSTANTS
  Watchers,
  UserOf,          \* watcher -> w.user.GetName()
  GroupsOf,        \* watcher -> w.user.GetGroups()
  IncludeExisting, \* watcher -> includeAllExistingProjects
  Capacity,        \* of cacheIncoming
  MaxVersion       \* bound on resource versions

ASSUME CacheWatcherAssumption ==
  /\ Capacity \in Nat \ {0} /\ MaxVersion \in Nat
  /\ UserOf \in [Watchers -> Users] /\ GroupsOf \in [Watchers -> SUBSET Groups]
  /\ IncludeExisting \in [Watchers -> BOOLEAN]

VARIABLES
  clusters,  \* the lister: name -> resource version
  clock,     \* the last resource version given
  locked,    \* watcherLock, which outlives a step only in notifyWatchers
  watchers,  \* ac.watchers
  turn,      \* watchers that notifyWatchers has still to tell
  removing,  \* the watcher whose GroupMembershipChanged is in RemoveWatcher, or None
  watcher    \* Watchers -> cacheWatcher, and what its client has made of the events

lister == <<clusters, clock>>
notifier == <<locked, watchers, turn, removing>>

-----------------------------------------------------------------------------
Event(type, n, version) == [type |-> type, name |-> n, version |-> version]

ErrorEvent == Event("ERROR", None, 0)

\* The client's picture after an event.
Applied(view, e) ==
  CASE e.type \in {"ADDED", "MODIFIED"} -> Assign(view, e.name, e.version)
    [] e.type = "DELETED" -> Without(view, e.name)
    [] OTHER -> view

NoWatcher ==
  [pc |-> "absent", visibleResources |-> {}, knownResources |-> EmptyMap,
   initialResources |-> EmptyMap, cacheIncoming |-> <<>>, cacheError |-> FALSE,
   outgoing |-> None, userStop |-> FALSE, view |-> EmptyMap]

HasAccess(w, answer) == UserOf[w] \in answer.users \/ GroupsOf[w] \cap answer.groups # {}

\* ListObjects: names the cache lists for the user, as far as the lister has them.
ListObjects(w) ==
  Restrict(clusters, {n \in DOMAIN access \cap DOMAIN clusters : HasAccess(w, access[n])})

\* A client that does not ask for the existing resources has listed them itself.
NewCacheWatcher(w, visible) ==
  /\ watcher[w].pc = "absent"
  /\ watcher' = [watcher EXCEPT ![w] =
       [NoWatcher EXCEPT
          !.pc = "created",
          !.visibleResources = visible,
          !.knownResources = ListObjects(w),
          !.initialResources = IF IncludeExisting[w] THEN ListObjects(w) ELSE EmptyMap,
          !.view = IF IncludeExisting[w] THEN EmptyMap ELSE ListObjects(w)]]
  /\ UNCHANGED <<feed, lister, notifier>>

\* AddWatcher, and the start of the goroutine.
AddWatcher(w) ==
  /\ watcher[w].pc = "created" /\ ~locked
  /\ watchers' = Append(watchers, w)
  /\ watcher' = [watcher EXCEPT ![w].pc = "watching"]
  /\ UNCHANGED <<feed, lister, locked, turn, removing>>

-----------------------------------------------------------------------------
(***************************************************************************)
(* Watch(): the goroutine.  It emits the initial resources, then waits for *)
(* whichever of error, stop and event is ready; emit blocks until the      *)
(* client takes the event or has stopped.                                  *)
(***************************************************************************)
AtSelect(w) == watcher[w].pc = "watching" /\ watcher[w].outgoing = None

EmitInitial(w) ==
  /\ AtSelect(w) /\ ~watcher[w].cacheError
  /\ \E n \in DOMAIN watcher[w].initialResources :
       watcher' = [watcher EXCEPT
         ![w].initialResources = Without(@, n),
         ![w].outgoing = Event("ADDED", n, watcher[w].initialResources[n])]
  /\ UNCHANGED <<feed, lister, notifier>>

EmitIncoming(w) ==
  /\ AtSelect(w) /\ watcher[w].initialResources = EmptyMap
  /\ watcher[w].cacheIncoming # <<>>
  /\ watcher' = [watcher EXCEPT ![w].cacheIncoming = Tail(@),
                                ![w].outgoing = Head(watcher[w].cacheIncoming)]
  /\ UNCHANGED <<feed, lister, notifier>>

\* Mutant of ExitReasons: only an error ends a watch.
ExitReasonsWithoutStop(w) == {reason \in {"error"} : watcher[w].cacheError}

\* Stop is not looked at before all initial resources are out.
ExitReasons(w) ==
  {reason \in {"error", "stop"} :
     \/ reason = "error" /\ watcher[w].cacheError
     \/ reason = "stop" /\ watcher[w].userStop /\ watcher[w].initialResources = EmptyMap}

Leave(w) ==
  /\ AtSelect(w)
  /\ \E reason \in ExitReasons(w) :
       watcher' = [watcher EXCEPT
         ![w].pc = "exiting",
         ![w].outgoing = IF reason = "error" THEN ErrorEvent ELSE None]
  /\ UNCHANGED <<feed, lister, notifier>>

\* Mutant of RemoveWatcher: the slice is cut without shifting what follows.
RemoveWatcherUnshifted(w, caller) ==
  /\ ~locked
  /\ watchers' = IF w \in Range(watchers) THEN Front(watchers) ELSE watchers
  /\ removing' = IF caller = "notifier" THEN None ELSE removing
  /\ watcher' = IF caller = "notifier" THEN [watcher EXCEPT ![w].cacheError = TRUE]
                ELSE [watcher EXCEPT ![w].pc = "closed"]
  /\ UNCHANGED <<feed, lister, locked, turn>>

\* RemoveWatcher, under watcherLock, and what its caller does next: the goroutine
\* closes outgoing, GroupMembershipChanged puts an error on cacheError.
RemoveWatcher(w, caller) ==
  /\ ~locked
  /\ IF w \in Range(watchers)
     THEN \E i \in DOMAIN watchers :
            /\ watchers[i] = w /\ \A j \in 1..(i - 1) : watchers[j] # w
            /\ watchers' = RemoveAt(watchers, i)
     ELSE UNCHANGED watchers
  /\ removing' = IF caller = "notifier" THEN None ELSE removing
  /\ watcher' = IF caller = "notifier" THEN [watcher EXCEPT ![w].cacheError = TRUE]
                ELSE [watcher EXCEPT ![w].pc = "closed"]
  /\ UNCHANGED <<feed, lister, locked, turn>>

\* Who is calling RemoveWatcher(w).
Removers(w) ==
  {caller \in {"goroutine", "notifier"} :
     \/ caller = "goroutine" /\ watcher[w].pc = "exiting" /\ watcher[w].outgoing = None
     \/ caller = "notifier" /\ removing = w}

-----------------------------------------------------------------------------
(***************************************************************************)
(* The client.  Receiving and stopping is up to it.                        *)
(***************************************************************************)
Receive(w) ==
  /\ watcher[w].outgoing # None
  /\ watcher' = [watcher EXCEPT ![w].view = Applied(@, watcher[w].outgoing),
                                ![w].outgoing = None]
  /\ UNCHANGED <<feed, lister, notifier>>

\* emit gives up on a client that has stopped.
Drop(w) ==
  /\ watcher[w].outgoing # None /\ watcher[w].userStop
  /\ watcher' = [watcher EXCEPT ![w].outgoing = None]
  /\ UNCHANGED <<feed, lister, notifier>>

\* Stop: the first call closes userStop, the others return.
Stop(w) ==
  /\ watcher[w].pc \notin {"absent", "created"} /\ ~watcher[w].userStop
  /\ watcher' = [watcher EXCEPT ![w].userStop = TRUE]
  /\ UNCHANGED <<feed, lister, notifier>>

-----------------------------------------------------------------------------
(***************************************************************************)
(* notifyWatchers, for the answer in note.                                 *)
(***************************************************************************)
\* Mutant of LockForNotify: the first watcher is left out.
LockForNotifySkippingFirst ==
  /\ note # None /\ ~locked
  /\ locked' = TRUE
  /\ turn' = IF watchers = <<>> THEN <<>> ELSE Tail(watchers)
  /\ UNCHANGED <<feed, lister, watchers, removing, watcher>>

LockForNotify ==
  /\ note # None /\ ~locked
  /\ locked' = TRUE
  /\ turn' = watchers
  /\ UNCHANGED <<feed, lister, watchers, removing, watcher>>

\* Mutant of Send: the queue takes one event more than it has room for.
SendBeyondCapacity(w, newKnown, event) ==
  IF Len(watcher[w].cacheIncoming) <= Capacity
  THEN /\ watcher' = [watcher EXCEPT ![w].knownResources = newKnown,
                                     ![w].cacheIncoming = Append(@, event)]
       /\ UNCHANGED removing
  ELSE /\ watcher' = [watcher EXCEPT ![w].knownResources = newKnown]
       /\ removing' = w

\* select { case w.cacheIncoming <- event: default: w.authCache.RemoveWatcher(w) }
\* The known resources have changed before; an event that finds no room is lost.
Send(w, newKnown, event) ==
  IF Len(watcher[w].cacheIncoming) < Capacity
  THEN /\ watcher' = [watcher EXCEPT ![w].knownResources = newKnown,
                                     ![w].cacheIncoming = Append(@, event)]
       /\ UNCHANGED removing
  ELSE /\ watcher' = [watcher EXCEPT ![w].knownResources = newKnown]
       /\ removing' = w

Sees(w, n) == "*" \in watcher[w].visibleResources \/ n \in watcher[w].visibleResources

Knows(w, n) == n \in DOMAIN watcher[w].knownResources

\* The version that a map of resources has of n, 0 if none.
VersionIn(resources, n) == IF n \in DOMAIN resources THEN resources[n] ELSE 0

\* ConvertResource's version: that of the lister's object, or of an empty one.
VersionOf(n) == VersionIn(clusters, n)

\* Mutant of LoseAccess: the name stays known.
LoseAccessKeepingName(w) ==
  /\ Sees(w, note.name) /\ ~HasAccess(w, note) /\ Knows(w, note.name)
  /\ Send(w, watcher[w].knownResources, Event("DELETED", note.name, VersionOf(note.name)))

LoseAccess(w) ==
  /\ Sees(w, note.name) /\ ~HasAccess(w, note) /\ Knows(w, note.name)
  /\ Send(w, Without(watcher[w].knownResources, note.name),
          Event("DELETED", note.name, VersionOf(note.name)))

\* Mutant of IsNews: a change of a known resource is no news.
IsNewsIfUnknown(w) == note.name \in DOMAIN clusters /\ ~Knows(w, note.name)

\* The lister has the resource, in a version the watcher has not told of.
IsNews(w) ==
  /\ note.name \in DOMAIN clusters
  /\ Knows(w, note.name) => watcher[w].knownResources[note.name] # clusters[note.name]

\* Mutant of HaveAccess: every event is an addition.
HaveAccessAlwaysAdding(w) ==
  /\ Sees(w, note.name) /\ HasAccess(w, note) /\ IsNews(w)
  /\ Send(w, Assign(watcher[w].knownResources, note.name, clusters[note.name]),
          Event("ADDED", note.name, clusters[note.name]))

HaveAccess(w) ==
  /\ Sees(w, note.name) /\ HasAccess(w, note) /\ IsNews(w)
  /\ Send(w, Assign(watcher[w].knownResources, note.name, clusters[note.name]),
          Event(IF Knows(w, note.name) THEN "MODIFIED" ELSE "ADDED",
                note.name, clusters[note.name]))

\* Out of sight, never known, not found, or told of already.
NothingToTell(w) ==
  /\ \/ ~Sees(w, note.name)
     \/ ~HasAccess(w, note) /\ ~Knows(w, note.name)
     \/ HasAccess(w, note) /\ ~IsNews(w)
  /\ UNCHANGED <<watcher, removing>>

GroupMembershipChanged(w) == LoseAccess(w) \/ HaveAccess(w) \/ NothingToTell(w)

\* One turn of notifyWatchers' loop.
TellNext ==
  /\ locked /\ removing = None /\ turn # <<>>
  /\ turn' = Tail(turn)
  /\ GroupMembershipChanged(Head(turn))
  /\ UNCHANGED <<feed, lister, locked, watchers>>

\* The last one told, the lock is released and synchronize() goes on.
UnlockAfterNotify ==
  /\ locked /\ removing = None /\ turn = <<>>
  /\ locked' = FALSE
  /\ Deliver
  /\ UNCHANGED <<lister, watchers, turn, removing, watcher>>

-----------------------------------------------------------------------------
WatchersInit ==
  /\ locked = FALSE /\ watchers = <<>> /\ turn = <<>> /\ removing = None
  /\ watcher = [w \in Watchers |-> NoWatcher]

Notifier == LockForNotify \/ TellNext \/ UnlockAfterNotify

Goroutine(w) == EmitInitial(w) \/ EmitIncoming(w) \/ Leave(w) \/ Drop(w)

Removal(w) == \E caller \in Removers(w) : RemoveWatcher(w, caller)

Client(w) == Receive(w) \/ Stop(w)

WatchersNext ==
  \/ Notifier
  \/ \E w \in Watchers : AddWatcher(w) \/ Goroutine(w) \/ Removal(w) \/ Client(w)
=============================================================================
